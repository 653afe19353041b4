-------------------------- MODULE MCLongConnection --------------------------
(* LongConnection on a small instance: an event, one without a type, and a *)
(* message that is no event.                                               *)
EXTENDS LongConnection, TLC

CONSTANTS event, untyped, card

MCCutsOf == event :> {2, 3} @@ untyped :> {2} @@ card :> {1}
=============================================================================
