---------------------------- MODULE MCRoomStore ----------------------------
(* RoomStore on a small instance. *)
EXTENDS RoomStore, TLC

CONSTANTS r1, r2, c1, t1, t2

(* A renaming, and a switch to thread mode announced by chat_mode. *)
MCRenamed == [name |-> "renamed", mode |-> None, told |-> FALSE]
MCThread == [name |-> None, mode |-> "thread", told |-> TRUE]

MCOneUpdate == {MCThread}
MCTwoUpdates == {MCRenamed, MCThread}

MCSymmetry == Permutations({r1, r2}) \cup Permutations({t1, t2})
=============================================================================
