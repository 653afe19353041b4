--------------------------- MODULE MCProvisioning ---------------------------
(* Provisioning on a small instance: three callers ask for one chat. *)
EXTENDS Provisioning

CONSTANTS r1, r2, r3, c1
=============================================================================
