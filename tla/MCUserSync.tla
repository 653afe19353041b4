----------------------------- MODULE MCUserSync -----------------------------
(* UserSync on small instances: a user whom events name by an alias, and   *)
(* one whom they name by the canonical id.                                 *)
EXTENDS UserSync, TLC

CONSTANTS ann, bob, open_ann, n1, n2, w1, w2

MCUserOf == open_ann :> ann @@ bob :> bob

MCSymmetry == Permutations({n1, n2}) \cup Permutations({w1, w2})
=============================================================================
