----------------------------- MODULE MCFeishuApi -----------------------------
(* FeishuApi on a small instance. *)
EXTENDS FeishuApi, TLC

CONSTANTS t1, t2, ann, bob

(* Only one of the profiles changes. *)
MCVersions == ann :> 1 @@ bob :> 0
=============================================================================
