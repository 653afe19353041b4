-------------------------- MODULE MCFeishuDelivery --------------------------
(* FeishuDelivery on small instances. *)
EXTENDS FeishuDelivery, TLC

CONSTANTS receive, recall, legacy, left0, left1, left2, m1, m2, c1, s1, s2, r1

(* A text message and its recall. *)
MCTextMessageOf == receive :> m1 @@ recall :> m1
MCTextChatOf == receive :> c1 @@ recall :> c1
MCTextSubjectOf == receive :> "receive m1" @@ recall :> "recalled m1"

(* An event of the old type "message" with attachments only, and three     *)
(* changes of the members of its chat, of one type.                        *)
MCChatEvents == {legacy, left0, left1, left2}
MCChatMessageOf == legacy :> m2
MCChatChatOf == [e \in MCChatEvents |-> c1]
MCChatSubjectOf == [e \in MCChatEvents |-> IF e = legacy THEN "message m2" ELSE "deleted c1"]

MCSymmetry == Permutations({s1, s2})
=============================================================================
