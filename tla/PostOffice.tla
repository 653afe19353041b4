----------------------------- MODULE PostOffice -----------------------------
(***************************************************************************)
(* What the bridge promises a Matrix room about the messages of its chat,  *)
(* however events are repeated, replayed and cut off: a message is posted  *)
(* when nothing of it is to be seen, and again only after it was recalled; *)
(* a recall is over when nothing is left of it; what is hidden stays so.   *)
(* A message that met a fault is excused, from then on and for ever.       *)
(***************************************************************************)
EXTENDS Naturals

CONSTANTS Messages

VARIABLES posts,    \* how often a message was posted
          hidden,   \* the posts <<message, number>> that were taken back
          recalled, \* the messages a recall was finished for
          excused   \* the messages that met a fault

officeVars == <<posts, hidden, recalled, excused>>

Unseen(m) == \A n \in 1..posts[m]: <<m, n>> \in hidden

Init ==
  /\ posts = [m \in Messages |-> 0]
  /\ hidden = {} /\ recalled = {} /\ excused = {}

(* The answer to a post may be lost, which is a fault. *)
Post(m) ==
  /\ posts' = [posts EXCEPT ![m] = @ + 1]
  /\ \/ m \in excused
     \/ Unseen(m) /\ (posts[m] = 0 \/ m \in recalled)
  /\ excused' \in {excused, excused \cup {m}}
  /\ UNCHANGED <<hidden, recalled>>

Hide(m) ==
  /\ \E n \in 1..posts[m]: hidden' = hidden \cup {<<m, n>>}
  /\ UNCHANGED <<posts, recalled, excused>>

Recall(m) ==
  /\ recalled' = recalled \cup {m}
  /\ m \in excused \/ Unseen(m)
  /\ UNCHANGED <<posts, hidden, excused>>

Excuse ==
  /\ excused \subseteq excused'
  /\ UNCHANGED <<posts, hidden, recalled>>

Next == (\E m \in Messages: Post(m) \/ Hide(m) \/ Recall(m)) \/ Excuse

Spec == Init /\ [][Next]_officeVars
=============================================================================
