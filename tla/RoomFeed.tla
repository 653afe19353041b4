------------------------------ MODULE RoomFeed ------------------------------
(***************************************************************************)
(* What the bridge promises a Feishu chat about its Matrix room, however   *)
(* transactions are pushed, handled side by side, cut off and repeated:    *)
(* messages and edits come in the order of the room, a text comes once and *)
(* not after its redaction, an event is not taken for done without having  *)
(* had its effect, and none of a transaction that is answered is forgotten *)
(* - all but for failures, each of which is told of the event it hit.      *)
(***************************************************************************)
EXTENDS Naturals, Sequences

CONSTANTS Messages, Text, Redactions, Edits, Target,
          Txns,         \* the transactions, in order
          Before(_, _)  \* the order of the room

VARIABLES shown,    \* what was posted, in order
          hidden,   \* the posts taken back
          changes,  \* the edits applied, in order
          done,     \* the events taken for done
          failed,   \* the events a failure was told of
          open      \* the oldest transaction not answered

feedVars == <<shown, hidden, changes, done, failed, open>>

Posted(e) == \E i \in DOMAIN shown: shown[i].event = e

Changed(e) == \E i \in DOMAIN changes: changes[i] = e

TextsHidden(e) ==
  \A i \in DOMAIN shown: shown[i] = [event |-> e, part |-> "text"] => i \in hidden

(* The event and the one it is about were spared by failures. *)
Sound(e) == {e, Target[e]} \cap failed = {}

Redacted(e) == \E r \in Redactions \cap done: Target[r] = e /\ Sound(r)

Binding(e) == Sound(e) /\ ~ \E r \in Redactions: Target[r] = Target[e]

Init ==
  /\ shown = <<>> /\ hidden = {} /\ changes = <<>>
  /\ done = {} /\ failed = {} /\ open = 1

(* What was done may be told of as a failure, when the answer is lost. *)
Told(e) == failed' \in {failed, failed \cup {e}}

Post(e, part) ==
  /\ shown' = Append(shown, [event |-> e, part |-> part])
  /\ \A d \in Messages: Posted(d) \/ d \in failed \/ ~ Before(d, e)
  /\ part = "text" => /\ \A i \in DOMAIN shown: shown[i] # [event |-> e, part |-> part]
                      /\ ~ Redacted(e)
  /\ Told(e)
  /\ UNCHANGED <<hidden, changes, done, open>>

Change(e) ==
  /\ changes' = Append(changes, e)
  /\ \A d \in Edits: Binding(d) /\ Before(d, e) => Changed(d)
  /\ Told(e)
  /\ UNCHANGED <<shown, hidden, done, open>>

Hide(r) ==
  /\ \E i \in DOMAIN shown: shown[i].event = Target[r] /\ hidden' = hidden \cup {i}
  /\ UNCHANGED <<shown, changes, done, failed, open>>

Fail(e) ==
  /\ failed' = failed \cup {e}
  /\ UNCHANGED <<shown, hidden, changes, done, open>>

(* An event is done when it is seen in the chat, or was told to have failed. *)
Finish(e) ==
  /\ e \notin done /\ done' = done \cup {e}
  /\ e \in Messages => Posted(e) \/ e \in failed
  /\ e \in Edits /\ Binding(e) => Changed(e)
  /\ e \in Redactions /\ Target[e] \in Text /\ Sound(e) => TextsHidden(Target[e])
  /\ UNCHANGED <<shown, hidden, changes, failed, open>>

Answered ==
  /\ open <= Len(Txns) /\ open' = open + 1
  /\ \A i \in DOMAIN Txns[open]: Txns[open][i] \in done \cup failed
  /\ UNCHANGED <<shown, hidden, changes, done, failed>>

Next ==
  \/ \E e \in Messages: \E part \in {"text", "attachment"}: Post(e, part)
  \/ \E e \in Edits: Change(e)
  \/ \E r \in Redactions: Hide(r)
  \/ \E e \in Messages \cup Edits \cup Redactions: Fail(e) \/ Finish(e)
  \/ Answered

Spec == Init /\ [][Next]_feedVars
=============================================================================
