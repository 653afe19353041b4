------------------------------ MODULE Mailbox ------------------------------
(***************************************************************************)
(* What the long connection promises, whatever the gateway cuts, mixes and *)
(* repeats and whichever sessions break: messages come to the desk one at  *)
(* a time and whole, an event is acknowledged only while the very copy     *)
(* that was accepted lies there, and what is left unacknowledged may come  *)
(* again.                                                                  *)
(***************************************************************************)
CONSTANTS Messages,
          Events,    \* the messages that are handed to dispatch
          CopiesOf,  \* message -> the payloads that are whole copies of it
          None

VARIABLES desk,     \* the copy being handled, None if there is none
          verdict,  \* what became of it: "open", "accepted" or "refused"
          taken,    \* the events accepted
          acked     \* the messages acknowledged

mailboxVars == <<desk, verdict, taken, acked>>

Init == desk = None /\ verdict = "open" /\ taken = {} /\ acked = {}

Clear == desk' = None /\ verdict' = "open"

(* A whole copy is put on the empty desk. *)
Arrive(m) ==
  /\ desk = None
  /\ \E p \in CopiesOf[m]: desk' = [msg |-> m, payload |-> p]
  /\ UNCHANGED <<verdict, taken, acked>>

Accept ==
  /\ desk # None /\ verdict = "open"
  /\ verdict' = "accepted"
  /\ taken' = taken \cup ({desk.msg} \cap Events)
  /\ UNCHANGED <<desk, acked>>

Refuse ==
  /\ desk # None /\ verdict = "open"
  /\ verdict' = "refused"
  /\ UNCHANGED <<desk, taken, acked>>

Acknowledge ==
  /\ desk # None /\ verdict = "accepted"
  /\ acked' = acked \cup {desk.msg}
  /\ Clear
  /\ UNCHANGED taken

(* A copy that was refused, or is lost with its session or its process,     *)
(* leaves no trace, also if it had been accepted.                           *)
Abandon ==
  /\ desk # None
  /\ Clear
  /\ UNCHANGED <<taken, acked>>

Next == (\E m \in Messages: Arrive(m)) \/ Accept \/ Refuse \/ Acknowledge \/ Abandon

Spec == Init /\ [][Next]_mailboxVars
=============================================================================
