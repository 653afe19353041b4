----------------------------- MODULE ChatQueue -----------------------------
(***************************************************************************)
(* What queue_chat_task promises: a task waits for its chat, tasks of one  *)
(* chat have their turn one at a time and those of others beside them, and *)
(* a turn that is over, however it ended, leaves the chat to the next.     *)
(***************************************************************************)
CONSTANTS Tasks, Chats, None

VARIABLES waiting,  \* task -> the chat it waits for, None if it does not
          turn      \* chat -> the task that has its turn, None if nobody has

queueVars == <<waiting, turn>>

Init ==
  /\ waiting = [t \in Tasks |-> None]
  /\ turn = [c \in Chats |-> None]

Enqueue(t, c) ==
  /\ waiting[t] = None /\ \A d \in Chats: turn[d] # t
  /\ waiting' = [waiting EXCEPT ![t] = c]
  /\ UNCHANGED turn

Begin(t, c) ==
  /\ waiting[t] = c /\ turn[c] = None
  /\ waiting' = [waiting EXCEPT ![t] = None]
  /\ turn' = [turn EXCEPT ![c] = t]

End(t, c) ==
  /\ turn[c] = t
  /\ turn' = [turn EXCEPT ![c] = None]
  /\ UNCHANGED waiting

(* A restart forgets everybody. *)
Forget ==
  /\ waiting' = [t \in Tasks |-> None]
  /\ turn' = [c \in Chats |-> None]

Next ==
  \/ \E t \in Tasks, c \in Chats: Enqueue(t, c) \/ Begin(t, c) \/ End(t, c)
  \/ Forget

Spec == Init /\ [][Next]_queueVars
=============================================================================
