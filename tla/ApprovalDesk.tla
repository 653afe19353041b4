---------------------------- MODULE ApprovalDesk ----------------------------
(***************************************************************************)
(* What the provisioning coordinator promises: a chat has one request at a *)
(* time; it is approved or declined, or lapses when it is old; whoever     *)
(* waits for it takes the request away together with what became of it, or *)
(* gives it up when it is overdue, and then it stays, lapsed.              *)
(***************************************************************************)
CONSTANTS Callers, Chats, None

VARIABLES desk,    \* chat -> its request, None if there is none
          answer,  \* caller -> what it was told; "none" before it asks
          age      \* caller -> "fresh", "aged" or "overdue"

deskVars == <<desk, answer, age>>

Init ==
  /\ desk = [c \in Chats |-> None]
  /\ answer = [r \in Callers |-> "none"]
  /\ age = [r \in Callers |-> "fresh"]

Tell(r, word) == answer' = [answer EXCEPT ![r] = word]

Submit(r, c) ==
  /\ answer[r] = "none" /\ desk[c] = None
  /\ desk' = [desk EXCEPT ![c] = [of |-> r, status |-> "Pending"]]
  /\ Tell(r, "waiting")
  /\ UNCHANGED age

TurnAway(r, c) ==
  /\ answer[r] = "none" /\ desk[c] # None
  /\ Tell(r, "AlreadyExists")
  /\ UNCHANGED <<desk, age>>

Pending(c) == desk[c] # None /\ desk[c].status = "Pending"

Decide(c) ==
  /\ Pending(c)
  /\ \E status \in {"Approved", "Declined"}: desk' = [desk EXCEPT ![c].status = status]
  /\ UNCHANGED <<answer, age>>

(* Old requests that nobody decided lapse. *)
Lapse ==
  /\ desk' = [c \in Chats |-> IF Pending(c) /\ age[desk[c].of] # "fresh"
                              THEN [desk[c] EXCEPT !.status = "Expired"] ELSE desk[c]]
  /\ UNCHANGED <<answer, age>>

Word == [Approved |-> "Ok", Declined |-> "Declined", Expired |-> "TimedOut"]

(* Reading what became of a request and taking it away are one step. *)
Take(r, c) ==
  /\ answer[r] = "waiting" /\ desk[c] # None
  /\ desk[c].of = r /\ desk[c].status \in DOMAIN Word
  /\ Tell(r, Word[desk[c].status])
  /\ desk' = [desk EXCEPT ![c] = None]
  /\ UNCHANGED age

GiveUp(r, c) ==
  /\ answer[r] = "waiting" /\ age[r] = "overdue" /\ desk[c] # None /\ desk[c].of = r
  /\ Tell(r, "TimedOut")
  /\ desk' = [desk EXCEPT ![c].status = "Expired"]
  /\ UNCHANGED age

Age(r) ==
  /\ \/ age[r] = "fresh" /\ age' = [age EXCEPT ![r] = "aged"]
     \/ age[r] = "aged" /\ age' = [age EXCEPT ![r] = "overdue"]
  /\ UNCHANGED <<desk, answer>>

Next ==
  \/ \E r \in Callers, c \in Chats:
       Submit(r, c) \/ TurnAway(r, c) \/ Take(r, c) \/ GiveUp(r, c)
  \/ \E c \in Chats: Decide(c)
  \/ \E r \in Callers: Age(r)
  \/ Lapse

Spec == Init /\ [][Next]_deskVars
=============================================================================
