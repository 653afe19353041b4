---------------------------- MODULE Provisioning ----------------------------
(***************************************************************************)
(* ProvisioningCoordinator: requests to bridge a chat, kept in a map under *)
(* the chat's id until somebody approves or declines them or they expire.  *)
(* Whoever made a request may wait for the outcome: wait_for_approval      *)
(* polls the map, and takes the mutex anew for each read, removal and mark, *)
(* so that others may come in between.                                     *)
(*                                                                         *)
(* At this commit create_bridge makes requests and does not wait, and      *)
(* nothing approves or cleans up; the operations are modelled for a caller *)
(* that waits for its own request only, which is what they are made for.   *)
(***************************************************************************)
CONSTANTS Callers, \* those that make a request, one each
          Chats,   \* feishu_chat_id
          None

VARIABLES pending,  \* pending_requests: the request of a chat, None if there is none
          chat,     \* the chat a caller asks for
          pc,       \* where a caller is
          clock,    \* how much of request_timeout a request has behind it
          decision  \* history: the status mark_approval gave a caller's request

vars == <<pending, chat, pc, clock, decision>>

Decisions == {"Approved", "Declined"}

Statuses == Decisions \cup {"Pending", "Expired"}

(* "AlreadyExists" is create_bridge's or the caller's end; so are the four *)
(* answers of wait_for_approval, which it is about to give when the caller *)
(* is at "remove".                                                         *)
Answers == {"Ok", "Declined", "TimedOut", "NotFound"}

Steps == {"idle", "made", "left", "AlreadyExists", "read", "check", "mark",
          "removeApproved", "removeDeclined", "removeExpired"} \cup Answers

Requests == [of: Callers, status: Statuses]

ASSUME NoneAssumption == None \notin Requests

(* A request is "aged" when cleanup_expired counts it as expired, and       *)
(* "overdue" when its caller, which began to wait later, does.              *)
Clocks == {"fresh", "aged", "overdue"}

(* Every variable holds a value of its kind. *)
TypeOK ==
  /\ pending \in [Chats -> Requests \cup {None}]
  /\ chat \in [Callers -> Chats \cup {None}]
  /\ pc \in [Callers -> Steps]
  /\ clock \in [Callers -> Clocks]
  /\ decision \in [Callers -> Decisions \cup {None}]

Init ==
  /\ pending = [c \in Chats |-> None]
  /\ chat = [r \in Callers |-> None]
  /\ pc = [r \in Callers |-> "idle"]
  /\ clock = [r \in Callers |-> "fresh"]
  /\ decision = [r \in Callers |-> None]

-----------------------------------------------------------------------------
At(r, step) == pc[r] = step

Goto(r, step) == pc' = [pc EXCEPT ![r] = step]

Entry(r) == pending[chat[r]]

NewRequest(r) == [of |-> r, status |-> "Pending"]

RequestBridge_Overwrites(r) ==  \* mutant: a request that expired is replaced
  /\ At(r, "idle")
  /\ \E c \in Chats:
       /\ chat' = [chat EXCEPT ![r] = c]
       /\ \/ /\ IF pending[c] = None THEN TRUE ELSE pending[c].status = "Expired"
             /\ pending' = [pending EXCEPT ![c] = NewRequest(r)]
             /\ Goto(r, "made")
          \/ /\ pending[c] # None
             /\ Goto(r, "AlreadyExists") /\ UNCHANGED pending
  /\ UNCHANGED <<clock, decision>>

(* request_bridge: one request a chat, whatever its status. *)
RequestBridge(r) ==
  /\ At(r, "idle")
  /\ \E c \in Chats:
       /\ chat' = [chat EXCEPT ![r] = c]
       /\ \/ /\ pending[c] = None
             /\ pending' = [pending EXCEPT ![c] = NewRequest(r)]
             /\ Goto(r, "made")
          \/ /\ pending[c] # None
             /\ Goto(r, "AlreadyExists") /\ UNCHANGED pending
  /\ UNCHANGED <<clock, decision>>

(* create_bridge answers "Bridge request created" and leaves. *)
Leave(r) ==
  /\ At(r, "made")
  /\ Goto(r, "left")
  /\ UNCHANGED <<pending, chat, clock, decision>>

-----------------------------------------------------------------------------
BeginWait(r) ==
  /\ At(r, "made")
  /\ Goto(r, "read")
  /\ UNCHANGED <<pending, chat, clock, decision>>

AfterRead(entry) ==
  CASE entry = None              -> "NotFound"
    [] entry.status = "Approved" -> "removeApproved"
    [] entry.status = "Declined" -> "removeDeclined"
    [] entry.status = "Expired"  -> "removeExpired"
    [] OTHER                     -> "check"

ReadStatus(r) ==
  /\ At(r, "read")
  /\ Goto(r, AfterRead(Entry(r)))
  /\ UNCHANGED <<pending, chat, clock, decision>>

(* Not yet overdue, the caller sleeps and reads again. *)
CheckTimeout(r) ==
  /\ At(r, "check")
  /\ Goto(r, IF clock[r] = "overdue" THEN "mark" ELSE "read")
  /\ UNCHANGED <<pending, chat, clock, decision>>

(* mark_expired marks what it finds, decided meanwhile or not, and leaves  *)
(* it in the map.                                                          *)
MarkExpired(r) ==
  /\ At(r, "mark")
  /\ pending' = [pending EXCEPT ![chat[r]] =
       IF @ = None THEN None ELSE [@ EXCEPT !.status = "Expired"]]
  /\ Goto(r, "TimedOut")
  /\ UNCHANGED <<chat, clock, decision>>

RemoveRequest_Skipped(r) ==  \* mutant: the early return of a decline comes before the removal
  /\ \/ At(r, "removeApproved") /\ Goto(r, "Ok")
     \/ At(r, "removeDeclined") /\ Goto(r, "Declined")
     \/ At(r, "removeExpired") /\ Goto(r, "TimedOut")
  /\ pending' = IF At(r, "removeDeclined") THEN pending ELSE [pending EXCEPT ![chat[r]] = None]
  /\ UNCHANGED <<chat, clock, decision>>

(* remove_request removes what it finds. *)
RemoveRequest(r) ==
  /\ \/ At(r, "removeApproved") /\ Goto(r, "Ok")
     \/ At(r, "removeDeclined") /\ Goto(r, "Declined")
     \/ At(r, "removeExpired") /\ Goto(r, "TimedOut")
  /\ pending' = [pending EXCEPT ![chat[r]] = None]
  /\ UNCHANGED <<chat, clock, decision>>

-----------------------------------------------------------------------------
IsPending(c) == pending[c] # None /\ pending[c].status = "Pending"

(* mark_approval answers Applied if the request is pending, and leaves it  *)
(* alone if not.                                                           *)
MarkApproval(c) ==
  /\ IsPending(c)
  /\ \E status \in Decisions:
       /\ pending' = [pending EXCEPT ![c].status = status]
       /\ decision' = [decision EXCEPT ![pending[c].of] = status]
  /\ UNCHANGED <<chat, pc, clock>>

Expirable_Decided(c) ==  \* mutant: the filter by status is left out
  pending[c] # None /\ clock[pending[c].of] # "fresh"

Expirable(c) == IsPending(c) /\ clock[pending[c].of] # "fresh"

CleanupExpired ==
  /\ \E c \in Chats: Expirable(c)
  /\ pending' = [c \in Chats |->
       IF Expirable(c) THEN [pending[c] EXCEPT !.status = "Expired"] ELSE pending[c]]
  /\ UNCHANGED <<chat, pc, clock, decision>>

Age(r) ==
  /\ pc[r] # "idle"
  /\ \/ clock[r] = "fresh" /\ clock' = [clock EXCEPT ![r] = "aged"]
     \/ clock[r] = "aged" /\ clock' = [clock EXCEPT ![r] = "overdue"]
  /\ UNCHANGED <<pending, chat, pc, decision>>

WaitStep(r) ==
  ReadStatus(r) \/ CheckTimeout(r) \/ MarkExpired(r) \/ RemoveRequest(r)

Next ==
  \/ \E r \in Callers: RequestBridge(r) \/ Leave(r) \/ BeginWait(r) \/ WaitStep(r) \/ Age(r)
  \/ \E c \in Chats: MarkApproval(c)
  \/ CleanupExpired

Spec == Init /\ [][Next]_vars

-----------------------------------------------------------------------------
(* What a caller that waits is told is what happened to its own request,   *)
(* however many others ask for the chat in between: Ok and Declined were   *)
(* decided so, a time-out has its time behind it, and a request that is    *)
(* waited for is found.                                                    *)
TellsOwnOutcome ==
  \A r \in Callers:
    /\ At(r, "Ok") => decision[r] = "Approved"
    /\ At(r, "Declined") => decision[r] = "Declined"
    /\ At(r, "TimedOut") => clock[r] # "fresh"
    /\ ~ At(r, "NotFound")

A == INSTANCE ApprovalDesk WITH
       desk <- pending,
       answer <- [r \in Callers |-> CASE At(r, "idle") -> "none"
                                      [] pc[r] \in Answers \cup {"AlreadyExists"} -> pc[r]
                                      [] OTHER -> "waiting"],
       age <- clock

(* Although wait_for_approval reads, checks the time, removes and marks     *)
(* under a lock of its own each time, a request behaves as if all were one  *)
(* step: whoever waits takes its own request with what became of it.        *)
DeskSpec == A!Spec

(* A chat whose request has been waited for to the end can be requested     *)
(* again, unless the wait timed out on its own: that request stays in the   *)
(* map as expired, and with it the chat is taken.                           *)
FreedUnlessTimedOut ==
  \A c \in Chats:
    pending[c] # None /\ pc[pending[c].of] \in Answers
      => /\ pc[pending[c].of] = "TimedOut" /\ pending[c].status = "Expired"
         /\ clock[pending[c].of] = "overdue"

(* A decision that was answered with Applied stays until the caller reads  *)
(* it; only a caller that had read Pending before the decision, and was    *)
(* overdue, may turn it into Expired.                                      *)
DecisionStays ==
  [][\A c \in Chats:
       pending[c] # None /\ pending[c].status \in Decisions
         => \/ pending'[c] = pending[c]
            \/ /\ pc[pending[c].of] \in {"removeApproved", "removeDeclined"}
               /\ pc'[pending[c].of] \in {"Ok", "Declined"}
            \/ /\ At(pending[c].of, "mark") /\ clock[pending[c].of] = "overdue"
               /\ pc'[pending[c].of] = "TimedOut"]_vars
=============================================================================
