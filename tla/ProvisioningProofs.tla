-------------------------- MODULE ProvisioningProofs --------------------------
(***************************************************************************)
(* Proofs about Provisioning for any callers and chats.  All rests on who  *)
(* owns the entry of a chat: remove_request and mark_expired take whatever *)
(* they find under the chat's id.                                          *)
(***************************************************************************)
EXTENDS Provisioning, TLAPS

(* The steps at which a caller's request is in the map. *)
Owning == {"made", "left", "read", "check", "mark",
           "removeApproved", "removeDeclined", "removeExpired"}

(* What a caller finds under its chat is its own request. *)
OwnersInv ==
  \A r \in Callers: pc[r] \in Owning =>
    chat[r] \in Chats /\ Entry(r) # None /\ Entry(r).of = r

(* What stands in the map belongs to a caller that is not through with it,  *)
(* or that timed out, and its status tells what happened to it.             *)
Attested(c, of, status) ==
  /\ chat[of] = c
  /\ pc[of] \in Owning \cup {"TimedOut"}
  /\ pc[of] = "TimedOut" => status = "Expired" /\ clock[of] = "overdue"
  /\ status \in Decisions => decision[of] = status
  /\ status = "Expired" => clock[of] # "fresh"

EntriesInv ==
  \A c \in Chats: pending[c] # None => Attested(c, pending[c].of, pending[c].status)

(* What a caller has read is still so when it acts on it. *)
ReadsInv ==
  \A r \in Callers:
    /\ At(r, "removeApproved") => Entry(r).status = "Approved"
    /\ At(r, "removeDeclined") => Entry(r).status = "Declined"
    /\ At(r, "removeExpired") => Entry(r).status = "Expired"
    /\ At(r, "mark") => clock[r] = "overdue"

IInv == TypeOK /\ OwnersInv /\ EntriesInv /\ ReadsInv /\ TellsOwnOutcome

-----------------------------------------------------------------------------
(* An empty map and idle callers. *)
LEMMA InitIInv == Init => IInv
BY DEF Init, IInv, TypeOK, Steps, Clocks, OwnersInv, Owning, EntriesInv, ReadsInv, At,
       TellsOwnOutcome

(* A step of one caller that leaves the map alone is harmless if the caller *)
(* stays among those that own their request, or never did, and what its new *)
(* step relies on holds.                                                    *)
LEMMA CallerMoves ==
  ASSUME IInv, NEW r \in Callers, NEW step \in Steps,
         pc' = [pc EXCEPT ![r] = step], UNCHANGED <<pending, chat, clock, decision>>,
         pc[r] \in Owning, step \in Owning,
         step = "removeApproved" => Entry(r).status = "Approved",
         step = "removeDeclined" => Entry(r).status = "Declined",
         step = "removeExpired" => Entry(r).status = "Expired",
         step = "mark" => clock[r] = "overdue"
  PROVE  IInv'
<1>1. pc'[r] = step /\ \A q \in Callers: q # r => pc'[q] = pc[q]
  BY DEF IInv, TypeOK
<1>2. TypeOK'
  BY DEF IInv, TypeOK
<1>3. OwnersInv'
  BY <1>1 DEF IInv, OwnersInv, Entry
<1>4. EntriesInv'
  BY <1>1 DEF IInv, TypeOK, Requests, EntriesInv, Attested, Owning
<1>5. ReadsInv'
  BY <1>1 DEF IInv, ReadsInv, At, Entry
<1>6. TellsOwnOutcome'
  BY <1>1 DEF IInv, TellsOwnOutcome, At, Owning
<1> QED BY <1>2, <1>3, <1>4, <1>5, <1>6 DEF IInv

(* request_bridge: the first request of a chat gets the entry, others are   *)
(* turned away.                                                             *)
LEMMA RequestIInv ==
  ASSUME IInv, NEW r \in Callers, RequestBridge(r)
  PROVE  IInv'
<1>1. PICK c \in Chats:
        /\ chat' = [chat EXCEPT ![r] = c]
        /\ \/ /\ pending[c] = None
              /\ pending' = [pending EXCEPT ![c] = NewRequest(r)]
              /\ Goto(r, "made")
           \/ /\ pending[c] # None
              /\ Goto(r, "AlreadyExists") /\ UNCHANGED pending
  BY DEF RequestBridge
<1>2. pc[r] = "idle" /\ UNCHANGED <<clock, decision>>
  BY DEF RequestBridge, At
<1>3. /\ chat'[r] = c /\ \A q \in Callers: q # r => chat'[q] = chat[q] /\ pc'[q] = pc[q]
      /\ chat' \in [Callers -> Chats \cup {None}]
  BY <1>1 DEF IInv, TypeOK, Goto
<1>4. \A d \in Chats: pending[d] # None => pending[d].of \in Callers /\ pending[d].of # r
  BY <1>2 DEF IInv, TypeOK, Requests, EntriesInv, Attested, Owning
<1>5. CASE pending[c] = None /\ pending' = [pending EXCEPT ![c] = NewRequest(r)] /\ Goto(r, "made")
  <2>1. /\ NewRequest(r) \in Requests /\ NewRequest(r) # None
        /\ NewRequest(r).of = r /\ NewRequest(r).status = "Pending"
    BY NoneAssumption DEF NewRequest, Requests, Statuses
  <2>2. pc'[r] = "made" /\ pending'[c] = NewRequest(r) /\ \A d \in Chats: d # c => pending'[d] = pending[d]
    BY <1>5 DEF IInv, TypeOK, Goto
  <2>3. TypeOK'
    BY <1>2, <1>3, <1>5, <2>1 DEF IInv, TypeOK, Goto, Steps
  <2>4. OwnersInv'
    BY <1>2, <1>3, <1>5, <2>1, <2>2 DEF IInv, OwnersInv, Entry
  <2>5. EntriesInv'
    BY <1>2, <1>3, <1>4, <2>1, <2>2 DEF IInv, EntriesInv, Attested, Owning, Decisions
  <2>6. ReadsInv'
    BY <1>2, <1>3, <1>5, <2>1, <2>2 DEF IInv, OwnersInv, Owning, ReadsInv, At, Entry
  <2>7. TellsOwnOutcome'
    BY <1>2, <1>3, <2>2 DEF IInv, TellsOwnOutcome, At
  <2> QED BY <2>3, <2>4, <2>5, <2>6, <2>7 DEF IInv
<1>6. CASE Goto(r, "AlreadyExists") /\ UNCHANGED pending
  <2>1. pc'[r] = "AlreadyExists"
    BY <1>6 DEF IInv, TypeOK, Goto
  <2>2. TypeOK'
    BY <1>2, <1>3, <1>6 DEF IInv, TypeOK, Goto, Steps
  <2>3. OwnersInv' /\ ReadsInv' /\ TellsOwnOutcome'
    BY <1>2, <1>3, <1>6, <2>1
    DEF IInv, OwnersInv, Owning, ReadsInv, TellsOwnOutcome, At, Entry
  <2>4. EntriesInv'
    BY <1>2, <1>3, <1>4, <1>6 DEF IInv, EntriesInv, Attested
  <2> QED BY <2>2, <2>3, <2>4 DEF IInv
<1> QED BY <1>1, <1>5, <1>6

(* The steps of a caller that look and do not touch. *)
LEMMA LookingIInv ==
  ASSUME IInv, NEW r \in Callers, Leave(r) \/ BeginWait(r) \/ ReadStatus(r) \/ CheckTimeout(r)
  PROVE  IInv'
<1>1. CASE Leave(r) \/ BeginWait(r)
  BY <1>1, CallerMoves DEF Leave, BeginWait, At, Goto, Owning, Steps
<1>2. CASE ReadStatus(r)
  <2>1. Entry(r) # None /\ Entry(r) \in Requests
    BY <1>2 DEF ReadStatus, At, IInv, OwnersInv, Owning, TypeOK, Entry
  <2>2. CASE Entry(r).status = "Approved"
    <3>1. AfterRead(Entry(r)) = "removeApproved"
      BY <2>1, <2>2 DEF AfterRead
    <3> QED BY <1>2, <2>2, <3>1, CallerMoves DEF ReadStatus, At, Goto, Owning, Steps
  <2>3. CASE Entry(r).status = "Declined"
    <3>1. AfterRead(Entry(r)) = "removeDeclined"
      BY <2>1, <2>3 DEF AfterRead
    <3> QED BY <1>2, <2>3, <3>1, CallerMoves DEF ReadStatus, At, Goto, Owning, Steps
  <2>4. CASE Entry(r).status = "Expired"
    <3>1. AfterRead(Entry(r)) = "removeExpired"
      BY <2>1, <2>4 DEF AfterRead
    <3> QED BY <1>2, <2>4, <3>1, CallerMoves DEF ReadStatus, At, Goto, Owning, Steps
  <2>5. CASE Entry(r).status = "Pending"
    <3>1. AfterRead(Entry(r)) = "check"
      BY <2>1, <2>5 DEF AfterRead
    <3> QED BY <1>2, <2>5, <3>1, CallerMoves DEF ReadStatus, At, Goto, Owning, Steps
  <2> QED BY <2>1, <2>2, <2>3, <2>4, <2>5 DEF Requests, Statuses, Decisions
<1>3. CASE CheckTimeout(r)
  <2>1. CASE clock[r] = "overdue"
    BY <1>3, <2>1, CallerMoves DEF CheckTimeout, At, Goto, Owning, Steps
  <2>2. CASE clock[r] # "overdue"
    BY <1>3, <2>2, CallerMoves DEF CheckTimeout, At, Goto, Owning, Steps
  <2> QED BY <2>1, <2>2
<1> QED BY <1>1, <1>2, <1>3

(* mark_expired finds the caller's own request. *)
LEMMA MarkExpiredIInv ==
  ASSUME IInv, NEW r \in Callers, MarkExpired(r)
  PROVE  IInv'
<1> DEFINE c == chat[r]
           new == [pending[c] EXCEPT !.status = "Expired"]
<1>1. /\ pc[r] = "mark" /\ clock[r] = "overdue" /\ c \in Chats
      /\ pending[c] # None /\ pending[c] \in Requests /\ pending[c].of = r
  BY DEF MarkExpired, At, IInv, TypeOK, OwnersInv, Owning, ReadsInv, Entry
<1>2. new \in Requests /\ new # None /\ new.of = r /\ new.status = "Expired"
  BY <1>1, NoneAssumption DEF Requests, Statuses
<1>3. /\ pending' = [pending EXCEPT ![c] = new] /\ UNCHANGED <<chat, clock, decision>>
      /\ pc' = [pc EXCEPT ![r] = "TimedOut"]
  BY <1>1 DEF MarkExpired, Goto
<1> HIDE DEF new
<1>4. /\ pending'[c] = new /\ \A d \in Chats: d # c => pending'[d] = pending[d]
      /\ pc'[r] = "TimedOut" /\ \A q \in Callers: q # r => pc'[q] = pc[q]
  BY <1>1, <1>3 DEF IInv, TypeOK
<1>5. \A q \in Callers: q # r /\ pc[q] \in Owning => chat[q] # c
  BY <1>1 DEF IInv, OwnersInv, Entry
<1>6. TypeOK'
  BY <1>2, <1>3 DEF IInv, TypeOK, Steps, Answers
<1>7. OwnersInv'
  BY <1>3, <1>4, <1>5 DEF IInv, OwnersInv, Owning, Entry
<1>8. EntriesInv'
  <2> SUFFICES ASSUME NEW d \in Chats, pending'[d] # None
               PROVE  Attested(d, pending[d].of, pending[d].status)'
    BY DEF EntriesInv
  <2>1. CASE d = c
    BY <1>1, <1>2, <1>3, <1>4, <2>1 DEF Attested, Decisions
  <2>2. CASE d # c
    BY <1>1, <1>3, <1>4, <2>2 DEF IInv, TypeOK, Requests, EntriesInv, Attested
  <2> QED BY <2>1, <2>2
<1>9. ReadsInv'
  BY <1>3, <1>4, <1>5 DEF IInv, OwnersInv, ReadsInv, At, Entry, Owning
<1>10. TellsOwnOutcome'
  BY <1>1, <1>3, <1>4 DEF IInv, TellsOwnOutcome, At
<1> QED BY <1>6, <1>7, <1>8, <1>9, <1>10 DEF IInv

(* remove_request finds the caller's own request, as the caller read it. *)
LEMMA RemoveIInv ==
  ASSUME IInv, NEW r \in Callers, RemoveRequest(r)
  PROVE  IInv'
<1> DEFINE c == chat[r]
<1>1. /\ pc[r] \in Owning /\ c \in Chats
      /\ pending[c] # None /\ pending[c] \in Requests /\ pending[c].of = r
  BY DEF RemoveRequest, At, IInv, TypeOK, OwnersInv, Owning, Entry
<1>2. /\ pending' = [pending EXCEPT ![c] = None] /\ UNCHANGED <<chat, clock, decision>>
      /\ \/ At(r, "removeApproved") /\ Goto(r, "Ok") /\ pending[c].status = "Approved"
         \/ At(r, "removeDeclined") /\ Goto(r, "Declined") /\ pending[c].status = "Declined"
         \/ At(r, "removeExpired") /\ Goto(r, "TimedOut") /\ pending[c].status = "Expired"
  BY DEF RemoveRequest, IInv, ReadsInv, Entry
<1>3. /\ pending'[c] = None /\ \A d \in Chats: d # c => pending'[d] = pending[d]
      /\ \A q \in Callers: q # r => pc'[q] = pc[q]
      /\ pc'[r] \in {"Ok", "Declined", "TimedOut"} /\ pc' \in [Callers -> Steps]
  BY <1>1, <1>2 DEF IInv, TypeOK, Goto, Steps, Answers
<1>4. \A q \in Callers: q # r /\ pc[q] \in Owning => chat[q] # c
  BY <1>1 DEF IInv, OwnersInv, Entry
<1>5. TypeOK'
  BY <1>2, <1>3 DEF IInv, TypeOK
<1>6. OwnersInv'
  BY <1>2, <1>3, <1>4 DEF IInv, OwnersInv, Owning, Entry
<1>7. EntriesInv'
  <2> SUFFICES ASSUME NEW d \in Chats, d # c, pending[d] # None
               PROVE  Attested(d, pending[d].of, pending[d].status)'
    BY <1>3 DEF EntriesInv
  <2>1. Attested(d, pending[d].of, pending[d].status) /\ pending[d].of \in Callers
    BY DEF IInv, TypeOK, Requests, EntriesInv
  <2>2. pending[d].of # r
    BY <2>1 DEF Attested
  <2> QED BY <1>2, <1>3, <2>1, <2>2 DEF Attested
<1>8. ReadsInv'
  BY <1>2, <1>3, <1>4 DEF IInv, OwnersInv, ReadsInv, At, Entry, Owning
<1>9. TellsOwnOutcome'
  <2>1. Attested(c, r, pending[c].status)
    BY <1>1 DEF IInv, EntriesInv
  <2>2. CASE At(r, "removeApproved") /\ Goto(r, "Ok") /\ pending[c].status = "Approved"
    BY <1>2, <1>3, <2>1, <2>2 DEF IInv, TypeOK, TellsOwnOutcome, At, Goto, Attested, Decisions
  <2>3. CASE At(r, "removeDeclined") /\ Goto(r, "Declined") /\ pending[c].status = "Declined"
    BY <1>2, <1>3, <2>1, <2>3 DEF IInv, TypeOK, TellsOwnOutcome, At, Goto, Attested, Decisions
  <2>4. CASE At(r, "removeExpired") /\ Goto(r, "TimedOut") /\ pending[c].status = "Expired"
    BY <1>2, <1>3, <2>1, <2>4 DEF IInv, TypeOK, TellsOwnOutcome, At, Goto, Attested
  <2> QED BY <1>2, <2>2, <2>3, <2>4
<1> QED BY <1>5, <1>6, <1>7, <1>8, <1>9 DEF IInv

-----------------------------------------------------------------------------
(* mark_approval decides a request that nobody has seen decided. *)
LEMMA ApprovalIInv ==
  ASSUME IInv, NEW c \in Chats, MarkApproval(c)
  PROVE  IInv'
<1> DEFINE r == pending[c].of
<1>1. PICK status \in Decisions:
        /\ pending' = [pending EXCEPT ![c].status = status]
        /\ decision' = [decision EXCEPT ![r] = status]
  BY DEF MarkApproval
<1>2. /\ pending[c] # None /\ pending[c].status = "Pending" /\ pending[c] \in Requests
      /\ r \in Callers /\ UNCHANGED <<chat, pc, clock>>
  BY DEF MarkApproval, IsPending, IInv, TypeOK, Requests
<1>3. chat[r] = c /\ pc[r] \in Owning
  BY <1>2 DEF IInv, EntriesInv, Attested
<1> DEFINE new == [pending[c] EXCEPT !.status = status]
<1>4. new \in Requests /\ new # None /\ new.of = r /\ new.status = status
  BY <1>2, NoneAssumption DEF Requests, Statuses
<1>5. pending' = [pending EXCEPT ![c] = new]
  BY <1>1
<1> HIDE DEF new
<1>6. /\ pending'[c] = new /\ \A d \in Chats: d # c => pending'[d] = pending[d]
      /\ decision'[r] = status /\ \A q \in Callers: q # r => decision'[q] = decision[q]
  BY <1>1, <1>2, <1>5 DEF IInv, TypeOK
<1>7. TypeOK'
  BY <1>1, <1>2, <1>4, <1>5 DEF IInv, TypeOK
<1>8. OwnersInv'
  BY <1>2, <1>3, <1>4, <1>6 DEF IInv, OwnersInv, Entry
<1>9. EntriesInv'
  <2> SUFFICES ASSUME NEW d \in Chats, pending'[d] # None
               PROVE  Attested(d, pending[d].of, pending[d].status)'
    BY DEF EntriesInv
  <2>1. CASE d = c
    BY <1>2, <1>3, <1>4, <1>6, <2>1 DEF Attested, Decisions, Owning
  <2>2. CASE d # c
    BY <1>2, <1>3, <1>6, <2>2 DEF IInv, TypeOK, Requests, EntriesInv, Attested
  <2> QED BY <2>1, <2>2
<1>10. ReadsInv'
  BY <1>2, <1>3, <1>6 DEF IInv, OwnersInv, ReadsInv, At, Entry, Owning
<1>11. TellsOwnOutcome'
  BY <1>2, <1>3, <1>6 DEF IInv, TellsOwnOutcome, At, Owning
<1> QED BY <1>7, <1>8, <1>9, <1>10, <1>11 DEF IInv

(* cleanup_expired leaves what is decided alone. *)
LEMMA CleanupIInv ==
  ASSUME IInv, CleanupExpired
  PROVE  IInv'
<1>1. /\ pending' = [c \in Chats |->
           IF Expirable(c) THEN [pending[c] EXCEPT !.status = "Expired"] ELSE pending[c]]
      /\ UNCHANGED <<chat, pc, clock, decision>>
  BY DEF CleanupExpired
<1>2. ASSUME NEW c \in Chats, Expirable(c)
      PROVE  /\ pending[c] # None /\ pending[c].status = "Pending" /\ pending[c] \in Requests
             /\ clock[pending[c].of] # "fresh"
             /\ pending'[c] \in Requests /\ pending'[c] # None
             /\ pending'[c].of = pending[c].of /\ pending'[c].status = "Expired"
  BY <1>1, <1>2, NoneAssumption DEF Expirable, IsPending, IInv, TypeOK, Requests, Statuses
<1>3. ASSUME NEW c \in Chats, ~ Expirable(c)
      PROVE  pending'[c] = pending[c]
  BY <1>1, <1>3
<1>4. TypeOK'
  BY <1>1, <1>2, <1>3 DEF IInv, TypeOK
<1>5. OwnersInv'
  BY <1>1, <1>2, <1>3 DEF IInv, OwnersInv, Entry
<1>6. EntriesInv'
  <2> SUFFICES ASSUME NEW c \in Chats, pending'[c] # None
               PROVE  Attested(c, pending[c].of, pending[c].status)'
    BY DEF EntriesInv
  <2>1. CASE Expirable(c)
    BY <1>1, <1>2, <2>1 DEF IInv, EntriesInv, Attested, Decisions
  <2>2. CASE ~ Expirable(c)
    BY <1>1, <1>3, <2>2 DEF IInv, EntriesInv, Attested
  <2> QED BY <2>1, <2>2
<1>7. ReadsInv'
  <2> SUFFICES ASSUME NEW r \in Callers
               PROVE  /\ At(r, "removeApproved") => Entry(r)'.status = "Approved"
                      /\ At(r, "removeDeclined") => Entry(r)'.status = "Declined"
                      /\ At(r, "removeExpired") => Entry(r)'.status = "Expired"
                      /\ At(r, "mark") => clock[r] = "overdue"
    BY <1>1 DEF ReadsInv, At
  <2>1. pc[r] \in Owning => chat[r] \in Chats
    BY DEF IInv, OwnersInv
  <2> QED BY <1>1, <1>2, <1>3, <2>1 DEF IInv, ReadsInv, At, Entry, Owning
<1>8. TellsOwnOutcome'
  BY <1>1 DEF IInv, TellsOwnOutcome, At
<1> QED BY <1>4, <1>5, <1>6, <1>7, <1>8 DEF IInv

(* Time passes. *)
LEMMA AgeIInv ==
  ASSUME IInv, NEW r \in Callers, Age(r)
  PROVE  IInv'
<1>1. /\ UNCHANGED <<pending, chat, pc, decision>>
      /\ clock' \in [Callers -> Clocks]
      /\ clock'[r] # "fresh" /\ clock[r] # "overdue"
      /\ \A q \in Callers: q # r => clock'[q] = clock[q]
  BY DEF Age, IInv, TypeOK, Clocks
<1>2. TypeOK' /\ OwnersInv'
  BY <1>1 DEF IInv, TypeOK, OwnersInv, Entry
<1>3. EntriesInv'
  BY <1>1 DEF IInv, TypeOK, Requests, EntriesInv, Attested
<1>4. ReadsInv' /\ TellsOwnOutcome'
  BY <1>1 DEF IInv, ReadsInv, TellsOwnOutcome, At, Entry
<1> QED BY <1>2, <1>3, <1>4 DEF IInv

(* Every step preserves the invariant. *)
LEMMA StepIInv == IInv /\ [Next]_vars => IInv'
<1> SUFFICES ASSUME IInv, [Next]_vars
             PROVE  IInv'
  OBVIOUS
<1>1. ASSUME NEW r \in Callers, RequestBridge(r)
      PROVE  IInv'
  BY <1>1, RequestIInv
<1>2. ASSUME NEW r \in Callers, Leave(r) \/ BeginWait(r) \/ ReadStatus(r) \/ CheckTimeout(r)
      PROVE  IInv'
  BY <1>2, LookingIInv
<1>3. ASSUME NEW r \in Callers, MarkExpired(r)
      PROVE  IInv'
  BY <1>3, MarkExpiredIInv
<1>4. ASSUME NEW r \in Callers, RemoveRequest(r)
      PROVE  IInv'
  BY <1>4, RemoveIInv
<1>5. ASSUME NEW c \in Chats, MarkApproval(c)
      PROVE  IInv'
  BY <1>5, ApprovalIInv
<1>6. CASE CleanupExpired
  BY <1>6, CleanupIInv
<1>7. ASSUME NEW r \in Callers, Age(r)
      PROVE  IInv'
  BY <1>7, AgeIInv
<1>8. CASE UNCHANGED vars
  BY <1>8 DEF vars, IInv, TypeOK, OwnersInv, EntriesInv, Attested, ReadsInv, TellsOwnOutcome, At,
              Entry
<1> QED BY <1>1, <1>2, <1>3, <1>4, <1>5, <1>6, <1>7, <1>8 DEF Next, WaitStep

LEMMA Invariance == Spec => []IInv
BY InitIInv, StepIInv, PTL DEF Spec

-----------------------------------------------------------------------------
(* wait_for_approval answers what happened to the caller's own request,    *)
(* however many callers ask for however many chats.                        *)
THEOREM OwnOutcome == Spec => []TellsOwnOutcome
<1>1. IInv => TellsOwnOutcome
  BY DEF IInv
<1> QED BY <1>1, Invariance, PTL

(* A chat is free again after every wait but one that timed out on its own. *)
THEOREM Freed == Spec => []FreedUnlessTimedOut
<1>1. IInv => FreedUnlessTimedOut
  BY DEF IInv, EntriesInv, Attested, FreedUnlessTimedOut, Answers, Owning
<1> QED BY <1>1, Invariance, PTL

(* What a step may do to a request that is decided. *)
LEMMA DecidedStep ==
  ASSUME IInv, Next, NEW c \in Chats, pending[c] # None, pending[c].status \in Decisions
  PROVE  \/ pending'[c] = pending[c]
         \/ /\ pc[pending[c].of] \in {"removeApproved", "removeDeclined"}
            /\ pc'[pending[c].of] \in {"Ok", "Declined"}
         \/ /\ At(pending[c].of, "mark") /\ clock[pending[c].of] = "overdue"
            /\ pc'[pending[c].of] = "TimedOut"
<1>1. CASE \E r \in Callers: Leave(r) \/ BeginWait(r) \/ ReadStatus(r) \/ CheckTimeout(r) \/ Age(r)
  BY <1>1 DEF Leave, BeginWait, ReadStatus, CheckTimeout, Age
<1>2. CASE \E r \in Callers: RequestBridge(r)
  BY <1>2 DEF RequestBridge, IInv, TypeOK
<1>3. ASSUME NEW r \in Callers, MarkExpired(r)
      PROVE  \/ pending'[c] = pending[c]
             \/ /\ At(pending[c].of, "mark") /\ clock[pending[c].of] = "overdue"
                /\ pc'[pending[c].of] = "TimedOut"
  BY <1>3 DEF MarkExpired, At, Goto, IInv, TypeOK, OwnersInv, Owning, ReadsInv, Entry
<1>4. ASSUME NEW r \in Callers, RemoveRequest(r)
      PROVE  \/ pending'[c] = pending[c]
             \/ /\ pc[pending[c].of] \in {"removeApproved", "removeDeclined"}
                /\ pc'[pending[c].of] \in {"Ok", "Declined"}
  BY <1>4 DEF RemoveRequest, At, Goto, IInv, TypeOK, OwnersInv, Owning, ReadsInv, Entry, Decisions
<1>5. CASE \E d \in Chats: MarkApproval(d)
  BY <1>5 DEF MarkApproval, IsPending, Decisions, IInv, TypeOK
<1>6. CASE CleanupExpired
  BY <1>6 DEF CleanupExpired, Expirable, IsPending, Decisions
<1> QED BY <1>1, <1>2, <1>3, <1>4, <1>5, <1>6 DEF Next, WaitStep

(* A decision stays until its caller reads it, or is overdue. *)
THEOREM DecisionsStay == Spec => DecisionStays
<1>1. IInv /\ [Next]_vars =>
        [\A c \in Chats:
           pending[c] # None /\ pending[c].status \in Decisions
             => \/ pending'[c] = pending[c]
                \/ /\ pc[pending[c].of] \in {"removeApproved", "removeDeclined"}
                   /\ pc'[pending[c].of] \in {"Ok", "Declined"}
                \/ /\ At(pending[c].of, "mark") /\ clock[pending[c].of] = "overdue"
                   /\ pc'[pending[c].of] = "TimedOut"]_vars
  BY DecidedStep
<1> QED BY <1>1, Invariance, PTL DEF Spec, DecisionStays

-----------------------------------------------------------------------------
(* What a caller was told.                                                  *)
AnswerOf(r) == CASE At(r, "idle") -> "none"
                 [] pc[r] \in Answers \cup {"AlreadyExists"} -> pc[r]
                 [] OTHER -> "waiting"

(* A caller that owns its request has not been told anything.               *)
LEMMA OwnerWaits ==
  ASSUME NEW r \in Callers, pc[r] \in Owning
  PROVE  AnswerOf(r) = "waiting"
BY DEF AnswerOf, At, Owning, Answers

(* Nor does a step that leaves it an owner tell it.                         *)
LEMMA OwnerWaitsOn ==
  ASSUME NEW r \in Callers, pc'[r] \in Owning
  PROVE  AnswerOf(r)' = "waiting"
BY DEF AnswerOf, At, Owning, Answers

(* A step that tells nobody, nor touches a request, is none of the desk.    *)
LEMMA DeskStutters ==
  ASSUME UNCHANGED <<pending, clock>>, \A r \in Callers: AnswerOf(r)' = AnswerOf(r)
  PROVE  UNCHANGED A!deskVars
BY DEF A!deskVars, AnswerOf

(* One caller is told something.                                            *)
LEMMA CallerTold ==
  ASSUME IInv, NEW r \in Callers, NEW step \in Steps, Goto(r, step),
         NEW word, AnswerOf(r)' = word
  PROVE  [q \in Callers |-> AnswerOf(q)]' = [[q \in Callers |-> AnswerOf(q)] EXCEPT ![r] = word]
<1>1. \A q \in Callers \ {r}: pc'[q] = pc[q]
  BY DEF Goto, IInv, TypeOK
<1>2. \A q \in Callers \ {r}: AnswerOf(q)' = AnswerOf(q)
  BY <1>1 DEF AnswerOf, At
<1> QED BY <1>2

(* request_bridge submits a request or is turned away.                      *)
LEMMA RequestIsSubmit ==
  ASSUME IInv, NEW r \in Callers, RequestBridge(r)
  PROVE  A!Next
<1>1. PICK c \in Chats:
        \/ /\ pending[c] = None
           /\ pending' = [pending EXCEPT ![c] = NewRequest(r)]
           /\ Goto(r, "made")
        \/ /\ pending[c] # None
           /\ Goto(r, "AlreadyExists") /\ UNCHANGED pending
  BY DEF RequestBridge
<1>2. AnswerOf(r) = "none" /\ clock' = clock /\ {"made", "AlreadyExists"} \subseteq Steps
  BY DEF RequestBridge, AnswerOf, At, Answers, Steps
<1>3. CASE pending[c] = None /\ pending' = [pending EXCEPT ![c] = NewRequest(r)] /\ Goto(r, "made")
  <2>1. AnswerOf(r)' = "waiting"
    BY <1>3, OwnerWaitsOn DEF Goto, Owning, IInv, TypeOK
  <2>2. [q \in Callers |-> AnswerOf(q)]' = [[q \in Callers |-> AnswerOf(q)] EXCEPT ![r] = "waiting"]
    BY <1>2, <1>3, <2>1, CallerTold
  <2>3. A!Submit(r, c)
    BY <1>2, <1>3, <2>2 DEF A!Submit, A!Tell, AnswerOf, NewRequest
  <2> QED BY <2>3 DEF A!Next
<1>4. CASE pending[c] # None /\ Goto(r, "AlreadyExists") /\ UNCHANGED pending
  <2>1. pc'[r] = "AlreadyExists"
    BY <1>4 DEF Goto, IInv, TypeOK
  <2>2. AnswerOf(r)' = "AlreadyExists"
    BY <2>1 DEF AnswerOf, At
  <2>3. [q \in Callers |-> AnswerOf(q)]' =
          [[q \in Callers |-> AnswerOf(q)] EXCEPT ![r] = "AlreadyExists"]
    BY <1>2, <1>4, <2>2, CallerTold
  <2>4. A!TurnAway(r, c)
    BY <1>2, <1>4, <2>3 DEF A!TurnAway, A!Tell, AnswerOf
  <2> QED BY <2>4 DEF A!Next
<1> QED BY <1>1, <1>3, <1>4

(* remove_request takes the caller's own request, as it still is what the   *)
(* caller read.                                                             *)
LEMMA RemoveIsTake ==
  ASSUME IInv, NEW r \in Callers, RemoveRequest(r)
  PROVE  A!Next
<1>1. PICK c \in Chats: c = chat[r]
  BY DEF RemoveRequest, At, IInv, OwnersInv, Owning
<1>2. /\ pc[r] \in Owning /\ pending[c] # None /\ pending[c].of = r
      /\ pending' = [pending EXCEPT ![c] = None] /\ clock' = clock
  BY <1>1 DEF RemoveRequest, At, IInv, OwnersInv, Owning, Entry
<1>3. PICK word \in {"Ok", "Declined", "TimedOut"}:
        /\ Goto(r, word)
        /\ pending[c].status \in DOMAIN A!Word /\ word = A!Word[pending[c].status]
  BY <1>1 DEF RemoveRequest, IInv, ReadsInv, Entry, A!Word
<1>4. AnswerOf(r)' = word /\ word \in Steps
  BY <1>3 DEF Goto, AnswerOf, At, Answers, Steps, IInv, TypeOK
<1>5. [q \in Callers |-> AnswerOf(q)]' = [[q \in Callers |-> AnswerOf(q)] EXCEPT ![r] = word]
  BY <1>3, <1>4, CallerTold
<1>6. AnswerOf(r) = "waiting"
  BY <1>2, OwnerWaits
<1>7. A!Take(r, c)
  BY <1>2, <1>3, <1>5, <1>6 DEF A!Take, A!Tell, AnswerOf
<1> QED BY <1>7 DEF A!Next

(* mark_expired gives the caller's own request up.                          *)
LEMMA MarkIsGiveUp ==
  ASSUME IInv, NEW r \in Callers, MarkExpired(r)
  PROVE  A!Next
<1>1. PICK c \in Chats: c = chat[r]
  BY DEF MarkExpired, At, IInv, OwnersInv, Owning
<1>2. /\ pc[r] \in Owning /\ pending[c] # None /\ pending[c].of = r /\ clock[r] = "overdue"
      /\ pending' = [pending EXCEPT ![c].status = "Expired"] /\ clock' = clock
      /\ Goto(r, "TimedOut")
  BY <1>1 DEF MarkExpired, At, IInv, OwnersInv, ReadsInv, Owning, Entry
<1>3. AnswerOf(r)' = "TimedOut" /\ "TimedOut" \in Steps
  BY <1>2 DEF Goto, AnswerOf, At, Answers, Steps, IInv, TypeOK
<1>4. [q \in Callers |-> AnswerOf(q)]' =
        [[q \in Callers |-> AnswerOf(q)] EXCEPT ![r] = "TimedOut"]
  BY <1>2, <1>3, CallerTold
<1>5. AnswerOf(r) = "waiting"
  BY <1>2, OwnerWaits
<1>6. A!GiveUp(r, c)
  BY <1>2, <1>4, <1>5 DEF A!GiveUp, A!Tell, AnswerOf
<1> QED BY <1>6 DEF A!Next

(* The steps in which a caller only looks.                                  *)
LEMMA LookingStutters ==
  ASSUME IInv, NEW r \in Callers, Leave(r) \/ BeginWait(r) \/ ReadStatus(r) \/ CheckTimeout(r)
  PROVE  UNCHANGED A!deskVars
<1>1. UNCHANGED <<pending, clock>> /\ pc[r] \in Owning
  BY DEF Leave, BeginWait, ReadStatus, CheckTimeout, At, Owning
<1>2. ASSUME ReadStatus(r)
      PROVE  Entry(r) # None
  BY <1>1 DEF IInv, OwnersInv
<1>3. PICK step \in Owning: Goto(r, step)
  BY <1>2 DEF Leave, BeginWait, ReadStatus, CheckTimeout, AfterRead, Owning
<1>4. pc'[r] = step /\ \A q \in Callers \ {r}: pc'[q] = pc[q]
  BY <1>3 DEF Goto, IInv, TypeOK
<1>5. AnswerOf(r)' = AnswerOf(r)
  BY <1>1, <1>4, OwnerWaits, OwnerWaitsOn
<1>6. \A q \in Callers \ {r}: AnswerOf(q)' = AnswerOf(q)
  BY <1>4 DEF AnswerOf, At
<1> QED BY <1>1, <1>5, <1>6, DeskStutters

(* Whatever callers, approvals and cleanups come in between, the            *)
(* coordinator is a desk that hands each its own outcome at one stroke.     *)
THEOREM ImplementsDesk == Spec => DeskSpec
<1>1. Init => A!Init
  BY DEF Init, A!Init, At, Answers
<1>2. ASSUME IInv, [Next]_vars
      PROVE  [A!Next]_(A!deskVars)
  <2>1. ASSUME NEW c \in Chats, MarkApproval(c)
        PROVE  A!Next
    <3>1. UNCHANGED <<pc, clock>> /\ A!Pending(c)
      BY <2>1 DEF MarkApproval, IsPending, A!Pending
    <3>2. \E status \in {"Approved", "Declined"}: pending' = [pending EXCEPT ![c].status = status]
      BY <2>1 DEF MarkApproval, Decisions
    <3>3. [q \in Callers |-> AnswerOf(q)]' = [q \in Callers |-> AnswerOf(q)]
      BY <3>1 DEF AnswerOf, At
    <3>4. A!Decide(c)
      BY <3>1, <3>2, <3>3 DEF A!Decide, AnswerOf
    <3> QED BY <3>4 DEF A!Next
  <2>2. CASE CleanupExpired
    <3>1. A!Lapse
      BY <2>2 DEF CleanupExpired, Expirable, IsPending, A!Lapse, A!Pending, At
    <3> QED BY <3>1 DEF A!Next
  <2>3. ASSUME NEW r \in Callers, Age(r)
        PROVE  A!Next
    <3>1. A!Age(r)
      BY <2>3 DEF Age, A!Age, At
    <3> QED BY <3>1 DEF A!Next
  <2>4. CASE UNCHANGED vars
    BY <2>4, DeskStutters DEF vars, AnswerOf, At
  <2> QED BY <1>2, <2>1, <2>2, <2>3, <2>4, RequestIsSubmit, RemoveIsTake, MarkIsGiveUp,
             LookingStutters DEF Next, WaitStep
<1> QED BY <1>1, <1>2, Invariance, PTL DEF Spec, DeskSpec, A!Spec
=============================================================================
