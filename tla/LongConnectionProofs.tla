------------------------ MODULE LongConnectionProofs ------------------------
(***************************************************************************)
(* Proofs about LongConnection for any messages, any ways to cut them, any *)
(* wire and any number of faults: what is handed on is whole and timely,   *)
(* and what is acknowledged was accepted.                                  *)
(***************************************************************************)
EXTENDS LongConnection, FiniteSetTheorems, TLAPS

(* The fragment of message m, cut into k, at place i. *)
Piece(m, k, i) == [msg |-> m, sum |-> k, seq |-> i]

(* Where each part of a message cut into k is missing or in its place. *)
Partial(p, m, k) ==
  /\ p \in [0..(k-1) -> Fragments \cup {None}]
  /\ \A i \in 0..(k-1): p[i] \in {None, Piece(m, k, i)}

(* The gateway only sends pieces of messages as they may be cut. *)
PiecesOnly ==
  /\ \A f \in toSend: f.sum \in CutsOf[f.msg]
  /\ \A i \in 1..Len(wire): wire[i].sum \in CutsOf[wire[i].msg]

PendingInPlace ==
  \A m \in Messages: pending[m] # None => \E k \in CutsOf[m]: Partial(pending[m], m, k)

(* There is an answer only to what is being handled, and it is not 200 if   *)
(* that is an event and was not accepted.                                   *)
AnswerJustified ==
  code # None => /\ current # None
                 /\ code = 200 /\ current.msg \in Events => current.msg \in taken

IInv == TypeOK /\ PiecesOnly /\ PendingInPlace /\ HandsOnWhole /\ AnswerJustified /\ AckedWasTaken

-----------------------------------------------------------------------------
(* A fragment is its fields. *)
LEMMA FragmentFields ==
  ASSUME NEW f
  PROVE  f \in Fragments <=> /\ f = Piece(f.msg, f.sum, f.seq)
                             /\ f.msg \in Messages /\ f.sum \in Cuts
                             /\ f.seq \in 0..(f.sum - 1)
<1>1. ASSUME f \in Fragments
      PROVE  /\ f = Piece(f.msg, f.sum, f.seq)
             /\ f.msg \in Messages /\ f.sum \in Cuts /\ f.seq \in 0..(f.sum - 1)
  <2>1. PICK k \in Cuts: f \in [msg: Messages, sum: {k}, seq: 0..(k-1)]
    BY <1>1 DEF Fragments
  <2> QED BY <2>1 DEF Piece
<1>2. ASSUME f = Piece(f.msg, f.sum, f.seq), f.msg \in Messages, f.sum \in Cuts,
             f.seq \in 0..(f.sum - 1)
      PROVE  f \in Fragments
  <2>1. f \in [msg: Messages, sum: {f.sum}, seq: 0..(f.sum - 1)]
    BY <1>2 DEF Piece
  <2> QED BY <1>2, <2>1 DEF Fragments
<1> QED BY <1>1, <1>2

(* Messages are cut into a positive number of fragments. *)
LEMMA CutsPositive ==
  /\ Cuts \subseteq Nat \ {0}
  /\ \A m \in Messages: CutsOf[m] \subseteq Cuts
BY ConstantsAssumption DEF Cuts

(* The pieces of a message, cut as it may be, are fragments. *)
LEMMA PieceIsFragment ==
  ASSUME NEW m \in Messages, NEW k \in CutsOf[m], NEW i \in 0..(k-1)
  PROVE  Piece(m, k, i) \in Fragments
BY FragmentFields, CutsPositive DEF Piece

(* The state the program starts in satisfies the invariant. *)
LEMMA InitIInv == Init => IInv
BY ConstantsAssumption
DEF Init, IInv, TypeOK, PiecesOnly, PendingInPlace, HandsOnWhole, AnswerJustified,
    AckedWasTaken, Nothing

-----------------------------------------------------------------------------
(* What push makes of a fragment: each part still missing or in its place. *)
LEMMA PartsInPlace ==
  ASSUME IInv, wire # <<>>, NEW f, f = Head(wire)
  PROVE  /\ f \in Fragments /\ f.msg \in Messages
         /\ f.sum \in CutsOf[f.msg] /\ f.sum \in Nat \ {0} /\ f.seq \in 0..(f.sum - 1)
         /\ Partial(Parts(f), f.msg, f.sum)
         /\ f.msg \in expired => \A i \in 0..(f.sum - 1): i # f.seq => Parts(f)[i] = None
<1>1. f \in Fragments /\ f.sum \in CutsOf[f.msg]
  BY DEF IInv, TypeOK, PiecesOnly
<1>2. /\ f = Piece(f.msg, f.sum, f.seq)
      /\ f.msg \in Messages /\ f.sum \in Nat \ {0} /\ f.seq \in 0..(f.sum - 1)
  BY <1>1, FragmentFields, CutsPositive
<1> DEFINE empty == [i \in 0..(f.sum - 1) |-> None]
<1>3. Partial(empty, f.msg, f.sum)
  BY DEF Partial
<1>4. Partial(Entry(f), f.msg, f.sum) /\ (f.msg \in expired => Entry(f) = empty)
  <2>1. CASE Kept(f.msg) = None \/ DOMAIN Kept(f.msg) # 0..(f.sum - 1)
    BY <1>3, <2>1 DEF Entry
  <2>2. CASE Kept(f.msg) # None /\ DOMAIN Kept(f.msg) = 0..(f.sum - 1)
    <3>1. Entry(f) = pending[f.msg] /\ pending[f.msg] # None /\ f.msg \notin expired
      BY <2>2 DEF Entry, Kept
    <3>2. PICK k \in CutsOf[f.msg]: Partial(pending[f.msg], f.msg, k)
      BY <1>2, <3>1 DEF IInv, PendingInPlace
    <3>3. k \in Nat \ {0} /\ 0..(k-1) = 0..(f.sum - 1)
      BY <1>2, <2>2, <3>1, <3>2, CutsPositive DEF Partial, Entry
    <3>4. k = f.sum
      <4>1. k - 1 \in 0..(f.sum - 1) /\ f.sum - 1 \in 0..(k - 1)
        BY <1>2, <3>3
      <4> QED BY <1>2, <3>3, <4>1
    <3> QED BY <3>1, <3>2, <3>4
  <2> QED BY <2>1, <2>2
<1>5. Partial(Parts(f), f.msg, f.sum)
  BY <1>1, <1>2, <1>4 DEF Parts, Partial
<1>6. f.msg \in expired => \A i \in 0..(f.sum - 1): i # f.seq => Parts(f)[i] = None
  BY <1>2, <1>4 DEF Parts
<1> QED BY <1>1, <1>2, <1>5, <1>6

(* When no part is missing, the payload is the whole message. *)
LEMMA CompleteIsWhole ==
  ASSUME NEW m \in Messages, NEW k \in CutsOf[m], NEW p, Partial(p, m, k), Complete(p)
  PROVE  p = Whole(m, k) /\ p \in Payloads
<1>1. k \in Cuts
  BY CutsPositive
<1>2. \A i \in 0..(k-1): p[i] = Piece(m, k, i)
  BY DEF Partial, Complete
<1>3. p = Whole(m, k)
  BY <1>2 DEF Partial, Whole, Piece
<1>4. p \in [0..(k-1) -> Fragments]
  BY <1>2, PieceIsFragment DEF Partial
<1> QED BY <1>1, <1>3, <1>4 DEF Payloads

(* A fragment of several is put in its place or completes its message.     *)
LEMMA ReceiveFragmentIInv ==
  ASSUME IInv, ReceiveFragment
  PROVE  IInv'
<1> DEFINE f == Head(wire)
           done == Complete(Parts(f))
<1>1. /\ wire # <<>> /\ current = None /\ code = None
      /\ pending' = [m \in Messages |-> IF m # f.msg THEN Kept(m)
                                        ELSE IF done THEN None ELSE Parts(f)]
      /\ current' = IF done THEN [msg |-> f.msg, payload |-> Parts(f)] ELSE None
      /\ expired' = {} /\ wire' = Tail(wire)
      /\ UNCHANGED <<toSend, acked, session, code, taken, faults>>
  BY DEF ReceiveFragment, IInv, AnswerJustified
<1>2. /\ f \in Fragments /\ f.msg \in Messages /\ f.sum \in CutsOf[f.msg]
      /\ Partial(Parts(f), f.msg, f.sum)
  BY <1>1, PartsInPlace
<1>3. done => Parts(f) = Whole(f.msg, f.sum) /\ Parts(f) \in Payloads
  BY <1>2, CompleteIsWhole
<1>4. Parts(f) \in PartLists
  BY <1>2, CutsPositive DEF Partial, PartLists
<1> HIDE DEF f, done
<1>5. TypeOK'
  <2>1. wire' \in Seq(Fragments) /\ Len(wire') <= MaxWire
    BY <1>1, ConstantsAssumption DEF IInv, TypeOK
  <2>2. pending' \in [Messages -> PartLists \cup {None}]
    BY <1>1, <1>4 DEF IInv, TypeOK, Kept
  <2>3. current' \in [msg: Messages, payload: Payloads] \cup {None}
    BY <1>1, <1>2, <1>3
  <2> QED BY <1>1, <2>1, <2>2, <2>3 DEF IInv, TypeOK
<1>6. PiecesOnly'
  BY <1>1 DEF IInv, TypeOK, PiecesOnly
<1>7. PendingInPlace'
  BY <1>1, <1>2 DEF IInv, PendingInPlace, Kept
<1>8. HandsOnWhole'
  BY <1>1, <1>2, <1>3 DEF HandsOnWhole
<1>9. AnswerJustified' /\ AckedWasTaken'
  BY <1>1 DEF IInv, AnswerJustified, AckedWasTaken
<1> QED BY <1>5, <1>6, <1>7, <1>8, <1>9 DEF IInv

(* A message in one fragment is whole as it comes. *)
LEMMA ReceiveWholeIInv ==
  ASSUME IInv, ReceiveWhole
  PROVE  IInv'
<1> DEFINE f == Head(wire)
           payload == [i \in {0} |-> f]
<1>1. /\ wire # <<>> /\ current = None /\ code = None /\ f.sum = 1
      /\ current' = [msg |-> f.msg, payload |-> payload] /\ wire' = Tail(wire)
      /\ UNCHANGED <<toSend, acked, session, pending, expired, code, taken, faults>>
  BY DEF ReceiveWhole, IInv, AnswerJustified
<1>2. /\ f \in Fragments /\ f.msg \in Messages /\ f.sum \in CutsOf[f.msg]
      /\ f.seq \in 0..(f.sum - 1)
  BY <1>1, PartsInPlace
<1>3. f = Piece(f.msg, 1, 0) /\ 1 \in Cuts /\ 0..(1-1) = {0}
  BY <1>1, <1>2, FragmentFields
<1>4. payload = Whole(f.msg, 1)
  BY <1>3 DEF Whole, Piece
<1>5. payload \in Payloads
  BY <1>2, <1>3 DEF Payloads
<1> HIDE DEF f, payload
<1>6. TypeOK'
  <2>1. wire' \in Seq(Fragments) /\ Len(wire') <= MaxWire
    BY <1>1, ConstantsAssumption DEF IInv, TypeOK
  <2> QED BY <1>1, <1>2, <1>5, <2>1 DEF IInv, TypeOK
<1>7. PiecesOnly' /\ PendingInPlace' /\ AnswerJustified' /\ AckedWasTaken'
  BY <1>1 DEF IInv, TypeOK, PiecesOnly, PendingInPlace, AnswerJustified, AckedWasTaken
<1>8. HandsOnWhole'
  BY <1>1, <1>2, <1>4 DEF HandsOnWhole
<1> QED BY <1>6, <1>7, <1>8 DEF IInv

(* The gateway pushes and sends pieces of messages. *)
LEMMA GatewayIInv ==
  ASSUME IInv, Gateway
  PROVE  IInv'
<1>1. UNCHANGED <<acked, session, pending, expired, current, code, taken, faults>>
  BY DEF Gateway, Push, Send
<1>2. ASSUME NEW m \in Messages, NEW k \in CutsOf[m], Push(m, k)
      PROVE  IInv'
  <2>1. ASSUME NEW f \in FragmentsOf(m, k)
        PROVE  f \in Fragments /\ f.sum \in CutsOf[f.msg]
    <3>1. PICK i \in 0..(k-1): f = Piece(m, k, i)
      BY DEF FragmentsOf, Piece
    <3> QED BY <3>1, PieceIsFragment DEF Piece
  <2>2. toSend' = toSend \cup FragmentsOf(m, k) /\ wire' = wire
    BY <1>2 DEF Push
  <2> QED BY <1>1, <2>1, <2>2
          DEF IInv, TypeOK, PiecesOnly, PendingInPlace, HandsOnWhole, AnswerJustified, AckedWasTaken
<1>3. ASSUME NEW f \in toSend, Send(f)
      PROVE  IInv'
  <2>1. toSend' = toSend \ {f} /\ wire' = Append(wire, f) /\ Len(wire) < MaxWire
    BY <1>3 DEF Send
  <2>2. /\ wire' \in Seq(Fragments) /\ Len(wire') <= MaxWire
        /\ \A i \in 1..Len(wire'): wire'[i].sum \in CutsOf[wire'[i].msg]
    BY <2>1, ConstantsAssumption DEF IInv, TypeOK, PiecesOnly
  <2> QED BY <1>1, <2>1, <2>2
          DEF IInv, TypeOK, PiecesOnly, PendingInPlace, HandsOnWhole, AnswerJustified, AckedWasTaken
<1> QED BY <1>2, <1>3 DEF Gateway

(* A session that ends leaves nothing behind. *)
LEMMA EndSessionIInv ==
  ASSUME IInv, EndSession, Fault, UNCHANGED <<acked, taken>>
  PROVE  IInv'
BY ConstantsAssumption
DEF EndSession, Fault, Nothing, IInv, TypeOK, PiecesOnly, PendingInPlace, HandsOnWhole,
    AnswerJustified, AckedWasTaken

(* Connecting or not, and the passing of time. *)
LEMMA ConnectionIInv ==
  ASSUME IInv, Connect \/ ConnectFails \/ Refused \/ \E m \in Messages: Expire(m)
  PROVE  IInv'
<1>1. UNCHANGED <<toSend, acked, wire, pending, current, code, taken>>
  BY DEF Connect, ConnectFails, Refused, Expire
<1>2. TypeOK'
  BY <1>1, ConstantsAssumption DEF Connect, ConnectFails, Refused, Expire, Fault, IInv, TypeOK
<1> QED BY <1>1, <1>2
        DEF IInv, PiecesOnly, PendingInPlace, HandsOnWhole, AnswerJustified, AckedWasTaken

(* Dispatching and answering. *)
LEMMA HandlingIInv ==
  ASSUME IInv, Dispatch \/ DispatchFails \/ Answer
  PROVE  IInv'
<1>1. UNCHANGED <<toSend, wire, session, pending, expired>>
  BY DEF Dispatch, DispatchFails, Answer
<1>2. TypeOK' /\ PiecesOnly' /\ PendingInPlace'
  BY <1>1, ConstantsAssumption
  DEF Dispatch, DispatchFails, Answer, Fault, IInv, TypeOK, PiecesOnly, PendingInPlace, AnswerJustified
<1>3. HandsOnWhole'
  BY DEF Dispatch, DispatchFails, Answer, IInv, HandsOnWhole
<1>4. AnswerJustified' /\ AckedWasTaken'
  BY ConstantsAssumption DEF Dispatch, DispatchFails, Answer, IInv, TypeOK, AnswerJustified, AckedWasTaken
<1> QED BY <1>2, <1>3, <1>4 DEF IInv

(* Every step keeps the invariant. *)
LEMMA NextIInv ==
  ASSUME IInv, [Next]_vars
  PROVE  IInv'
<1>1. CASE UNCHANGED vars
  BY <1>1 DEF vars, IInv, TypeOK, PiecesOnly, PendingInPlace, HandsOnWhole, AnswerJustified, AckedWasTaken
<1>2. CASE Break \/ AnswerFails \/ Restart
  BY <1>2, EndSessionIInv DEF Break, AnswerFails, Restart
<1> QED BY <1>1, <1>2, GatewayIInv, ConnectionIInv, HandlingIInv, ReceiveFragmentIInv,
           ReceiveWholeIInv DEF Next, Service

(* The inductive invariant holds throughout. *)
THEOREM Invariance == Spec => []IInv
BY InitIInv, NextIInv, PTL DEF Spec

(* Every variable always holds a value of its kind. *)
THEOREM TypeCorrect == Spec => []TypeOK
BY Invariance, PTL DEF IInv

(* What is handed to dispatch is always one push of one message, whole. *)
THEOREM AlwaysWhole == Spec => []HandsOnWhole
BY Invariance, PTL DEF IInv

(* An acknowledged event was always accepted by dispatch. *)
THEOREM NeverAckedUntaken == Spec => []AckedWasTaken
BY Invariance, PTL DEF IInv

(* No payload of several fragments contains an expired one. *)
THEOREM NeverAssembledLate == Spec => AssembledInTime
<1> DEFINE Timely == \A m \in expired: (current = None /\ current' # None /\ current'.msg = m)
                                         => Cardinality(DOMAIN current'.payload) = 1
<1>1. ASSUME IInv, [Next]_vars
      PROVE  [Timely]_vars
  <2>1. CASE ReceiveWhole
    <3>1. current' # None => current'.payload = [i \in {0} |-> Head(wire)]
      BY <2>1 DEF ReceiveWhole
    <3> QED BY <3>1, FS_Singleton
  <2>2. CASE ReceiveFragment
    <3> DEFINE f == Head(wire)
    <3>1. wire # <<>> /\ f.sum > 1
      BY <2>2 DEF ReceiveFragment
    <3>2. ASSUME f.msg \in expired PROVE ~ Complete(Parts(f))
      <4>1. /\ f.sum \in Nat /\ f.seq \in 0..(f.sum - 1)
            /\ DOMAIN Parts(f) = 0..(f.sum - 1)
            /\ \A i \in 0..(f.sum - 1): i # f.seq => Parts(f)[i] = None
        BY <1>1, <3>1, <3>2, PartsInPlace DEF Partial
      <4>2. \E i \in 0..(f.sum - 1): i # f.seq
        <5>1. 0 \in 0..(f.sum - 1) /\ 1 \in 0..(f.sum - 1)
          BY <3>1, <4>1
        <5> QED BY <5>1
      <4> QED BY <4>1, <4>2 DEF Complete
    <3>3. current' = IF Complete(Parts(f)) THEN [msg |-> f.msg, payload |-> Parts(f)] ELSE None
      BY <2>2 DEF ReceiveFragment
    <3> QED BY <3>2, <3>3
  <2>3. CASE current' = current \/ current' = None \/ current # None
    BY <2>3
  <2>4. \/ ReceiveWhole \/ ReceiveFragment
        \/ current' = current \/ current' = None \/ current # None
    BY <1>1 DEF Next, Gateway, Service, Push, Send, Connect, ConnectFails, Refused, Break,
                EndSession, Dispatch, DispatchFails, Answer, AnswerFails, Restart, Expire, vars
  <2> QED BY <2>1, <2>2, <2>3, <2>4
<1> QED BY <1>1, Invariance, PTL DEF Spec, AssembledInTime
-----------------------------------------------------------------------------
(* What the steps that do not handle a payload leave to the mailbox.        *)
LEMMA MailboxStutters ==
  ASSUME UNCHANGED <<current, code, taken, acked>>
  PROVE  UNCHANGED M!mailboxVars
BY DEF M!mailboxVars, Verdict

(* A payload that is put together, or comes whole, is a copy put on the     *)
(* empty desk.                                                              *)
LEMMA ReceiveArrives ==
  ASSUME IInv, IInv', ReceiveFragment \/ ReceiveWhole
  PROVE  [M!Next]_(M!mailboxVars)
<1>1. current = None /\ UNCHANGED <<code, taken, acked>>
  BY DEF ReceiveFragment, ReceiveWhole
<1>2. CASE current' = None
  BY <1>1, <1>2, MailboxStutters
<1>3. CASE current' # None
  <2>1. /\ current'.msg \in Messages
        /\ current' = [msg |-> current'.msg, payload |-> current'.payload]
    BY <1>3 DEF IInv, TypeOK
  <2>2. \E k \in CutsOf[current'.msg]: current'.payload = Whole(current'.msg, k)
    BY <1>3 DEF IInv, HandsOnWhole
  <2>3. M!Arrive(current'.msg)
    BY <1>1, <2>1, <2>2 DEF M!Arrive, Verdict
  <2> QED BY <2>1, <2>3 DEF M!Next
<1> QED BY <1>2, <1>3

(* Dispatching accepts or refuses what lies on the desk.                    *)
LEMMA DispatchDecides ==
  ASSUME IInv, Dispatch \/ DispatchFails
  PROVE  M!Accept \/ M!Refuse
<1>1. /\ current # None /\ current' = current /\ acked' = acked
      /\ code = None /\ None \notin {200, 400, 500}
  BY ConstantsAssumption DEF Dispatch, DispatchFails
<1>2. CASE DispatchFails \/ current.msg \in Untyped
  BY <1>1, <1>2 DEF Dispatch, DispatchFails, M!Refuse, Verdict
<1>3. CASE Dispatch /\ current.msg \notin Untyped
  <2>1. code' = 200 /\ taken' = taken \cup ({current.msg} \cap Events)
    BY <1>3 DEF Dispatch
  <2> QED BY <1>1, <2>1 DEF M!Accept, Verdict
<1> QED BY <1>2, <1>3

(* An answer with 200 acknowledges what was accepted; any other, and any    *)
(* end of the session, abandons what lies on the desk.                      *)
LEMMA AnswerSettles ==
  ASSUME IInv, Answer
  PROVE  M!Acknowledge \/ M!Abandon
<1>1. current # None /\ current' = None /\ code' = None /\ taken' = taken
  BY DEF Answer, IInv, AnswerJustified
<1>2. CASE code = 200
  BY <1>1, <1>2, ConstantsAssumption DEF Answer, M!Acknowledge, M!Clear, Verdict
<1>3. CASE code # 200
  BY <1>1, <1>3 DEF Answer, M!Abandon, M!Clear, Verdict
<1> QED BY <1>2, <1>3

(* A session that ends abandons what lies on the desk.                      *)
LEMMA EndSessionAbandons ==
  ASSUME IInv, EndSession, UNCHANGED <<acked, taken>>
  PROVE  [M!Next]_(M!mailboxVars)
<1>1. current' = None /\ code' = None
  BY DEF EndSession
<1>2. CASE current # None
  BY <1>1, <1>2 DEF M!Abandon, M!Clear, M!Next, Verdict
<1>3. CASE current = None
  BY <1>1, <1>3, MailboxStutters DEF IInv, AnswerJustified
<1> QED BY <1>2, <1>3

(* The connection implements the mailbox: every step puts a whole copy on   *)
(* the empty desk, decides on it, acknowledges the one accepted, abandons   *)
(* it, or is not seen.                                                      *)
THEOREM ImplementsMailbox == Spec => MailboxSpec
<1>1. Init => M!Init
  BY DEF Init, M!Init, Verdict
<1>2. ASSUME IInv, IInv', [Next]_vars
      PROVE  [M!Next]_(M!mailboxVars)
  <2>1. CASE ReceiveFragment \/ ReceiveWhole
    BY <1>2, <2>1, ReceiveArrives
  <2>2. CASE Dispatch \/ DispatchFails
    BY <1>2, <2>2, DispatchDecides DEF M!Next
  <2>3. CASE Answer
    BY <1>2, <2>3, AnswerSettles DEF M!Next
  <2>4. CASE Break \/ AnswerFails \/ Restart
    BY <1>2, <2>4, EndSessionAbandons DEF Break, AnswerFails, Restart
  <2>5. CASE \/ Gateway \/ Connect \/ ConnectFails \/ Refused
             \/ (\E m \in Messages: Expire(m)) \/ UNCHANGED vars
    <3>1. UNCHANGED <<current, code, taken, acked>>
      BY <2>5 DEF Gateway, Push, Send, Connect, ConnectFails, Refused, Expire, vars
    <3> QED BY <3>1, MailboxStutters
  <2> QED BY <1>2, <2>1, <2>2, <2>3, <2>4, <2>5 DEF Next, Service
<1> QED BY <1>1, <1>2, Invariance, PTL DEF Spec, MailboxSpec, M!Spec
=============================================================================
