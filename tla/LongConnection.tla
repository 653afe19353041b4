--------------------------- MODULE LongConnection ---------------------------
(***************************************************************************)
(* The long connection to Feishu: the service resolves an endpoint, opens  *)
(* a websocket and reads it in one loop, which puts the fragments of a     *)
(* message together, hands the whole payload to dispatch_event_payload and *)
(* answers with the result.  Whatever ends the session, the service waits  *)
(* and opens another one, unless the endpoint refuses it for good.         *)
(*                                                                         *)
(* Feishu's gateway is the environment.  It pushes a message again until   *)
(* it has been answered with 200, each time in fragments of its choice, of *)
(* which those of different messages may interleave.  The keepalive pings  *)
(* only matter here when sending one fails, which ends the session.        *)
(***************************************************************************)
EXTENDS Naturals, Sequences, FiniteSets

CONSTANTS Messages,   \* message_id of what the gateway pushes
          Events,     \* messages of the type "event"
          Untyped,    \* events without an event_type
          CutsOf,     \* message -> the numbers of fragments it may be cut into
          MaxWire,    \* bound: frames sent and not yet read
          MaxFaults,  \* bound: failures, and expiries of fragments
          None

ASSUME ConstantsAssumption ==
  /\ Untyped \subseteq Events /\ Events \subseteq Messages
  /\ CutsOf \in [Messages -> SUBSET (Nat \ {0})]
  /\ MaxWire \in Nat \ {0} /\ MaxFaults \in Nat
  /\ None \notin {200, 400, 500}

VARIABLES toSend,   \* gateway: fragments of the current pushes not yet sent
          acked,    \* gateway: messages answered with 200
          wire,     \* frames sent on the socket and not yet read
          session,  \* start_long_connection: between, in, or out of sessions
          pending,  \* LongConnectionPayloadReassembler: parts by message
          expired,  \* the pending messages whose created_at is older than the ttl
          current,  \* the payload being handled by the loop, None while it reads
          code,     \* response_code once the payload is dispatched, else None
          taken,    \* history: events dispatch_event_payload accepted
          faults

vars == <<toSend, acked, wire, session, pending, expired, current, code, taken, faults>>

(* A fragment is known by its message, the number of fragments ("sum") the *)
(* message was cut into, and its place among them ("seq").                 *)
Cuts == UNION {CutsOf[m]: m \in Messages}

Fragments == UNION {[msg: Messages, sum: {k}, seq: 0..(k-1)]: k \in Cuts}

Whole(m, k) == [i \in 0..(k-1) |-> [msg |-> m, sum |-> k, seq |-> i]]

FragmentsOf(m, k) == [msg: {m}, sum: {k}, seq: 0..(k-1)]

PartLists == UNION {[0..(k-1) -> Fragments \cup {None}]: k \in Cuts}

Payloads == UNION {[0..(k-1) -> Fragments]: k \in Cuts}

(* Every variable holds a value of its kind. *)
TypeOK ==
  /\ toSend \subseteq Fragments
  /\ acked \subseteq Messages /\ taken \subseteq Events
  /\ wire \in Seq(Fragments) /\ Len(wire) <= MaxWire
  /\ session \in {"down", "up", "halted"}
  /\ pending \in [Messages -> PartLists \cup {None}]
  /\ expired \subseteq {m \in Messages: pending[m] # None}
  /\ current \in [msg: Messages, payload: Payloads] \cup {None}
  /\ code \in {200, 400, 500, None}
  /\ faults \in 0..MaxFaults

Nothing == [m \in Messages |-> None]

Init ==
  /\ toSend = {} /\ acked = {} /\ wire = <<>>
  /\ session = "down"
  /\ pending = Nothing /\ expired = {}
  /\ current = None /\ code = None
  /\ taken = {} /\ faults = 0

-----------------------------------------------------------------------------
Fault == faults < MaxFaults /\ faults' = faults + 1

(* A session owns its socket and its reassembler. *)
EndSession ==
  /\ session' = "down"
  /\ toSend' = {} /\ wire' = <<>>
  /\ pending' = Nothing /\ expired' = {}
  /\ current' = None /\ code' = None

(* Gateway: a message that is not acknowledged is pushed, again and again. *)
Push(m, k) ==
  /\ session = "up"
  /\ m \notin acked
  /\ \A f \in toSend: f.msg # m
  /\ toSend' = toSend \cup FragmentsOf(m, k)
  /\ UNCHANGED <<acked, wire, session, pending, expired, current, code, taken, faults>>

Send(f) ==
  /\ f \in toSend
  /\ Len(wire) < MaxWire
  /\ toSend' = toSend \ {f}
  /\ wire' = Append(wire, f)
  /\ UNCHANGED <<acked, session, pending, expired, current, code, taken, faults>>

-----------------------------------------------------------------------------
(* fetch_long_connection_endpoint and connect_async succeed. *)
Connect ==
  /\ session = "down"
  /\ session' = "up"
  /\ UNCHANGED <<toSend, acked, wire, pending, expired, current, code, taken, faults>>

(* Either of them fails in a way that may pass, and is retried. *)
ConnectFails ==
  /\ session = "down" /\ Fault
  /\ UNCHANGED <<toSend, acked, wire, session, pending, expired, current, code, taken>>

(* The endpoint answers with a client error, or a code that is not known    *)
(* to pass: start_long_connection returns, and nothing starts it again.     *)
Refused ==
  /\ session = "down" /\ Fault
  /\ session' = "halted"
  /\ UNCHANGED <<toSend, acked, wire, pending, expired, current, code, taken>>

(* At the select! of the loop: the socket is closed, reading fails, a frame *)
(* cannot be decoded, or a ping or a pong cannot be sent.                   *)
Break ==
  /\ session = "up" /\ current = None /\ Fault
  /\ EndSession
  /\ UNCHANGED <<acked, taken>>

-----------------------------------------------------------------------------
(* push: expired entries are dropped first; an entry that was cut           *)
(* differently is started anew; the fragment is put in its place.           *)
Kept_Forever(m) == pending[m]  \* mutant: cleanup_expired is not called

Kept(m) == IF m \in expired THEN None ELSE pending[m]

Entry_AnyCut(f) ==  \* mutant: parts of another cut are kept
  IF Kept(f.msg) = None THEN [i \in 0..(f.sum - 1) |-> None] ELSE Kept(f.msg)

Entry_Long(f) ==  \* mutant: one part too many, on an entry started anew
  IF Kept(f.msg) = None \/ DOMAIN Kept(f.msg) # 0..(f.sum - 1)
  THEN [i \in 0..f.sum |-> None]
  ELSE Kept(f.msg)

Entry(f) ==
  IF Kept(f.msg) = None \/ DOMAIN Kept(f.msg) # 0..(f.sum - 1)
  THEN [i \in 0..(f.sum - 1) |-> None]
  ELSE Kept(f.msg)

Parts(f) == [Entry(f) EXCEPT ![f.seq] = f]

Complete(parts) == \A i \in DOMAIN parts: parts[i] # None

(* A fragment of several is put to the others; when none is missing, they   *)
(* are taken out and become the payload.                                    *)
ReceiveFragment ==
  /\ session = "up" /\ current = None
  /\ wire # <<>>
  /\ LET f == Head(wire)
         done == Complete(Parts(f))
     IN /\ f.sum > 1
        /\ pending' = [m \in Messages |-> IF m # f.msg THEN Kept(m)
                                          ELSE IF done THEN None ELSE Parts(f)]
        /\ current' = IF done THEN [msg |-> f.msg, payload |-> Parts(f)] ELSE None
  /\ expired' = {}
  /\ wire' = Tail(wire)
  /\ UNCHANGED <<toSend, acked, session, code, taken, faults>>

(* A message in one fragment does not pass through the reassembler. *)
ReceiveWhole ==
  /\ session = "up" /\ current = None
  /\ wire # <<>>
  /\ LET f == Head(wire)
     IN /\ f.sum = 1
        /\ current' = [msg |-> f.msg, payload |-> [i \in {0} |-> f]]
  /\ wire' = Tail(wire)
  /\ UNCHANGED <<toSend, acked, session, pending, expired, code, taken, faults>>

(* Time passes: the fragments of m are older than the ttl. *)
Expire(m) ==
  /\ session = "up" /\ Fault
  /\ pending[m] # None /\ m \notin expired
  /\ expired' = expired \cup {m}
  /\ UNCHANGED <<toSend, acked, wire, session, pending, current, code, taken>>

-----------------------------------------------------------------------------
(* The payload is whole.  What is not an event is only logged; an event is  *)
(* handed to dispatch_event_payload, whose result decides the answer.       *)
Dispatch ==
  /\ current # None /\ code = None
  /\ code' = IF current.msg \in Untyped THEN 400 ELSE 200
  /\ taken' = IF current.msg \in Events \ Untyped THEN taken \cup {current.msg} ELSE taken
  /\ UNCHANGED <<toSend, acked, wire, session, pending, expired, current, faults>>

DispatchFails_Acknowledged ==  \* mutant: the error is logged and the answer stays 200
  /\ current # None /\ code = None /\ Fault
  /\ current.msg \in Events
  /\ code' = 200
  /\ UNCHANGED <<toSend, acked, wire, session, pending, expired, current, taken>>

(* dispatch_event_payload fails: the query of processed_events does. *)
DispatchFails ==
  /\ current # None /\ code = None /\ Fault
  /\ current.msg \in Events
  /\ code' = 500
  /\ UNCHANGED <<toSend, acked, wire, session, pending, expired, current, taken>>

Answer_AnyCode ==  \* mutant: the answer is the frame as received, without the code
  /\ code # None
  /\ acked' = acked \cup {current.msg}
  /\ current' = None /\ code' = None
  /\ UNCHANGED <<toSend, wire, session, pending, expired, taken, faults>>

(* The answer carries the last fragment's headers and reaches the gateway. *)
Answer ==
  /\ code # None
  /\ acked' = IF code = 200 THEN acked \cup {current.msg} ELSE acked
  /\ current' = None /\ code' = None
  /\ UNCHANGED <<toSend, wire, session, pending, expired, taken, faults>>

(* The answer cannot be sent, or is lost with its session. *)
AnswerFails ==
  /\ code # None /\ Fault
  /\ EndSession
  /\ UNCHANGED <<acked, taken>>

(* The process stops, wherever it is, and starts again. *)
Restart ==
  /\ Fault
  /\ EndSession
  /\ UNCHANGED <<acked, taken>>

-----------------------------------------------------------------------------
Gateway ==
  \/ \E m \in Messages: \E k \in CutsOf[m]: Push(m, k)
  \/ \E f \in toSend: Send(f)

Service ==
  \/ Connect \/ ConnectFails \/ Refused \/ Break \/ Restart
  \/ ReceiveFragment \/ ReceiveWhole
  \/ Dispatch \/ DispatchFails \/ Answer \/ AnswerFails

Next == Gateway \/ Service \/ \E m \in Messages: Expire(m)

Spec == Init /\ [][Next]_vars

(* The loop goes on reading, dispatching and answering, a new session is    *)
(* opened after the interval, and the gateway goes on pushing and sending.  *)
Fairness ==
  /\ WF_vars(Connect) /\ WF_vars(ReceiveFragment) /\ WF_vars(ReceiveWhole)
  /\ WF_vars(Dispatch) /\ WF_vars(Answer)
  /\ \A m \in Messages: WF_vars(\E k \in CutsOf[m]: Push(m, k))
  /\ \A m \in Messages: SF_vars(\E f \in toSend: f.msg = m /\ Send(f))

FairSpec == Spec /\ Fairness

-----------------------------------------------------------------------------
(* What the loop hands on is one push of one message, whole and in order,   *)
(* whatever fragments expired, were sent again or cut differently before    *)
(* (push of LongConnectionPayloadReassembler).                              *)
HandsOnWhole ==
  current # None => \E k \in CutsOf[current.msg]: current.payload = Whole(current.msg, k)

(* An event the gateway will not push again was accepted by dispatch: a     *)
(* failure of the query, of a fragment or of the session never acknowledges *)
(* it (handle_long_connection_data_frame and its caller).                   *)
AckedWasTaken == acked \cap Events \subseteq taken

Verdict == IF code = None THEN "open" ELSE IF code = 200 THEN "accepted" ELSE "refused"

M == INSTANCE Mailbox WITH
       CopiesOf <- [m \in Messages |-> {Whole(m, k): k \in CutsOf[m]}],
       desk <- current,
       verdict <- Verdict

(* With its fragments, expiries and broken sessions the connection is a     *)
(* mailbox: one whole message after the other is handed to dispatch, and    *)
(* the one that is acknowledged is the one that was accepted just before,   *)
(* never another copy or another message.                                   *)
MailboxSpec == M!Spec

(* Fragments that waited longer than the ttl are not part of a payload: it  *)
(* is assembled while its first fragment is still fresh (cleanup_expired).  *)
AssembledInTime ==
  [][\A m \in expired: (current = None /\ current' # None /\ current'.msg = m)
                         => Cardinality(DOMAIN current'.payload) = 1]_vars

(* Once faults cease, every well-formed event is accepted, unless Feishu    *)
(* refused the connection for good: no left-over fragment, and no failed    *)
(* session, keeps a message out for ever.                                   *)
EveryEventTaken ==
  \A m \in Events \ Untyped: <>(m \in taken \/ session = "halted")
=============================================================================
