------------------------ MODULE FeishuDeliveryProofs ------------------------
(***************************************************************************)
(* Proofs about FeishuDelivery for any events, messages, chats, tasks and  *)
(* operators, and any bounds.                                              *)
(***************************************************************************)
EXTENDS FeishuDelivery, FiniteSetTheorems, TLAPS

Active(w) == work[w] # None /\ ~ At(w, "queued")

(* Worker "w" is at step "pc" with message "m". *)
On(w, pc, m) == At(w, pc) /\ m \in About(Event(w))

(* What a worker relies on at each of its steps. *)
Entitled(w) ==
  /\ delivered[Event(w)] > 0
  /\ work[w].row => letter[Key(Event(w))] # None
  /\ work[w].pc \in {"post", "record"} => Event(w) \notin Recalls \cup Notices
  /\ work[w].pc \in {"redact", "unmap"} => Event(w) \in Recalls
  /\ work[w].pc \in {"record", "redact", "unmap"} => work[w].post \in 1..posts[Message(w)]
  /\ work[w].pc = "succeeded" /\ Event(w) \notin Recalls \cup Notices /\ Message(w) \in Text
       => posts[Message(w)] > 0

WorkInv == \A w \in Workers: work[w] # None => Entitled(w)

(* A task that runs holds its chat's lock. *)
LockInv == \A s \in Slots: Active(s) => lock[Chat(s)] = s

(* An event of this key was delivered and is closed. *)
KeyClosed(k) == \E e \in closed: Key(e) = k /\ delivered[e] > 0

LetterInv(k) ==
  /\ letter[k] # None => Key(letter[k].event) = k /\ delivered[letter[k].event] > 0
  /\ letter[k] # None /\ letter[k].status = "replayed" => KeyClosed(k)
  /\ k \in doomed => KeyClosed(k)

LettersInv == processed \subseteq closed /\ \A k \in Keys: LetterInv(k)

(* Nobody else is at a message that is not excused. *)
OneActive ==
  \A m \in Messages \ excused: \A v, w \in Workers:
    Active(v) /\ Active(w) /\ m \in About(Event(v)) /\ m \in About(Event(w)) => v = w

(* Every post of a message is redacted, or mapped, or about to be mapped;  *)
(* and what the handlers found when they looked the mapping up still holds.*)
Careful(m) ==
  /\ \A n \in 1..posts[m]:
       <<m, n>> \in redacted \/ n = mapping[m] \/ \E w \in Workers: On(w, "record", m) /\ work[w].post = n
  /\ m \notin recalled => posts[m] <= 1
  /\ m \notin recalled /\ posts[m] > 0 => mapping[m] # 0 \/ \E w \in Workers: On(w, "record", m)
  /\ \A w \in Workers:
       /\ On(w, "post", m) \/ On(w, "record", m) => mapping[m] = 0
       /\ On(w, "post", m) /\ m \notin recalled => posts[m] = 0
       /\ On(w, "redact", m) \/ On(w, "unmap", m) => mapping[m] = work[w].post
       /\ On(w, "unmap", m) => <<m, work[w].post>> \in redacted

(* The same, when a single handler is at the message, at step "pc". *)
Fine(m, pc, n) ==
  /\ \A k \in 1..posts[m]: <<m, k>> \in redacted \/ k = mapping[m] \/ (pc = "record" /\ k = n)
  /\ m \notin recalled => posts[m] <= 1
  /\ m \notin recalled /\ posts[m] > 0 => mapping[m] # 0 \/ pc = "record"
  /\ pc \in {"post", "record"} => mapping[m] = 0
  /\ pc = "post" /\ m \notin recalled => posts[m] = 0
  /\ pc \in {"redact", "unmap"} => mapping[m] = n
  /\ pc = "unmap" => <<m, n>> \in redacted

MessageInv == \A m \in Messages: mapping[m] <= posts[m] /\ (m \notin excused => Careful(m))

IInv ==
  /\ TypeOK /\ WorkInv /\ LockInv /\ LettersInv /\ OneActive /\ MessageInv
  /\ StillReplayable /\ SettledWasPosted

-----------------------------------------------------------------------------
(* Moving one worker on leaves the others and its own event alone. *)
LEMMA GotoFacts ==
  ASSUME TypeOK, NEW w \in Workers, work[w] # None, NEW pc \in Steps, NEW n \in 0..MaxPosts,
         Goto(w, pc, n)
  PROVE  /\ work' \in [Workers -> Work \cup {None}]
         /\ work'[w] # None /\ work'[w].pc = pc /\ work'[w].post = n
         /\ work'[w].event = work[w].event /\ work'[w].row = work[w].row
         /\ \A v \in Workers \ {w}: work'[v] = work[v]
<1> DEFINE u == [work[w] EXCEPT !.pc = pc, !.post = n]
<1>1. work[w] \in Work
  BY DEF TypeOK
<1>2. u \in Work /\ u.pc = pc /\ u.post = n /\ u.event = work[w].event /\ u.row = work[w].row
  BY <1>1 DEF Work
<1>3. u # None
  BY <1>2, NoneAssumption
<1>4. work' = [work EXCEPT ![w] = u]
  BY DEF Goto
<1> HIDE DEF u
<1> QED BY <1>2, <1>3, <1>4 DEF TypeOK

(* Two events share a dedupe key only if they are twins. *)
LEMMA KeyTwins ==
  ASSUME NEW e \in Events, NEW f \in Events, e # f, Key(e) = Key(f)
  PROVE  /\ f \in Twins(e) /\ SubjectOf[e] = SubjectOf[f]
BY ConstantsAssumption DEF Key, Twins

(* The state the program starts in satisfies the invariant. *)
LEMMA InitIInv == Init => IInv
<1> SUFFICES ASSUME Init PROVE IInv
  OBVIOUS
<1>1. TypeOK
  BY ConstantsAssumption DEF Init, TypeOK, Keys
<1>2. WorkInv /\ LockInv /\ OneActive
  BY DEF Init, WorkInv, LockInv, OneActive, Active, Workers
<1>3. LettersInv /\ StillReplayable
  BY DEF Init, LettersInv, LetterInv, StillReplayable
<1>4. SettledWasPosted
  <2>1. processed = {} /\ \A k \in Keys: letter[k] = None
    BY DEF Init
  <2>2. \A e \in Events: [event |-> e, status |-> "replayed"] # None
    BY NoneAssumption DEF Row
  <2> QED BY <2>1, <2>2 DEF SettledWasPosted
<1>5. MessageInv
  BY DEF Init, MessageInv, Careful, On, At
<1> QED BY <1>1, <1>2, <1>3, <1>4, <1>5 DEF IInv

-----------------------------------------------------------------------------
(* A worker that a step leaves alone may go on, as long as posts and       *)
(* deliveries only grow and the row it was begun for is not taken away.    *)
LEMMA StillEntitled ==
  ASSUME TypeOK, TypeOK', NEW v \in Workers, work[v] # None, Entitled(v),
         work'[v].event = work[v].event, work'[v].pc = work[v].pc, work'[v].post = work[v].post,
         work'[v].row => work[v].row /\ letter'[Key(Event(v))] # None,
         \A e \in Events: delivered[e] <= delivered'[e],
         \A m \in Messages: posts[m] <= posts'[m]
  PROVE  Entitled(v)'
<1>1. work[v] \in Work /\ Event(v) \in Events /\ Event(v)' = Event(v)
  BY DEF TypeOK, Work, Event
<1>2. Event(v) \notin Notices => Message(v) \in Messages /\ Message(v)' = Message(v)
  BY <1>1, ConstantsAssumption DEF Message, Event
<1>3. delivered \in [Events -> Nat] /\ delivered' \in [Events -> Nat]
      /\ posts \in [Messages -> Nat] /\ posts' \in [Messages -> Nat]
  BY ConstantsAssumption DEF TypeOK
<1>4. Recalls \cap Notices = {}
  BY ConstantsAssumption
<1>5. delivered'[Event(v)] > 0
  BY <1>1, <1>3 DEF Entitled
<1>6. CASE Event(v) \in Notices
  BY <1>1, <1>4, <1>5, <1>6 DEF Entitled
<1>7. CASE Event(v) \notin Notices
  BY <1>1, <1>2, <1>3, <1>5, <1>7 DEF Entitled
<1> QED BY <1>6, <1>7

(* What closed a key stays. *)
LEMMA KeyStaysClosed ==
  ASSUME TypeOK, TypeOK', NEW k, KeyClosed(k), closed \subseteq closed',
         \A e \in Events: delivered[e] <= delivered'[e]
  PROVE  KeyClosed(k)'
<1>1. PICK e \in closed: Key(e) = k /\ delivered[e] > 0
  BY DEF KeyClosed
<1>2. e \in Events /\ e \in closed' /\ delivered[e] \in Nat /\ delivered'[e] \in Nat
  BY ConstantsAssumption DEF TypeOK
<1>3. delivered'[e] > 0
  BY <1>1, <1>2
<1> QED BY <1>1, <1>2, <1>3 DEF KeyClosed

(* A message nobody touches stays as it is. *)
LEMMA CarefulAside ==
  ASSUME NEW m \in Messages, Careful(m),
         posts'[m] = posts[m], mapping'[m] = mapping[m], m \in recalled' <=> m \in recalled,
         \A n \in 1..posts[m]: <<m, n>> \in redacted => <<m, n>> \in redacted',
         \A w \in Workers: \A pc \in {"post", "record", "redact", "unmap"}:
           On(w, pc, m)' => On(w, pc, m) /\ work'[w].post = work[w].post,
         \A w \in Workers: On(w, "unmap", m) => work[w].post \in 1..posts[m],
         \A w \in Workers: On(w, "record", m) => On(w, "record", m)' /\ work'[w].post = work[w].post
  PROVE  Careful(m)'
<1>1. \A n \in 1..posts'[m]:
        \/ <<m, n>> \in redacted' \/ n = mapping'[m]
        \/ \E w \in Workers: On(w, "record", m)' /\ work'[w].post = n
  <2> SUFFICES ASSUME NEW n \in 1..posts[m]
               PROVE  \/ <<m, n>> \in redacted' \/ n = mapping'[m]
                      \/ \E w \in Workers: On(w, "record", m)' /\ work'[w].post = n
    OBVIOUS
  <2>1. CASE <<m, n>> \in redacted \/ n = mapping[m]
    BY <2>1
  <2>2. CASE \E w \in Workers: On(w, "record", m) /\ work[w].post = n
    BY <2>2
  <2> QED BY <2>1, <2>2 DEF Careful
<1>2. m \notin recalled' => posts'[m] <= 1
  BY DEF Careful
<1>3. m \notin recalled' /\ posts'[m] > 0 => mapping'[m] # 0 \/ \E w \in Workers: On(w, "record", m)'
  BY DEF Careful
<1>4. ASSUME NEW w \in Workers
      PROVE  /\ On(w, "post", m)' \/ On(w, "record", m)' => mapping'[m] = 0
             /\ On(w, "post", m)' /\ m \notin recalled' => posts'[m] = 0
             /\ On(w, "redact", m)' \/ On(w, "unmap", m)' => mapping'[m] = work'[w].post
             /\ On(w, "unmap", m)' => <<m, work'[w].post>> \in redacted'
  <2>1. \A pc \in {"post", "record", "redact", "unmap"}:
          On(w, pc, m)' => On(w, pc, m) /\ work'[w].post = work[w].post
    BY <1>4
  <2>2. On(w, "unmap", m) => <<m, work[w].post>> \in redacted'
    BY <1>4 DEF Careful
  <2> QED BY <2>1, <2>2, <1>4 DEF Careful
<1> QED BY <1>1, <1>2, <1>3, <1>4 DEF Careful

(* A step of a handler keeps the invariant if it treats its message well   *)
(* and the handler is entitled to its next step.                           *)
LEMMA HandlerIInv ==
  ASSUME IInv, NEW w \in Workers, Active(w), NEW pc \in Steps \ {"queued"},
         NEW n \in 0..MaxPosts, Goto(w, pc, n),
         UNCHANGED <<delivered, lock, processed, Letters, closed>>,
         posts' \in [Messages -> 0..MaxPosts], mapping' \in [Messages -> 0..MaxPosts],
         redacted' \subseteq Messages \X (1..MaxPosts), recalled' \subseteq Messages,
         excused \subseteq excused', excused' \subseteq Messages,
         \A m \in Messages: posts[m] <= posts'[m],
         Entitled(w)', MessageInv'
  PROVE  IInv'
<1>1. /\ work' \in [Workers -> Work \cup {None}]
      /\ work'[w] # None /\ work'[w].pc = pc /\ work'[w].post = n
      /\ work'[w].event = work[w].event /\ work'[w].row = work[w].row
      /\ \A v \in Workers \ {w}: work'[v] = work[v]
  BY GotoFacts DEF IInv, Active
<1>2. \A v \in Workers: /\ work'[v] # None <=> work[v] # None
                        /\ work[v] # None => Event(v)' = Event(v)
                        /\ Active(v)' <=> Active(v)
  BY <1>1 DEF Active, At, Event
<1>3. TypeOK'
  BY <1>1 DEF IInv, TypeOK, Letters
<1>4. WorkInv'
  <2> SUFFICES ASSUME NEW v \in Workers, v # w, work'[v] # None PROVE Entitled(v)'
    BY DEF WorkInv
  <2>1. work[v] # None /\ Entitled(v) /\ work'[v] = work[v] /\ work[v] \in Work
    BY <1>1 DEF IInv, WorkInv, TypeOK
  <2>2. work'[v].row => work[v].row /\ letter'[Key(Event(v))] # None
    BY <2>1 DEF Entitled, Letters
  <2>3. \A e \in Events: delivered[e] <= delivered'[e]
    BY ConstantsAssumption DEF IInv, TypeOK
  <2> QED BY <1>3, <2>1, <2>2, <2>3, StillEntitled DEF IInv
<1>5. LockInv'
  BY <1>2 DEF IInv, LockInv, Workers, Active, Chat, Event
<1>6. LettersInv'
  BY DEF IInv, LettersInv, LetterInv, KeyClosed, Letters
<1>7. OneActive'
  BY <1>2 DEF IInv, OneActive, Active
<1>8. StillReplayable'
  BY <1>2 DEF IInv, StillReplayable, Unattended, Workers, Letters
<1>9. SettledWasPosted'
  <2> SUFFICES ASSUME NEW e \in Events \ (Recalls \cup Notices), MessageOf[e] \in Text,
                      e \in processed \/ [event |-> e, status |-> "replayed"] \in {letter[k]: k \in Keys}
               PROVE  posts'[MessageOf[e]] > 0
    BY DEF SettledWasPosted, Letters
  <2>1. posts[MessageOf[e]] > 0 /\ MessageOf[e] \in Messages
    BY ConstantsAssumption DEF IInv, SettledWasPosted
  <2> QED BY <2>1 DEF IInv, TypeOK
<1> QED BY <1>3, <1>4, <1>5, <1>6, <1>7, <1>8, <1>9, ConstantsAssumption DEF IInv

(* A handler leaves the other messages alone. *)
LEMMA OtherMessages ==
  ASSUME IInv, NEW w \in Workers, Active(w), NEW pc \in Steps \ {"queued"},
         NEW n \in 0..MaxPosts, Goto(w, pc, n),
         NEW m \in Messages, m \notin About(Event(w)), Careful(m),
         posts'[m] = posts[m], mapping'[m] = mapping[m], m \in recalled' <=> m \in recalled,
         redacted \subseteq redacted'
  PROVE  Careful(m)'
<1>1. /\ work'[w] # None /\ work'[w].event = work[w].event
      /\ \A v \in Workers \ {w}: work'[v] = work[v]
  BY GotoFacts DEF IInv, Active
<1>2. \A q: ~ On(w, q, m) /\ ~ On(w, q, m)'
  BY <1>1 DEF On, Event, About
<1>3. \A v \in Workers \ {w}: \A q: On(v, q, m) <=> On(v, q, m)'
  BY <1>1 DEF On, Event, About, At
<1>4. \A v \in Workers: On(v, "unmap", m) => work[v].post \in 1..posts[m]
  BY ConstantsAssumption DEF IInv, WorkInv, Entitled, On, At, About, Message, Event
<1> QED BY <1>1, <1>2, <1>3, <1>4, CarefulAside

(* At a message that is not excused, a handler is alone, so that all that  *)
(* counts is its own step ...                                               *)
LEMMA MineBefore ==
  ASSUME IInv, NEW w \in Workers, Active(w), NEW m \in Messages \ excused, m \in About(Event(w))
  PROVE  Fine(m, work[w].pc, work[w].post)
<1>1. Careful(m)
  BY DEF IInv, MessageInv
<1>2. \A v \in Workers: On(v, "record", m) => v = w
  BY DEF IInv, OneActive, On, Active, At
<1>3. \A q: On(w, q, m) <=> work[w].pc = q
  BY DEF On, At, Active
<1> QED BY <1>1, <1>2, <1>3 DEF Careful, Fine

(* ... and after its step, what is fine for it is fine for the message. *)
LEMMA MineAfter ==
  ASSUME IInv, NEW w \in Workers, Active(w), NEW pc \in Steps \ {"queued"},
         NEW n \in 0..MaxPosts, Goto(w, pc, n),
         NEW m \in Messages \ excused, m \in About(Event(w)), Fine(m, pc, n)'
  PROVE  Careful(m)'
<1>1. /\ work'[w] # None /\ work'[w].pc = pc /\ work'[w].post = n
      /\ work'[w].event = work[w].event /\ \A v \in Workers \ {w}: work'[v] = work[v]
  BY GotoFacts DEF IInv, Active
<1>2. \A q: On(w, q, m)' <=> q = pc
  BY <1>1 DEF On, At, Event
<1>3. ASSUME NEW v \in Workers \ {w} PROVE \A q \in {"post", "record", "redact", "unmap"}: ~ On(v, q, m)'
  <2>1. \A q \in {"post", "record", "redact", "unmap"}: ~ On(v, q, m)
    BY <1>3 DEF IInv, OneActive, On, Active, At
  <2>2. work'[v] = work[v]
    BY <1>1, <1>3
  <2> QED BY <2>1, <2>2 DEF On, At, Event
<1>4. \A k \in 1..posts'[m]:
        \/ <<m, k>> \in redacted' \/ k = mapping'[m]
        \/ \E v \in Workers: On(v, "record", m)' /\ work'[v].post = k
  BY <1>1, <1>2 DEF Fine
<1>5. m \notin recalled' => /\ posts'[m] <= 1
                            /\ posts'[m] > 0 => mapping'[m] # 0 \/ \E v \in Workers: On(v, "record", m)'
  BY <1>2 DEF Fine
<1>6. ASSUME NEW v \in Workers
      PROVE  /\ On(v, "post", m)' \/ On(v, "record", m)' => mapping'[m] = 0
             /\ On(v, "post", m)' /\ m \notin recalled' => posts'[m] = 0
             /\ On(v, "redact", m)' \/ On(v, "unmap", m)' => mapping'[m] = work'[v].post
             /\ On(v, "unmap", m)' => <<m, work'[v].post>> \in redacted'
  BY <1>1, <1>2, <1>3 DEF Fine
<1> QED BY <1>4, <1>5, <1>6 DEF Careful

(* A handler that ends without having changed anything. *)
LEMMA IdleIInv ==
  ASSUME IInv, NEW w \in Workers, Active(w), NEW pc \in {"succeeded", "failed"}, Goto(w, pc, 0),
         UNCHANGED <<delivered, lock, Tables, Matrix, recalled, closed>>,
         excused \subseteq excused', excused' \subseteq Messages,
         At(w, "record") => Message(w) \in excused',
         pc = "succeeded" /\ Event(w) \notin Recalls \cup Notices /\ Message(w) \in Text
           => posts[Message(w)] > 0
  PROVE  IInv'
<1>1. pc \in Steps \ {"queued"} /\ 0 \in 0..MaxPosts
  BY ConstantsAssumption DEF Steps
<1>2. /\ work'[w] # None /\ work'[w].pc = pc
      /\ work'[w].event = work[w].event /\ work'[w].row = work[w].row
  BY <1>1, GotoFacts DEF IInv, Active
<1>3. Entitled(w)'
  <2>1. Entitled(w) /\ Event(w)' = Event(w) /\ Message(w)' = Message(w)
    BY <1>2 DEF IInv, WorkInv, Active, Event, Message
  <2>2. letter' = letter /\ posts' = posts /\ delivered' = delivered
    BY DEF Tables, Letters, Matrix
  <2> QED BY <1>2, <2>1, <2>2 DEF Entitled
<1>4. MessageInv'
  <2>1. \A m \in Messages: mapping'[m] <= posts'[m]
    BY DEF IInv, MessageInv, Tables, Matrix
  <2>2. ASSUME NEW m \in Messages \ excused' PROVE Careful(m)'
    <3>1. Careful(m)
      BY <2>2 DEF IInv, MessageInv
    <3>2. CASE m \notin About(Event(w))
      BY <1>1, <3>1, <3>2, <2>2, OtherMessages DEF Tables, Matrix
    <3>3. CASE m \in About(Event(w))
      <4>1. ~ At(w, "record") /\ m \notin excused
        BY <2>2, <3>3 DEF About, Message, Event
      <4>2. posts' = posts /\ redacted' = redacted /\ mapping' = mapping
        BY DEF Tables, Matrix
      <4>3. Fine(m, work[w].pc, work[w].post)
        BY <3>3, <4>1, MineBefore
      <4>4. Fine(m, pc, 0)'
        BY <4>1, <4>2, <4>3 DEF Fine, At, Active
      <4> QED BY <1>1, <3>3, <4>1, <4>4, MineAfter
    <3> QED BY <3>2, <3>3
  <2> QED BY <2>1, <2>2 DEF MessageInv
<1>5. /\ posts' = posts /\ mapping' = mapping /\ redacted' = redacted
      /\ UNCHANGED <<delivered, lock, processed, Letters, closed>>
  BY DEF Tables, Matrix
<1> QED BY <1>1, <1>3, <1>4, <1>5, HandlerIInv, ConstantsAssumption DEF IInv, TypeOK

(* The steps that end a handler without touching its message. *)
LEMMA EndIInv ==
  ASSUME IInv, NEW w \in Workers,
         \/ NothingForwarded(w) \/ RecordFails(w) \/ HandlerFails(w) \/ UnmapFails(w) \/ HandleNotice(w)
  PROVE  IInv'
<1>1. Active(w) /\ Entitled(w) /\ Event(w) \in Events
  BY DEF NothingForwarded, RecordFails, HandlerFails, UnmapFails, HandleNotice, At, Active,
         IInv, WorkInv, TypeOK, Work, Event
<1>2. Recalls \cap Notices = {} /\ (Event(w) \notin Notices => Message(w) \in Messages)
  BY <1>1, ConstantsAssumption DEF Message, Event
<1>3. CASE NothingForwarded(w)
  BY <1>1, <1>3, IdleIInv DEF NothingForwarded, History, At, IInv, TypeOK
<1>4. CASE RecordFails(w)
  <2>1. Event(w) \notin Recalls \cup Notices /\ work[w].post \in 1..posts[Message(w)]
    BY <1>1, <1>4 DEF RecordFails, At, Entitled
  <2>2. posts[Message(w)] > 0
    BY <1>2, <2>1 DEF IInv, TypeOK
  <2> QED BY <1>1, <1>2, <1>4, <2>1, <2>2, IdleIInv DEF RecordFails, IInv, TypeOK
<1>5. CASE HandlerFails(w)
  BY <1>1, <1>5, IdleIInv DEF HandlerFails, History, At, IInv, TypeOK
<1>6. CASE UnmapFails(w)
  BY <1>1, <1>2, <1>6, IdleIInv DEF UnmapFails, History, At, IInv, TypeOK, Entitled
<1>7. CASE HandleNotice(w)
  BY <1>1, <1>7, IdleIInv DEF HandleNotice, History, At, IInv, TypeOK
<1> QED BY <1>3, <1>4, <1>5, <1>6, <1>7

(* The step of a handler at its message. *)
LEMMA MoveIInv ==
  ASSUME IInv, NEW w \in Workers, Active(w), NEW pc \in Steps \ {"queued"},
         NEW n \in 0..MaxPosts, Goto(w, pc, n),
         NEW m \in Messages, m = Message(w), About(Event(w)) = {m},
         UNCHANGED <<delivered, lock, processed, Letters, closed>>,
         posts' \in [Messages -> 0..MaxPosts], mapping' \in [Messages -> 0..MaxPosts],
         redacted' \subseteq Messages \X (1..MaxPosts), recalled' \subseteq Messages,
         excused \subseteq excused', excused' \subseteq Messages, redacted \subseteq redacted',
         \A l \in Messages \ {m}: /\ posts'[l] = posts[l] /\ mapping'[l] = mapping[l]
                                  /\ l \in recalled' <=> l \in recalled,
         posts[m] <= posts'[m], mapping'[m] <= posts'[m],
         m \notin excused' /\ Fine(m, work[w].pc, work[w].post) => Fine(m, pc, n)',
         Entitled(w)'
  PROVE  IInv'
<1>1. \A l \in Messages: posts[l] <= posts'[l]
  BY ConstantsAssumption DEF IInv, TypeOK
<1>2. \A l \in Messages: mapping'[l] <= posts'[l]
  BY DEF IInv, MessageInv
<1>3. ASSUME NEW l \in Messages \ excused' PROVE Careful(l)'
  <2>1. CASE l # m
    <3>1. Careful(l)
      BY <1>3 DEF IInv, MessageInv
    <3> QED BY <1>3, <2>1, <3>1, OtherMessages
  <2>2. CASE l = m
    <3>1. Fine(m, work[w].pc, work[w].post)
      BY <1>3, <2>2, MineBefore
    <3>2. Fine(m, pc, n)'
      BY <1>3, <2>2, <3>1
    <3> QED BY <1>3, <2>2, <3>2, MineAfter
  <2> QED BY <2>1, <2>2
<1>4. MessageInv'
  BY <1>2, <1>3 DEF MessageInv
<1> QED BY <1>1, <1>4, HandlerIInv

(* What is known at a step of a handler that is about a message. *)
LEMMA AtMessage ==
  ASSUME IInv, NEW w \in Workers, NEW pc \in Steps \ {"queued"}, At(w, pc), Event(w) \notin Notices
  PROVE  /\ Active(w) /\ Entitled(w) /\ Event(w) \in Events
         /\ \E m \in Messages: m = Message(w) /\ About(Event(w)) = {m}
                                /\ posts[m] \in 0..MaxPosts /\ mapping[m] \in 0..MaxPosts
                                /\ mapping[m] <= posts[m]
BY ConstantsAssumption DEF At, Active, IInv, WorkInv, MessageInv, TypeOK, Work, Event, Message, About

(* A handler moves on with the same event. *)
LEMMA Onward ==
  ASSUME IInv, NEW w \in Workers, Active(w), NEW pc \in Steps, NEW n \in 0..MaxPosts,
         Goto(w, pc, n), UNCHANGED <<delivered, Letters>>
  PROVE  /\ work'[w].pc = pc /\ work'[w].post = n /\ Event(w)' = Event(w) /\ Message(w)' = Message(w)
         /\ delivered'[Event(w)'] > 0
         /\ work'[w].row => letter'[Key(Event(w)')] # None
BY GotoFacts DEF IInv, WorkInv, Active, Entitled, Event, Message, Letters

(* A message that is found unmapped was not posted, unless it was recalled. *)
LEMMA FindBridgedIInv ==
  ASSUME IInv, NEW w \in Workers, FindBridged(w)
  PROVE  IInv'
<1>1. At(w, "start") /\ Event(w) \notin Recalls \cup Notices /\ "start" \in Steps \ {"queued"}
  BY DEF FindBridged, Steps
<1>2. Active(w) /\ Entitled(w)
  BY <1>1, AtMessage
<1> PICK m \in Messages: /\ m = Message(w) /\ About(Event(w)) = {m}
                         /\ posts[m] \in 0..MaxPosts /\ mapping[m] \in 0..MaxPosts
                         /\ mapping[m] <= posts[m]
  BY <1>1, AtMessage
<1>3. CASE mapping[m] # 0
  <2>1. posts[m] > 0
    BY <1>3, ConstantsAssumption
  <2> QED BY <1>2, <1>3, <2>1, IdleIInv DEF FindBridged, History, At, IInv, TypeOK
<1>4. CASE mapping[m] = 0
  <2>1. /\ Goto(w, "post", 0) /\ "post" \in Steps \ {"queued"} /\ 0 \in 0..MaxPosts
        /\ UNCHANGED <<delivered, lock, processed, mapping, Letters, posts, redacted, recalled, excused, closed>>
    BY <1>4, ConstantsAssumption DEF FindBridged, Steps, Tables, Matrix, History
  <2>2. Entitled(w)'
    BY <1>1, <1>2, <2>1, Onward DEF Entitled
  <2>3. Fine(m, work[w].pc, work[w].post) => Fine(m, "post", 0)'
    BY <1>1, <1>4, <2>1 DEF Fine, At
  <2> QED BY <1>2, <2>1, <2>2, <2>3, MoveIInv DEF IInv, TypeOK
<1> QED BY <1>3, <1>4

(* A post is the first of its message, unless it was recalled. *)
LEMMA PostIInv ==
  ASSUME IInv, NEW w \in Workers, Post(w)
  PROVE  IInv'
<1>1. At(w, "post") /\ "post" \in Steps \ {"queued"} /\ Event(w) \notin Recalls \cup Notices
  BY DEF Post, Steps, At, IInv, WorkInv, Entitled
<1>2. Active(w) /\ Entitled(w)
  BY <1>1, AtMessage
<1> PICK m \in Messages: /\ m = Message(w) /\ About(Event(w)) = {m}
                         /\ posts[m] \in 0..MaxPosts /\ mapping[m] \in 0..MaxPosts
                         /\ mapping[m] <= posts[m]
  BY <1>1, AtMessage
<1> PICK n \in 1..MaxPosts: n = posts[m] + 1
  BY ConstantsAssumption DEF Post
<1>3. n \in 0..MaxPosts
  BY ConstantsAssumption
<1>4. posts' = [posts EXCEPT ![m] = n] /\ Goto(w, "record", n)
      /\ UNCHANGED <<delivered, lock, processed, mapping, Letters, redacted, recalled, excused, closed>>
  BY DEF Post, Tables, History
<1>5. /\ posts' \in [Messages -> 0..MaxPosts] /\ posts'[m] = n
      /\ \A l \in Messages \ {m}: posts'[l] = posts[l]
  BY <1>3, <1>4 DEF IInv, TypeOK
<1>6. Entitled(w)'
  BY <1>1, <1>2, <1>3, <1>4, <1>5, Onward, ConstantsAssumption DEF Entitled, Steps
<1>7. Fine(m, work[w].pc, work[w].post) => Fine(m, "record", n)'
  BY <1>1, <1>3, <1>4, <1>5, ConstantsAssumption DEF Fine, At
<1>8. "record" \in Steps \ {"queued"} /\ posts[m] <= posts'[m] /\ mapping'[m] <= posts'[m]
  BY <1>3, <1>4, <1>5, ConstantsAssumption DEF Steps
<1> QED BY <1>2, <1>3, <1>4, <1>5, <1>6, <1>7, <1>8, MoveIInv DEF IInv, TypeOK

(* A post nobody confirms excuses its message. *)
LEMMA PostUnconfirmedIInv ==
  ASSUME IInv, NEW w \in Workers, PostUnconfirmed(w)
  PROVE  IInv'
<1>1. At(w, "post") /\ "post" \in Steps \ {"queued"} /\ Event(w) \notin Notices
  BY ConstantsAssumption DEF PostUnconfirmed, Steps, At, IInv, WorkInv, Entitled
<1>2. Active(w) /\ Entitled(w)
  BY <1>1, AtMessage
<1> PICK m \in Messages: /\ m = Message(w) /\ About(Event(w)) = {m}
                         /\ posts[m] \in 0..MaxPosts /\ mapping[m] \in 0..MaxPosts
                         /\ mapping[m] <= posts[m]
  BY <1>1, AtMessage
<1> PICK n \in 1..MaxPosts: n = posts[m] + 1
  BY ConstantsAssumption DEF PostUnconfirmed
<1>3. /\ posts' = [posts EXCEPT ![m] = n] /\ Goto(w, "failed", 0) /\ excused' = excused \cup {m}
      /\ UNCHANGED <<delivered, lock, processed, mapping, Letters, redacted, recalled, closed>>
  BY DEF PostUnconfirmed, Tables
<1>4. /\ posts' \in [Messages -> 0..MaxPosts] /\ posts'[m] = n
      /\ \A l \in Messages \ {m}: posts'[l] = posts[l]
  BY <1>3, ConstantsAssumption DEF IInv, TypeOK
<1>5. "failed" \in Steps \ {"queued"} /\ 0 \in 0..MaxPosts /\ posts[m] <= posts'[m] /\ mapping'[m] <= posts'[m]
  BY <1>3, <1>4, ConstantsAssumption DEF Steps
<1>6. Entitled(w)'
  BY <1>2, <1>3, <1>5, Onward DEF Entitled
<1> QED BY <1>2, <1>3, <1>4, <1>5, <1>6, MoveIInv DEF IInv, TypeOK

(* The mapping is that of the last post, the only one not redacted. *)
LEMMA RecordIInv ==
  ASSUME IInv, NEW w \in Workers, Record(w)
  PROVE  IInv'
<1>1. At(w, "record") /\ "record" \in Steps \ {"queued"} /\ Event(w) \notin Notices
  BY ConstantsAssumption DEF Record, Steps, At, IInv, WorkInv, Entitled
<1>2. Active(w) /\ Entitled(w)
  BY <1>1, AtMessage
<1> PICK m \in Messages: /\ m = Message(w) /\ About(Event(w)) = {m}
                         /\ posts[m] \in 0..MaxPosts /\ mapping[m] \in 0..MaxPosts
                         /\ mapping[m] <= posts[m]
  BY <1>1, AtMessage
<1> PICK n \in 1..posts[m]: n = work[w].post
  BY <1>1, <1>2 DEF Entitled, At
<1>3. /\ mapping' = [mapping EXCEPT ![m] = n] /\ mapping[m] = 0 /\ Goto(w, "succeeded", 0)
      /\ UNCHANGED <<delivered, lock, processed, Letters, posts, redacted, recalled, excused, closed>>
  BY DEF Record, Matrix, History
<1>4. /\ mapping' \in [Messages -> 0..MaxPosts] /\ mapping'[m] = n
      /\ \A l \in Messages \ {m}: mapping'[l] = mapping[l]
  BY <1>3, ConstantsAssumption DEF IInv, TypeOK
<1>5. "succeeded" \in Steps \ {"queued"} /\ 0 \in 0..MaxPosts /\ posts[m] <= posts'[m] /\ mapping'[m] <= posts'[m]
  BY <1>3, <1>4, ConstantsAssumption DEF Steps
<1>6. posts'[m] > 0
  BY <1>3, ConstantsAssumption
<1>7. Entitled(w)'
  BY <1>2, <1>3, <1>5, <1>6, Onward DEF Entitled
<1>8. Fine(m, work[w].pc, work[w].post) => Fine(m, "succeeded", 0)'
  BY <1>1, <1>3, <1>4 DEF Fine, At
<1> QED BY <1>2, <1>3, <1>4, <1>5, <1>7, <1>8, MoveIInv DEF IInv, TypeOK

(* A recall finds the post that is shown, if there is one. *)
LEMMA FindRecalledIInv ==
  ASSUME IInv, NEW w \in Workers, FindRecalled(w)
  PROVE  IInv'
<1>1. At(w, "start") /\ "start" \in Steps \ {"queued"} /\ Event(w) \in Recalls \ Notices
  BY ConstantsAssumption DEF FindRecalled, Steps, At, IInv, WorkInv, Entitled
<1>2. Active(w) /\ Entitled(w)
  BY <1>1, AtMessage
<1> PICK m \in Messages: /\ m = Message(w) /\ About(Event(w)) = {m}
                         /\ posts[m] \in 0..MaxPosts /\ mapping[m] \in 0..MaxPosts
                         /\ mapping[m] <= posts[m]
  BY <1>1, AtMessage
<1>3. CASE mapping[m] = 0
  BY <1>1, <1>2, <1>3, IdleIInv DEF FindRecalled, History, At, IInv, TypeOK
<1>4. CASE mapping[m] # 0
  <2> PICK n \in 1..posts[m]: n = mapping[m]
    BY <1>4, ConstantsAssumption
  <2>1. /\ Goto(w, "redact", n) /\ "redact" \in Steps \ {"queued"} /\ n \in 0..MaxPosts
        /\ UNCHANGED <<delivered, lock, processed, mapping, Letters, posts, redacted, recalled, excused, closed>>
    BY <1>4 DEF FindRecalled, Steps, Tables, Matrix, History
  <2>2. Entitled(w)'
    BY <1>1, <1>2, <2>1, Onward DEF Entitled
  <2>3. Fine(m, work[w].pc, work[w].post) => Fine(m, "redact", n)'
    BY <1>1, <2>1 DEF Fine, At
  <2> QED BY <1>2, <2>1, <2>2, <2>3, MoveIInv DEF IInv, TypeOK
<1> QED BY <1>3, <1>4

(* What is redacted is the mapped post. *)
LEMMA RedactIInv ==
  ASSUME IInv, NEW w \in Workers, Redact(w)
  PROVE  IInv'
<1>1. At(w, "redact") /\ "redact" \in Steps \ {"queued"} /\ Event(w) \notin Notices
  BY ConstantsAssumption DEF Redact, Steps, At, IInv, WorkInv, Entitled
<1>2. Active(w) /\ Entitled(w)
  BY <1>1, AtMessage
<1> PICK m \in Messages: /\ m = Message(w) /\ About(Event(w)) = {m}
                         /\ posts[m] \in 0..MaxPosts /\ mapping[m] \in 0..MaxPosts
                         /\ mapping[m] <= posts[m]
  BY <1>1, AtMessage
<1> PICK n \in 1..posts[m]: n = work[w].post
  BY <1>1, <1>2 DEF Entitled, At
<1>3. /\ redacted' = redacted \cup {<<m, n>>} /\ Goto(w, "unmap", n) /\ n \in 1..MaxPosts
      /\ UNCHANGED <<delivered, lock, processed, mapping, Letters, posts, recalled, excused, closed>>
  BY ConstantsAssumption DEF Redact, Tables, History
<1>4. "unmap" \in Steps \ {"queued"} /\ redacted' \subseteq Messages \X (1..MaxPosts)
  BY <1>3 DEF Steps, IInv, TypeOK
<1>5. Entitled(w)'
  BY <1>1, <1>2, <1>3, <1>4, Onward DEF Entitled, At
<1>6. Fine(m, work[w].pc, work[w].post) => Fine(m, "unmap", n)'
  BY <1>1, <1>3 DEF Fine, At
<1> QED BY <1>2, <1>3, <1>4, <1>5, <1>6, MoveIInv DEF IInv, TypeOK

(* A redaction that fails excuses its message. *)
LEMMA RedactFailsIInv ==
  ASSUME IInv, NEW w \in Workers, RedactFails(w)
  PROVE  IInv'
<1>1. At(w, "redact") /\ "redact" \in Steps \ {"queued"} /\ Event(w) \notin Notices
  BY ConstantsAssumption DEF RedactFails, Steps, At, IInv, WorkInv, Entitled
<1>2. Active(w) /\ Entitled(w)
  BY <1>1, AtMessage
<1> PICK m \in Messages: /\ m = Message(w) /\ About(Event(w)) = {m}
                         /\ posts[m] \in 0..MaxPosts /\ mapping[m] \in 0..MaxPosts
                         /\ mapping[m] <= posts[m]
  BY <1>1, AtMessage
<1> PICK n \in 1..posts[m]: n = work[w].post
  BY <1>1, <1>2 DEF Entitled, At
<1>3. /\ excused' = excused \cup {m} /\ Goto(w, "unmap", n) /\ n \in 1..MaxPosts
      /\ UNCHANGED <<delivered, lock, processed, mapping, Letters, posts, redacted, recalled, closed>>
  BY ConstantsAssumption DEF RedactFails, Tables, Matrix
<1>4. "unmap" \in Steps \ {"queued"}
  BY DEF Steps
<1>5. Entitled(w)'
  BY <1>1, <1>2, <1>3, <1>4, Onward DEF Entitled, At
<1> QED BY <1>2, <1>3, <1>4, <1>5, MoveIInv DEF IInv, TypeOK

(* A mapping that goes was redacted. *)
LEMMA UnmapIInv ==
  ASSUME IInv, NEW w \in Workers, Unmap(w)
  PROVE  IInv'
<1>1. At(w, "unmap") /\ "unmap" \in Steps \ {"queued"} /\ Event(w) \in Recalls \ Notices
  BY ConstantsAssumption DEF Unmap, Steps, At, IInv, WorkInv, Entitled
<1>2. Active(w) /\ Entitled(w)
  BY <1>1, AtMessage
<1> PICK m \in Messages: /\ m = Message(w) /\ About(Event(w)) = {m}
                         /\ posts[m] \in 0..MaxPosts /\ mapping[m] \in 0..MaxPosts
                         /\ mapping[m] <= posts[m]
  BY <1>1, AtMessage
<1> PICK n \in 1..posts[m]: n = work[w].post
  BY <1>1, <1>2 DEF Entitled, At
<1>3. /\ mapping' = [mapping EXCEPT ![m] = IF @ = n THEN 0 ELSE @] /\ recalled' = recalled \cup {m}
      /\ Goto(w, "succeeded", 0)
      /\ UNCHANGED <<delivered, lock, processed, Letters, posts, redacted, excused, closed>>
  BY DEF Unmap, Matrix
<1>4. /\ mapping' \in [Messages -> 0..MaxPosts] /\ mapping'[m] = IF mapping[m] = n THEN 0 ELSE mapping[m]
      /\ \A l \in Messages \ {m}: mapping'[l] = mapping[l]
  BY <1>3, ConstantsAssumption DEF IInv, TypeOK
<1>5. "succeeded" \in Steps \ {"queued"} /\ 0 \in 0..MaxPosts /\ posts[m] <= posts'[m] /\ mapping'[m] <= posts'[m]
  BY <1>3, <1>4, ConstantsAssumption DEF Steps
<1>6. Entitled(w)'
  BY <1>1, <1>2, <1>3, <1>5, Onward DEF Entitled
<1>7. Fine(m, work[w].pc, work[w].post) => Fine(m, "succeeded", 0)'
  BY <1>1, <1>3, <1>4 DEF Fine, At
<1> QED BY <1>2, <1>3, <1>4, <1>5, <1>6, <1>7, MoveIInv DEF IInv, TypeOK

-----------------------------------------------------------------------------
(* A step that leaves the room and the mappings alone keeps what is known  *)
(* of the messages, unless it sends a worker off before it maps its post.  *)
LEMMA QuietStep ==
  ASSUME IInv, UNCHANGED <<mapping, Matrix, recalled>>, excused \subseteq excused',
         \A w \in Workers: \A m \in Messages: \A pc \in {"post", "record", "redact", "unmap"}:
           On(w, pc, m)' => On(w, pc, m) /\ work'[w].post = work[w].post,
         \A w \in Workers: \A m \in Messages \ excused':
           On(w, "record", m) => On(w, "record", m)' /\ work'[w].post = work[w].post
  PROVE  MessageInv'
<1>1. posts' = posts /\ redacted' = redacted
  BY DEF Matrix
<1>2. ASSUME NEW m \in Messages \ excused' PROVE Careful(m)'
  <2>1. Careful(m)
    BY <1>2 DEF IInv, MessageInv
  <2>2. \A w \in Workers: On(w, "unmap", m) => work[w].post \in 1..posts[m]
    BY ConstantsAssumption DEF IInv, WorkInv, Entitled, On, At, About, Message, Event
  <2> QED BY <1>1, <1>2, <2>1, <2>2, CarefulAside
<1> QED BY <1>1, <1>2 DEF IInv, MessageInv

(* A worker that has come to its end leaves. *)
LEMMA Leaves ==
  ASSUME IInv, NEW w \in Workers, At(w, "succeeded") \/ At(w, "failed"),
         work' = [work EXCEPT ![w] = None], TypeOK',
         UNCHANGED <<delivered, mapping, Matrix, recalled, excused>>,
         \A k \in Keys: letter[k] # None => letter'[k] # None
  PROVE  /\ WorkInv' /\ OneActive' /\ MessageInv'
         /\ work'[w] = None /\ \A v \in Workers \ {w}: work'[v] = work[v]
         /\ Event(w) \in Events /\ Entitled(w)
<1>1. work'[w] = None /\ \A v \in Workers \ {w}: work'[v] = work[v]
  BY DEF IInv, TypeOK
<1>2. WorkInv'
  <2> SUFFICES ASSUME NEW v \in Workers, work'[v] # None PROVE Entitled(v)'
    BY DEF WorkInv
  <2>1. v # w /\ work[v] # None /\ Entitled(v) /\ work'[v] = work[v] /\ work[v] \in Work
    BY <1>1 DEF IInv, WorkInv, TypeOK
  <2>2. Event(v) \in Events /\ Key(Event(v)) \in Keys
    BY <2>1 DEF Work, Event, Keys
  <2>3. work'[v].row => work[v].row /\ letter'[Key(Event(v))] # None
    BY <2>1, <2>2 DEF Entitled
  <2>4. /\ \A e \in Events: delivered[e] <= delivered'[e]
        /\ \A m \in Messages: posts[m] <= posts'[m]
    BY ConstantsAssumption DEF IInv, TypeOK, Matrix
  <2> QED BY <2>1, <2>3, <2>4, StillEntitled DEF IInv
<1>3. OneActive'
  BY <1>1 DEF IInv, OneActive, Active, At, Event
<1>4. MessageInv'
  <2>1. \A v \in Workers: \A q: At(v, q)' => At(v, q) /\ Event(v)' = Event(v) /\ work'[v].post = work[v].post
    BY <1>1 DEF At, Event
  <2>2. \A v \in Workers: At(v, "record") => At(v, "record")' /\ Event(v)' = Event(v) /\ work'[v].post = work[v].post
    BY <1>1 DEF At, Event
  <2> QED BY <2>1, <2>2, QuietStep DEF On
<1>5. Event(w) \in Events /\ Entitled(w)
  BY DEF At, IInv, WorkInv, TypeOK, Work, Event
<1> QED BY <1>1, <1>2, <1>3, <1>4, <1>5

(* A task that leaves gives the lock to none other than itself. *)
LEMMA ReleaseLock ==
  ASSUME IInv, NEW s \in Slots, At(s, "succeeded") \/ At(s, "failed"), Release(s)
  PROVE  /\ LockInv' /\ lock' \in [Chats -> Slots \cup {None}]
         /\ work' \in [Workers -> Work \cup {None}]
         /\ work'[s] = None /\ \A v \in Workers \ {s}: work'[v] = work[v]
<1>1. /\ Active(s) /\ lock[Chat(s)] = s /\ Chat(s) \in Chats
  BY ConstantsAssumption DEF IInv, LockInv, Active, At, Chat, TypeOK, Work, Workers
<1>2. work'[s] = None /\ \A v \in Workers \ {s}: work'[v] = work[v]
  BY DEF IInv, TypeOK, Release, Workers
<1>3. lock' = [lock EXCEPT ![Chat(s)] = None]
  BY DEF Release
<1>4. ASSUME NEW v \in Slots, Active(v)' PROVE lock'[Chat(v)'] = v
  <2>1. v # s /\ Active(v) /\ Chat(v)' = Chat(v) /\ Chat(v) \in Chats
    BY <1>2, <1>4, ConstantsAssumption DEF Active, At, Chat, IInv, TypeOK, Work, Workers
  <2>2. lock[Chat(v)] = v
    BY <2>1 DEF IInv, LockInv
  <2> QED BY <1>1, <1>3, <2>1, <2>2 DEF IInv, TypeOK
<1> QED BY <1>2, <1>3, <1>4 DEF LockInv, IInv, TypeOK, Release, Workers

(* A task that is settled without touching the letters closes its event. *)
LEMMA SettledIInv ==
  ASSUME IInv, NEW s \in Slots, At(s, "succeeded") \/ At(s, "failed"), Release(s),
         UNCHANGED <<delivered, mapping, Letters, Matrix, recalled, excused>>,
         closed' = closed \cup {Event(s)}, processed \subseteq processed',
         processed' \subseteq processed \cup {Event(s)},
         At(s, "failed") => processed' = processed
  PROVE  IInv'
<1>1. Event(s) \in Events /\ s \in Workers /\ letter' = letter /\ doomed' = doomed
  BY DEF At, IInv, TypeOK, Work, Event, Workers, Letters
<1>2. TypeOK'
  BY <1>1, ReleaseLock DEF IInv, TypeOK, Matrix
<1>3. WorkInv' /\ OneActive' /\ MessageInv' /\ Entitled(s)
  BY <1>1, <1>2, Leaves DEF Release
<1>4. LockInv' /\ work'[s] = None /\ \A v \in Workers \ {s}: work'[v] = work[v]
  BY ReleaseLock
<1>5. LettersInv'
  <2>1. \A e \in Events: delivered[e] <= delivered'[e]
    BY ConstantsAssumption DEF IInv, TypeOK
  <2>2. \A k \in Keys: KeyClosed(k) => KeyClosed(k)'
    BY <1>2, <2>1, KeyStaysClosed DEF IInv
  <2>3. \A k \in Keys: LetterInv(k)'
    BY <1>1, <2>2 DEF IInv, LettersInv, LetterInv
  <2> QED BY <2>3 DEF IInv, LettersInv
<1>6. StillReplayable'
  <2>1. \A e \in Events: e # Event(s) /\ Unattended(e)' => Unattended(e)
    BY <1>4 DEF Unattended, Event, Workers
  <2> QED BY <1>1, <2>1 DEF IInv, StillReplayable
<1>7. SettledWasPosted'
  <2> SUFFICES ASSUME NEW e \in Events \ (Recalls \cup Notices), MessageOf[e] \in Text,
                      e \in processed' \/ [event |-> e, status |-> "replayed"] \in {letter[k]: k \in Keys}
               PROVE  posts[MessageOf[e]] > 0
    BY <1>1 DEF SettledWasPosted, Matrix
  <2>1. CASE e \in processed \/ [event |-> e, status |-> "replayed"] \in {letter[k]: k \in Keys}
    BY <2>1 DEF IInv, SettledWasPosted
  <2>2. CASE e \in processed' \ processed
    <3>1. e = Event(s) /\ At(s, "succeeded")
      BY <2>2
    <3> QED BY <1>3, <3>1 DEF Entitled, At, Message, Event
  <2> QED BY <2>1, <2>2
<1> QED BY <1>2, <1>3, <1>4, <1>5, <1>6, <1>7 DEF IInv

(* A task that marks its event, or fails to settle it. *)
LEMMA SettleIInv ==
  ASSUME IInv, NEW s \in Slots, Mark(s) \/ SettleFails(s)
  PROVE  IInv'
<1>1. CASE Mark(s)
  BY <1>1, SettledIInv DEF Mark, At
<1>2. CASE SettleFails(s)
  BY <1>2, SettledIInv DEF SettleFails, Tables
<1> QED BY <1>1, <1>2

(* The letter of a task that failed is its own event's; only a twin could  *)
(* have had the row before.                                                *)
LEMMA BuryIInv ==
  ASSUME IInv, NEW s \in Slots, Bury(s)
  PROVE  IInv'
<1> DEFINE e == Event(s)
           row == [event |-> e, status |-> "pending"]
<1>1. At(s, "failed") /\ e \in Events /\ s \in Workers /\ Release(s)
  BY DEF Bury, At, IInv, TypeOK, Work, Event, Workers
<1>2. row \in Row /\ row # None /\ Key(e) \in Keys
  BY <1>1, NoneAssumption DEF Row, Keys
<1>3. /\ letter' \in [Keys -> Row \cup {None}] /\ letter'[Key(e)] = row
      /\ \A k \in Keys \ {Key(e)}: letter'[k] = letter[k]
      /\ UNCHANGED <<delivered, processed, mapping, doomed, posts, redacted, recalled, excused, closed>>
  BY <1>2 DEF Bury, Recorded, IInv, TypeOK, Matrix, History
<1>4. TypeOK'
  BY <1>1, <1>3, ReleaseLock DEF IInv, TypeOK
<1>5. WorkInv' /\ OneActive' /\ MessageInv' /\ Entitled(s)
  BY <1>1, <1>2, <1>3, <1>4, Leaves DEF Release, Matrix
<1>6. LockInv' /\ work'[s] = None /\ \A v \in Workers \ {s}: work'[v] = work[v]
  BY <1>1, ReleaseLock
<1>7. delivered[e] > 0
  BY <1>5 DEF Entitled
<1>8. LettersInv'
  BY <1>2, <1>3, <1>7 DEF IInv, LettersInv, LetterInv, KeyClosed
<1>9. StillReplayable'
  <2> SUFFICES ASSUME NEW f \in Events \ closed, delivered[f] > 0, Unattended(f)',
                      \A g \in Twins(f): delivered[g] = 0
               PROVE  /\ letter'[Key(f)] # None /\ letter'[Key(f)].event = f
                      /\ letter'[Key(f)].status # "replayed"
    BY <1>3 DEF StillReplayable
  <2>1. CASE f = e
    BY <1>2, <1>3, <2>1
  <2>2. CASE f # e
    <3>1. Key(f) # Key(e)
      BY <1>1, <1>7, <2>2, KeyTwins
    <3>2. Unattended(f)
      BY <1>6, <2>2 DEF Unattended, Event, Workers
    <3>3. /\ letter[Key(f)] # None /\ letter[Key(f)].event = f
          /\ letter[Key(f)].status # "replayed"
      BY <3>2 DEF IInv, StillReplayable
    <3> QED BY <1>3, <3>1, <3>3 DEF Keys
  <2> QED BY <2>1, <2>2
<1>10. SettledWasPosted'
  <2> SUFFICES ASSUME NEW f \in Events \ (Recalls \cup Notices), MessageOf[f] \in Text,
                      \/ f \in processed
                      \/ \E k \in Keys: letter'[k] = [event |-> f, status |-> "replayed"]
               PROVE  posts[MessageOf[f]] > 0
    BY <1>3 DEF SettledWasPosted
  <2>1. f \in processed \/ \E k \in Keys: letter[k] = [event |-> f, status |-> "replayed"]
    BY <1>3
  <2> QED BY <2>1 DEF IInv, SettledWasPosted
<1> QED BY <1>4, <1>5, <1>6, <1>8, <1>9, <1>10 DEF IInv

(* A replay settles the letter only of what it replayed, or of its twin. *)
LEMMA EndReplayIInv ==
  ASSUME IInv, NEW r \in Replayers, ReplayEnds(r) \/ ReplayEndFails(r)
  PROVE  IInv'
<1> DEFINE e == Event(r)
<1> PICK k \in Keys: k = Key(e)
  BY DEF ReplayEnds, ReplayEndFails, At, IInv, TypeOK, Work, Event, Workers, Keys
<1>1. /\ At(r, "succeeded") \/ At(r, "failed")
      /\ work' = [work EXCEPT ![r] = None] /\ Closed(r)
      /\ UNCHANGED <<delivered, lock, processed, mapping, doomed, posts, redacted, recalled, excused>>
  BY DEF ReplayEnds, ReplayEndFails, Tables, Letters, Matrix
<1>2. e \in Events /\ r \in Workers /\ r \notin Slots /\ Entitled(r)
  BY <1>1, ConstantsAssumption DEF At, IInv, WorkInv, TypeOK, Work, Event, Workers
<1>3. /\ letter' \in [Keys -> Row \cup {None}] /\ \A j \in Keys \ {k}: letter'[j] = letter[j]
      /\ \/ letter'[k] = letter[k]
         \/ /\ letter[k] # None /\ letter'[k] # None /\ letter'[k].event = letter[k].event
            /\ letter'[k].status = Outcome(r)
  <2>1. CASE letter' = letter
    BY <2>1 DEF IInv, TypeOK
  <2>2. CASE letter' # letter
    <3> DEFINE row == [letter[k] EXCEPT !.status = Outcome(r)]
    <3>1. letter' = [letter EXCEPT ![k] = row] /\ work[r].row
      BY <2>2 DEF ReplayEnds, ReplayEndFails, Tables, Letters
    <3>2. letter[k] # None /\ letter[k] \in Row
      BY <1>2, <3>1 DEF Entitled, IInv, TypeOK
    <3>3. row \in Row /\ row.event = letter[k].event /\ row.status = Outcome(r)
      BY <3>2 DEF Row, Outcome
    <3>4. row # None
      BY <3>3, NoneAssumption
    <3> HIDE DEF row
    <3> QED BY <3>1, <3>2, <3>3, <3>4 DEF IInv, TypeOK
  <2> QED BY <2>1, <2>2
<1>4. /\ closed \subseteq closed' /\ closed' \subseteq Events
      /\ At(r, "succeeded") => e \in closed'
  BY <1>1, <1>2 DEF Closed, IInv, TypeOK
<1>5. TypeOK'
  BY <1>1, <1>3, <1>4 DEF IInv, TypeOK
<1>6. /\ WorkInv' /\ OneActive' /\ MessageInv'
      /\ work'[r] = None /\ \A v \in Workers \ {r}: work'[v] = work[v]
  BY <1>1, <1>2, <1>3, <1>5, Leaves DEF Matrix
<1>7. LockInv'
  BY <1>1, <1>2, <1>6 DEF IInv, LockInv, Active, At, Chat, Workers
<1>8. LettersInv'
  <2>1. \A f \in Events: delivered[f] <= delivered'[f]
    BY <1>1, ConstantsAssumption DEF IInv, TypeOK
  <2>2. \A j \in Keys: KeyClosed(j) => KeyClosed(j)'
    BY <1>4, <1>5, <2>1, KeyStaysClosed DEF IInv
  <2>3. At(r, "succeeded") => KeyClosed(k)'
    BY <1>1, <1>2, <1>4 DEF KeyClosed, Entitled
  <2>4. letter'[k].status = Outcome(r) /\ letter'[k].status = "replayed" => At(r, "succeeded")
    BY DEF Outcome
  <2>5. ASSUME NEW j \in Keys PROVE LetterInv(j)'
    BY <1>1, <1>3, <2>2, <2>3, <2>4 DEF IInv, LettersInv, LetterInv
  <2> QED BY <1>1, <1>4, <2>5 DEF IInv, LettersInv
<1>9. StillReplayable'
  <2> SUFFICES ASSUME NEW f \in Events \ closed', delivered[f] > 0, Unattended(f)',
                      \A g \in Twins(f): delivered[g] = 0
               PROVE  /\ letter'[Key(f)] # None /\ letter'[Key(f)].event = f
                      /\ letter'[Key(f)].status # "replayed"
    BY <1>1 DEF StillReplayable
  <2>1. Unattended(f) /\ f \notin closed /\ Key(f) \in Keys
    BY <1>2, <1>4, <1>6 DEF Unattended, Event, Workers, Keys
  <2>2. /\ letter[Key(f)] # None /\ letter[Key(f)].event = f
        /\ letter[Key(f)].status # "replayed"
    BY <2>1 DEF IInv, StillReplayable
  <2>3. CASE Key(f) # k
    BY <1>3, <2>1, <2>2, <2>3
  <2>4. CASE Key(f) = k
    <3>1. f = e
      BY <1>2, <2>4, KeyTwins DEF Entitled
    <3>2. Outcome(r) = "failed"
      BY <1>4, <3>1 DEF Outcome
    <3> QED BY <1>3, <2>2, <2>4, <3>2
  <2> QED BY <2>3, <2>4
<1>10. SettledWasPosted'
  <2> SUFFICES ASSUME NEW f \in Events \ (Recalls \cup Notices), MessageOf[f] \in Text,
                      \/ f \in processed
                      \/ \E j \in Keys: letter'[j] = [event |-> f, status |-> "replayed"]
               PROVE  posts[MessageOf[f]] > 0
    BY <1>1 DEF SettledWasPosted
  <2>1. CASE f \in processed \/ \E j \in Keys: letter[j] = [event |-> f, status |-> "replayed"]
    BY <2>1 DEF IInv, SettledWasPosted
  <2>2. CASE letter'[k] = [event |-> f, status |-> "replayed"] /\ letter'[k] # letter[k]
    <3>1. letter[k] # None /\ letter[k].event = f /\ Outcome(r) = "replayed"
      BY <1>3, <2>2
    <3>2. At(r, "succeeded") /\ Key(f) = Key(e)
      BY <3>1 DEF Outcome, IInv, LettersInv, LetterInv
    <3>3. e \notin Recalls \cup Notices /\ MessageOf[e] = MessageOf[f]
      <4>1. CASE e = f
        BY <4>1
      <4>2. CASE e # f
        <5>1. SubjectOf[e] = SubjectOf[f]
          BY <1>2, <3>2, <4>2, KeyTwins
        <5> QED BY <1>2, <5>1, ConstantsAssumption
      <4> QED BY <4>1, <4>2
    <3> QED BY <1>2, <3>2, <3>3 DEF Entitled, At, Message, Event
  <2> QED BY <1>3, <2>1, <2>2
<1> QED BY <1>5, <1>6, <1>7, <1>8, <1>9, <1>10 DEF IInv

-----------------------------------------------------------------------------
(* An event is accepted, or dropped because it is processed and closed. *)
LEMMA DispatchIInv ==
  ASSUME IInv, NEW s \in Slots, NEW e \in Events, Dispatch(s, e)
  PROVE  IInv'
<1> DEFINE t == [event |-> e, pc |-> "queued", post |-> 0, row |-> FALSE]
<1>1. /\ s \in Workers /\ work[s] = None
      /\ UNCHANGED <<lock, processed, mapping, letter, doomed, posts, redacted, recalled, excused, closed>>
  BY DEF Dispatch, Workers, Tables, Letters, Matrix, History
<1>2. t \in Work /\ t # None
  <2>1. t \in Work
    BY ConstantsAssumption DEF Work, Steps
  <2> QED BY <2>1, NoneAssumption
<1>3. /\ delivered' \in [Events -> 0..MaxDeliveries] /\ delivered'[e] > 0
      /\ \A f \in Events: delivered[f] <= delivered'[f] /\ (f # e => delivered'[f] = delivered[f])
  BY ConstantsAssumption DEF Dispatch, IInv, TypeOK
<1>4. /\ \A v \in Workers \ {s}: work'[v] = work[v]
      /\ work'[s] = t \/ (work'[s] = None /\ e \in processed)
      /\ work' \in [Workers -> Work \cup {None}]
  BY <1>1, <1>2 DEF Dispatch, IInv, TypeOK
<1> HIDE DEF t
<1>5. t.event = e /\ t.pc = "queued" /\ t.row = FALSE
  BY DEF t
<1>6. TypeOK'
  BY <1>1, <1>3, <1>4 DEF IInv, TypeOK
<1>7. WorkInv'
  <2> SUFFICES ASSUME NEW v \in Workers, work'[v] # None PROVE Entitled(v)'
    BY DEF WorkInv
  <2>1. CASE v = s
    BY <1>3, <1>4, <1>5, <2>1 DEF Entitled, Event
  <2>2. CASE v # s
    <3>1. work[v] # None /\ work'[v] = work[v] /\ Entitled(v)
      BY <1>4, <2>2 DEF IInv, WorkInv
    <3>2. \A m \in Messages: posts[m] <= posts'[m]
      BY <1>1, ConstantsAssumption DEF IInv, TypeOK
    <3> QED BY <1>1, <1>3, <1>6, <3>1, <3>2, StillEntitled DEF IInv, Entitled
  <2> QED BY <2>1, <2>2
<1>8. \A v \in Workers: Active(v)' <=> v # s /\ Active(v)
  BY <1>1, <1>4, <1>5 DEF Active, At
<1>9. LockInv' /\ OneActive'
  BY <1>1, <1>4, <1>8 DEF IInv, LockInv, OneActive, Chat, Event, Workers
<1>10. LettersInv'
  <2>1. \A k \in Keys: KeyClosed(k) => KeyClosed(k)'
    BY <1>1, <1>3, <1>6, KeyStaysClosed DEF IInv
  <2>2. ASSUME NEW k \in Keys PROVE LetterInv(k)'
    <3>1. letter[k] # None => letter[k].event \in Events
      BY DEF IInv, TypeOK, Row
    <3>2. \A f \in Events: delivered[f] \in Nat /\ delivered'[f] \in Nat
      BY <1>6, ConstantsAssumption DEF IInv, TypeOK
    <3>3. \A f \in Events: delivered[f] > 0 => delivered'[f] > 0
      BY <1>3, <3>2
    <3> QED BY <1>1, <2>1, <3>1, <3>3 DEF IInv, LettersInv, LetterInv
  <2> QED BY <1>1, <2>2 DEF IInv, LettersInv
<1>11. MessageInv'
  <2>1. \A v \in Workers: \A q \in {"post", "record", "redact", "unmap"}:
          /\ At(v, q)' => At(v, q) /\ work'[v] = work[v]
          /\ At(v, q) => At(v, q)' /\ work'[v] = work[v]
    BY <1>1, <1>4, <1>5 DEF At
  <2> QED BY <1>1, <2>1, QuietStep DEF On, Event, Matrix
<1>12. StillReplayable'
  <2> SUFFICES ASSUME NEW f \in Events \ closed, delivered'[f] > 0, Unattended(f)',
                      \A g \in Twins(f): delivered'[g] = 0
               PROVE  letter[Key(f)] # None /\ letter[Key(f)].event = f /\ letter[Key(f)].status # "replayed"
    BY <1>1 DEF StillReplayable
  <2>1. f # e
    BY <1>4, <1>5, <1>2 DEF Unattended, Event, IInv, LettersInv, Workers
  <2>2. delivered[f] > 0 /\ Unattended(f)
    BY <1>1, <1>3, <1>4, <2>1 DEF Unattended, Event, Workers
  <2>3. \A g \in Twins(f): delivered[g] = 0
    <3>1. \A g \in Twins(f): g \in Events /\ delivered[g] \in Nat /\ delivered'[g] = 0
      BY ConstantsAssumption DEF Twins, IInv, TypeOK
    <3> QED BY <1>3, <3>1
  <2> QED BY <2>2, <2>3 DEF IInv, StillReplayable
<1>13. SettledWasPosted'
  BY <1>1 DEF IInv, SettledWasPosted
<1> QED BY <1>6, <1>7, <1>9, <1>10, <1>11, <1>12, <1>13 DEF IInv

(* A task that begins has the chat to itself, but for replays. *)
LEMMA AcquireIInv ==
  ASSUME IInv, NEW s \in Slots, Acquire(s)
  PROVE  IInv'
<1>1. /\ s \in Workers /\ At(s, "queued") /\ work[s] # None /\ Event(s) \in Events
      /\ Chat(s) \in Chats /\ lock[Chat(s)] = None
      /\ UNCHANGED <<delivered, processed, mapping, letter, doomed, posts, redacted, recalled, closed>>
  BY ConstantsAssumption
     DEF Acquire, At, Workers, IInv, TypeOK, Work, Event, Chat, Tables, Letters, Matrix
<1>2. /\ work' \in [Workers -> Work \cup {None}]
      /\ work'[s] # None /\ work'[s].pc = "start" /\ work'[s].event = work[s].event
      /\ work'[s].row = work[s].row /\ \A v \in Workers \ {s}: work'[v] = work[v]
  <2>1. "start" \in Steps /\ 0 \in 0..MaxPosts /\ Goto(s, "start", 0)
    BY ConstantsAssumption DEF Acquire, Steps
  <2> QED BY <1>1, <2>1, GotoFacts DEF IInv
<1>3. /\ lock' = [lock EXCEPT ![Chat(s)] = s]
      /\ excused \subseteq excused' /\ excused' \subseteq Messages
      /\ \A m \in Messages \ excused': m \notin Overlapping(Replayers, Event(s))
  <2>1. About(Event(s)) \subseteq Messages
    BY <1>1, ConstantsAssumption DEF About
  <2>2. Overlapping(Replayers, Event(s)) \subseteq Messages
    BY <2>1 DEF Overlapping
  <2>3. /\ lock' = [lock EXCEPT ![Chat(s)] = s]
        /\ excused' = excused \cup Overlapping(Replayers, Event(s))
    BY DEF Acquire
  <2> QED BY <2>2, <2>3 DEF IInv, TypeOK
<1>4. TypeOK'
  BY <1>1, <1>2, <1>3 DEF IInv, TypeOK
<1>5. WorkInv'
  <2> SUFFICES ASSUME NEW v \in Workers, work'[v] # None PROVE Entitled(v)'
    BY DEF WorkInv
  <2>1. CASE v = s
    BY <1>1, <1>2, <2>1 DEF Entitled, Event, IInv, WorkInv
  <2>2. CASE v # s
    <3>1. work[v] # None /\ work'[v] = work[v] /\ Entitled(v)
      BY <1>2, <2>2 DEF IInv, WorkInv
    <3>2. /\ \A m \in Messages: posts[m] <= posts'[m]
          /\ \A e \in Events: delivered[e] <= delivered'[e]
      BY <1>1, ConstantsAssumption DEF IInv, TypeOK
    <3> QED BY <1>1, <1>4, <3>1, <3>2, StillEntitled DEF IInv, Entitled
  <2> QED BY <2>1, <2>2
<1>6. \A v \in Workers: /\ work'[v] # None <=> work[v] # None
                        /\ work[v] # None => Event(v)' = Event(v) /\ Chat(v)' = Chat(v)
                        /\ v # s => (Active(v)' <=> Active(v))
  BY <1>1, <1>2 DEF Active, At, Event, Chat
<1>7. \A v \in Slots: Active(v) => Chat(v) \in Chats /\ Chat(v) # Chat(s)
  BY <1>1, ConstantsAssumption DEF IInv, LockInv, Active, Chat, TypeOK, Work, Workers
<1>8. LockInv'
  BY <1>1, <1>3, <1>6, <1>7 DEF IInv, LockInv, TypeOK, Workers, Active
<1>9. OneActive'
  <2>1. ASSUME NEW m \in Messages \ excused', m \in About(Event(s)), NEW v \in Workers \ {s},
               Active(v), m \in About(Event(v))
        PROVE  FALSE
    <3>1. CASE v \in Slots
      <4>1. Event(v) \in Events \ Notices /\ Event(s) \in Events \ Notices
            /\ MessageOf[Event(v)] = MessageOf[Event(s)]
        BY <1>1, <2>1 DEF About, IInv, TypeOK, Work, Event, Active
      <4>2. Chat(v) = Chat(s)
        BY <4>1, ConstantsAssumption DEF Chat, Event
      <4> QED BY <1>7, <2>1, <3>1, <4>2
    <3>2. CASE v \in Replayers
      BY <1>3, <2>1, <3>2 DEF Overlapping, Active
    <3> QED BY <2>1, <3>1, <3>2 DEF Workers
  <2> QED BY <1>1, <1>3, <1>6, <2>1 DEF IInv, OneActive, Active
<1>10. MessageInv'
  <2>1. \A v \in Workers: \A q \in {"post", "record", "redact", "unmap"}:
          /\ At(v, q)' => At(v, q) /\ work'[v] = work[v]
          /\ At(v, q) => At(v, q)' /\ work'[v] = work[v]
    BY <1>1, <1>2 DEF At
  <2> QED BY <1>1, <1>3, <2>1, QuietStep DEF On, Event, Matrix
<1>11. LettersInv' /\ SettledWasPosted'
  BY <1>1 DEF IInv, LettersInv, LetterInv, KeyClosed, SettledWasPosted
<1>12. StillReplayable'
  BY <1>1, <1>6 DEF IInv, StillReplayable, Unattended, Workers
<1> QED BY <1>4, <1>5, <1>8, <1>9, <1>10, <1>11, <1>12 DEF IInv

(* A replay begins with an event that was delivered. *)
LEMMA StartReplayIInv ==
  ASSUME IInv, NEW r \in Replayers, NEW k \in Keys, StartReplay(r, k)
  PROVE  IInv'
<1> PICK e \in Events: e = letter[k].event
  BY DEF StartReplay, IInv, TypeOK, Row
<1> PICK pc \in {"start", "failed"}: pc = IF e \in Legacy THEN "failed" ELSE "start"
  OBVIOUS
<1> DEFINE t == [event |-> e, pc |-> pc, post |-> 0, row |-> TRUE]
<1>1. /\ r \in Workers /\ r \notin Slots /\ work[r] = None
      /\ work' = [work EXCEPT ![r] = t]
      /\ excused' = excused \cup Overlapping(Workers, e)
      /\ UNCHANGED <<delivered, lock, processed, mapping, letter, doomed, posts, redacted, recalled, closed>>
  BY ConstantsAssumption DEF StartReplay, Workers, Tables, Letters, Matrix
<1>2. t \in Work /\ t # None
  <2>1. t \in Work
    BY ConstantsAssumption DEF Work, Steps
  <2> QED BY <2>1, NoneAssumption
<1>3. Key(e) = k /\ delivered[e] > 0 /\ letter[k] # None
  BY DEF StartReplay, IInv, LettersInv, LetterInv
<1>4. /\ work' \in [Workers -> Work \cup {None}] /\ work'[r] = t
      /\ \A v \in Workers \ {r}: work'[v] = work[v]
  BY <1>1, <1>2 DEF IInv, TypeOK
<1>5. t.event = e /\ t.pc = pc
  OBVIOUS
<1> HIDE DEF t
<1>6. /\ excused \subseteq excused' /\ excused' \subseteq Messages
      /\ \A m \in Messages \ excused': m \notin Overlapping(Workers, e)
  <2>1. About(e) \subseteq Messages
    BY ConstantsAssumption DEF About
  <2>2. Overlapping(Workers, e) \subseteq Messages
    BY <2>1 DEF Overlapping
  <2> QED BY <1>1, <2>2 DEF IInv, TypeOK
<1>7. TypeOK'
  BY <1>1, <1>4, <1>6 DEF IInv, TypeOK
<1>8. WorkInv'
  <2> SUFFICES ASSUME NEW v \in Workers, work'[v] # None PROVE Entitled(v)'
    BY DEF WorkInv
  <2>1. CASE v = r
    BY <1>1, <1>3, <1>4, <1>5, <2>1 DEF Entitled, Event
  <2>2. CASE v # r
    <3>1. work[v] # None /\ work'[v] = work[v] /\ Entitled(v)
      BY <1>4, <2>2 DEF IInv, WorkInv
    <3>2. /\ \A m \in Messages: posts[m] <= posts'[m]
          /\ \A f \in Events: delivered[f] <= delivered'[f]
      BY <1>1, ConstantsAssumption DEF IInv, TypeOK
    <3> QED BY <1>1, <1>7, <3>1, <3>2, StillEntitled DEF IInv, Entitled
  <2> QED BY <2>1, <2>2
<1>9. LockInv'
  BY <1>1, <1>4 DEF IInv, LockInv, Active, At, Chat, Workers
<1>10. OneActive'
  <2>1. ASSUME NEW m \in Messages \ excused', m \in About(e), NEW v \in Workers \ {r},
               Active(v), m \in About(Event(v))
        PROVE  FALSE
    BY <1>6, <2>1 DEF Overlapping, Active
  <2>2. /\ Event(r)' = e
        /\ \A v \in Workers \ {r}: Active(v)' => Active(v) /\ Event(v)' = Event(v)
    BY <1>4, <1>5 DEF Active, At, Event
  <2> QED BY <1>6, <2>1, <2>2 DEF IInv, OneActive
<1>11. MessageInv'
  <2>1. \A v \in Workers: \A q \in {"post", "record", "redact", "unmap"}:
          /\ At(v, q)' => At(v, q) /\ work'[v] = work[v]
          /\ At(v, q) => At(v, q)' /\ work'[v] = work[v]
    BY <1>1, <1>4, <1>5 DEF At
  <2> QED BY <1>1, <1>6, <2>1, QuietStep DEF On, Event, Matrix
<1>12. LettersInv' /\ SettledWasPosted'
  BY <1>1 DEF IInv, LettersInv, LetterInv, KeyClosed, SettledWasPosted
<1>13. StillReplayable'
  BY <1>1, <1>4 DEF IInv, StillReplayable, Unattended, Event, Workers
<1> QED BY <1>7, <1>8, <1>9, <1>10, <1>11, <1>12, <1>13 DEF IInv

(* A cleanup that selects a letter that was not replayed closes its event. *)
LEMMA SelectRowIInv ==
  ASSUME IInv, NEW k \in Keys, SelectRow(k)
  PROVE  IInv'
<1>1. /\ letter[k] # None /\ letter[k].event \in Events /\ doomed' = doomed \cup {k}
      /\ closed \subseteq closed' /\ closed' \subseteq closed \cup {letter[k].event}
      /\ letter[k].status # "replayed" => letter[k].event \in closed'
      /\ UNCHANGED <<delivered, work, lock, processed, mapping, letter, posts, redacted, recalled, excused>>
  BY DEF SelectRow, IInv, TypeOK, Row, Matrix
<1>2. TypeOK'
  BY <1>1 DEF IInv, TypeOK
<1>3. WorkInv' /\ LockInv' /\ OneActive'
  BY <1>1 DEF IInv, WorkInv, LockInv, OneActive, Entitled, Active, At, Event, Message, Chat
<1>4. MessageInv'
  BY <1>1, QuietStep DEF On, At, Event, Matrix
<1>5. LettersInv'
  <2>1. \A e \in Events: delivered[e] <= delivered'[e]
    BY <1>1, ConstantsAssumption DEF IInv, TypeOK
  <2>2. \A j \in Keys: KeyClosed(j) => KeyClosed(j)'
    BY <1>1, <1>2, <2>1, KeyStaysClosed DEF IInv
  <2>3. KeyClosed(k)'
    BY <1>1, <2>2 DEF IInv, LettersInv, LetterInv, KeyClosed
  <2> QED BY <1>1, <2>2, <2>3 DEF IInv, LettersInv, LetterInv
<1>6. StillReplayable' /\ SettledWasPosted'
  BY <1>1 DEF IInv, StillReplayable, SettledWasPosted, Unattended, Event
<1> QED BY <1>2, <1>3, <1>4, <1>5, <1>6 DEF IInv

(* What it deletes is closed, or has a twin. *)
LEMMA DeleteRowsIInv ==
  ASSUME IInv, DeleteRows
  PROVE  IInv'
<1>1. /\ letter' \in [Keys -> Row \cup {None}] /\ doomed' = {}
      /\ \A k \in Keys: letter'[k] = IF k \in doomed THEN None ELSE letter[k]
      /\ UNCHANGED <<delivered, lock, processed, mapping, posts, redacted, recalled, excused, closed>>
  BY DEF DeleteRows, IInv, TypeOK, Matrix, History
<1>2. ASSUME NEW v \in Workers
      PROVE  /\ work'[v] \in Work \cup {None}
             /\ work'[v] # None <=> work[v] # None
             /\ work[v] # None =>
                  /\ Event(v) \in Events
                  /\ work'[v].event = work[v].event /\ work'[v].pc = work[v].pc
                  /\ work'[v].post = work[v].post
                  /\ work'[v].row => work[v].row /\ Key(Event(v)) \notin doomed
  <2>1. CASE work[v] # None /\ Key(Event(v)) \in doomed
    <3> DEFINE t == [work[v] EXCEPT !.row = FALSE]
    <3>1. work[v] \in Work /\ work'[v] = t
      BY <2>1 DEF DeleteRows, IInv, TypeOK
    <3>2. /\ t \in Work /\ t.event = work[v].event /\ t.pc = work[v].pc /\ t.post = work[v].post
          /\ t.row = FALSE /\ work[v].event \in Events
      BY <3>1 DEF Work
    <3> HIDE DEF t
    <3> QED BY <2>1, <3>1, <3>2, NoneAssumption DEF Event
  <2>2. CASE ~ (work[v] # None /\ Key(Event(v)) \in doomed)
    BY <2>2 DEF DeleteRows, IInv, TypeOK, Work, Event
  <2> QED BY <2>1, <2>2
<1>3. TypeOK'
  <2>1. work' \in [Workers -> Work \cup {None}]
    BY <1>2 DEF DeleteRows
  <2> QED BY <1>1, <2>1 DEF IInv, TypeOK
<1>4. WorkInv'
  <2> SUFFICES ASSUME NEW v \in Workers, work'[v] # None PROVE Entitled(v)'
    BY DEF WorkInv
  <2>1. work[v] # None /\ Entitled(v)
    BY <1>2 DEF IInv, WorkInv
  <2>2. work'[v].row => work[v].row /\ letter'[Key(Event(v))] # None
    BY <1>1, <1>2, <2>1 DEF Entitled, Keys
  <2>3. /\ \A m \in Messages: posts[m] <= posts'[m]
        /\ \A e \in Events: delivered[e] <= delivered'[e]
    BY <1>1, ConstantsAssumption DEF IInv, TypeOK
  <2> QED BY <1>2, <1>3, <2>1, <2>2, <2>3, StillEntitled DEF IInv
<1>5. \A v \in Workers: /\ Active(v)' <=> Active(v)
                        /\ work[v] # None => Event(v)' = Event(v) /\ Chat(v)' = Chat(v)
                        /\ \A q: At(v, q)' <=> At(v, q)
  BY <1>2 DEF Active, At, Event, Chat
<1>6. LockInv' /\ OneActive'
  BY <1>1, <1>5 DEF IInv, LockInv, OneActive, Active, Workers
<1>7. MessageInv'
  BY <1>1, <1>2, <1>5, QuietStep DEF On, At, Matrix
<1>8. LettersInv'
  BY <1>1 DEF IInv, LettersInv, LetterInv, KeyClosed
<1>9. StillReplayable'
  <2> SUFFICES ASSUME NEW f \in Events \ closed, delivered[f] > 0, Unattended(f)',
                      \A g \in Twins(f): delivered[g] = 0
               PROVE  Key(f) \notin doomed /\ Unattended(f)
    BY <1>1 DEF IInv, StillReplayable, Keys
  <2>1. Unattended(f)
    BY <1>2, <1>5 DEF Unattended, Workers
  <2>2. Key(f) \notin doomed
    <3> SUFFICES ASSUME Key(f) \in doomed PROVE FALSE
      OBVIOUS
    <3>1. PICK e \in closed: Key(e) = Key(f) /\ delivered[e] > 0
      BY DEF IInv, TypeOK, LettersInv, LetterInv, KeyClosed
    <3>2. e \in Events /\ e # f
      BY DEF IInv, TypeOK
    <3> QED BY <3>1, <3>2, KeyTwins
  <2> QED BY <2>1, <2>2
<1>10. SettledWasPosted'
  <2> SUFFICES ASSUME NEW f \in Events \ (Recalls \cup Notices), MessageOf[f] \in Text,
                      \/ f \in processed
                      \/ \E k \in Keys: letter'[k] = [event |-> f, status |-> "replayed"]
               PROVE  posts[MessageOf[f]] > 0
    BY <1>1 DEF SettledWasPosted
  <2>1. [event |-> f, status |-> "replayed"] # None
    <3>1. [event |-> f, status |-> "replayed"] \in Row
      BY DEF Row
    <3> QED BY <3>1, NoneAssumption
  <2>2. f \in processed \/ \E k \in Keys: letter[k] = [event |-> f, status |-> "replayed"]
    BY <1>1, <2>1
  <2> QED BY <2>2 DEF IInv, SettledWasPosted
<1> QED BY <1>3, <1>4, <1>6, <1>7, <1>8, <1>9, <1>10 DEF IInv

(* What a crash takes is closed or excused. *)
LEMMA CrashIInv ==
  ASSUME IInv, Crash
  PROVE  IInv'
<1>1. /\ \A w \in Workers: work'[w] = None
      /\ doomed' = {} /\ closed \subseteq closed' /\ excused \subseteq excused'
      /\ closed' \subseteq Events /\ excused' \subseteq Messages
      /\ \A e \in Events: (\E s \in Slots: work[s] # None /\ Event(s) = e) => e \in closed'
      /\ \A m \in Messages: (\E w \in Workers: At(w, "record") /\ Message(w) = m) => m \in excused'
      /\ UNCHANGED <<delivered, processed, mapping, letter, posts, redacted, recalled>>
  BY DEF Crash, IInv, TypeOK, Matrix
<1>2. TypeOK'
  BY <1>1 DEF Crash, IInv, TypeOK
<1>3. WorkInv' /\ LockInv' /\ OneActive'
  BY <1>1 DEF WorkInv, LockInv, OneActive, Active, Workers
<1>4. MessageInv'
  <2>1. \A w \in Workers: \A m \in Messages \ excused': ~ On(w, "record", m)
    BY <1>1 DEF On, About, Event, Message
  <2> QED BY <1>1, <2>1, QuietStep DEF On, At, Matrix
<1>5. LettersInv'
  <2>1. \A e \in Events: delivered[e] <= delivered'[e]
    BY <1>1, ConstantsAssumption DEF IInv, TypeOK
  <2>2. \A j \in Keys: KeyClosed(j) => KeyClosed(j)'
    BY <1>1, <1>2, <2>1, KeyStaysClosed DEF IInv
  <2> QED BY <1>1, <2>2 DEF IInv, LettersInv, LetterInv
<1>6. StillReplayable' /\ SettledWasPosted'
  BY <1>1 DEF IInv, StillReplayable, SettledWasPosted, Unattended
<1> QED BY <1>2, <1>3, <1>4, <1>5, <1>6 DEF IInv

-----------------------------------------------------------------------------
(* The invariant holds in every reachable state. *)
THEOREM AlwaysIInv == Spec => []IInv
<1>1. IInv /\ [Next]_vars => IInv'
  <2> SUFFICES ASSUME IInv, [Next]_vars PROVE IInv'
    OBVIOUS
  <2>1. ASSUME NEW s \in Slots, NEW e \in Events, Dispatch(s, e) PROVE IInv'
    BY <2>1, DispatchIInv
  <2>2. ASSUME NEW s \in Slots, Acquire(s) \/ Settle(s) PROVE IInv'
    BY <2>2, AcquireIInv, SettleIInv, BuryIInv DEF Settle
  <2>3. ASSUME NEW r \in Replayers, Replay(r) PROVE IInv'
    BY <2>3, StartReplayIInv, EndReplayIInv DEF Replay, EndReplay
  <2>4. ASSUME NEW w \in Workers, Handle(w) PROVE IInv'
    BY <2>4, EndIInv, FindBridgedIInv, PostIInv, PostUnconfirmedIInv, RecordIInv,
       FindRecalledIInv, RedactIInv, RedactFailsIInv, UnmapIInv DEF Handle
  <2>5. CASE Cleanup
    BY <2>5, SelectRowIInv, DeleteRowsIInv DEF Cleanup
  <2>6. CASE Crash
    BY <2>6, CrashIInv
  <2>7. CASE UNCHANGED vars
    <3>1. /\ UNCHANGED <<delivered, work, lock, processed, mapping, letter, doomed,
                         posts, redacted, recalled, excused, closed>>
      BY <2>7 DEF vars
    <3>2. TypeOK' /\ WorkInv' /\ LockInv' /\ LettersInv' /\ OneActive'
      BY <3>1 DEF IInv, TypeOK, WorkInv, LockInv, LettersInv, OneActive, Entitled, LetterInv,
                  KeyClosed, Active, At, Event, Message, Chat
    <3>3. MessageInv'
      BY <3>1, QuietStep DEF On, At, Event, Matrix
    <3>4. StillReplayable' /\ SettledWasPosted'
      BY <3>1 DEF IInv, StillReplayable, SettledWasPosted, Unattended, Event
    <3> QED BY <3>2, <3>3, <3>4 DEF IInv
  <2> QED BY <2>1, <2>2, <2>3, <2>4, <2>5, <2>6, <2>7 DEF Next
<1> QED BY InitIInv, <1>1, PTL DEF Spec

(* Every variable always holds a value of its kind. *)
THEOREM TypeCorrect == Spec => []TypeOK
<1>1. IInv => TypeOK
  BY DEF IInv
<1> QED BY <1>1, AlwaysIInv, PTL

(* A message is posted once: the check for a bridged message and the post  *)
(* are far apart, but nobody else is at the message meanwhile.             *)
THEOREM AlwaysPostedOnce == Spec => []PostedOnce
<1>1. IInv => PostedOnce
  BY DEF IInv, MessageInv, Careful, PostedOnce
<1> QED BY <1>1, AlwaysIInv, PTL

(* The room never shows a message twice: what is not redacted is mapped or *)
(* about to be, and there is one mapping, or one handler about to make it. *)
THEOREM AlwaysShownOnce == Spec => []ShownOnce
<1>1. ASSUME IInv, NEW m \in Messages \ excused
      PROVE  Cardinality({n \in 1..posts[m]: <<m, n>> \notin redacted}) <= 1
  <2> DEFINE shown == {n \in 1..posts[m]: <<m, n>> \notin redacted}
  <2>1. Careful(m)
    BY <1>1 DEF IInv, MessageInv
  <2>2. PICK n: shown \subseteq {n}
    <3>1. CASE \E w \in Workers: On(w, "record", m)
      <4>1. PICK w \in Workers: On(w, "record", m)
        BY <3>1
      <4>2. mapping[m] = 0 /\ \A v \in Workers: On(v, "record", m) => v = w
        BY <1>1, <2>1, <4>1 DEF Careful, IInv, OneActive, On, Active, At
      <4>3. shown \subseteq {work[w].post}
        BY <2>1, <4>2 DEF Careful
      <4> QED BY <4>3
    <3>2. CASE ~ \E w \in Workers: On(w, "record", m)
      BY <2>1, <3>2 DEF Careful
    <3> QED BY <3>1, <3>2
  <2>3. IsFiniteSet({n}) /\ Cardinality({n}) = 1
    BY FS_Singleton
  <2>4. Cardinality(shown) <= 1
    BY <2>2, <2>3, FS_Subset
  <2> QED BY <2>4
<1>2. IInv => ShownOnce
  BY <1>1 DEF ShownOnce
<1> QED BY <1>2, AlwaysIInv, PTL

(* What was acknowledged and did not end well has a letter of its own.     *)
THEOREM AlwaysReplayable == Spec => []StillReplayable
<1>1. IInv => StillReplayable
  BY DEF IInv
<1> QED BY <1>1, AlwaysIInv, PTL

(* What is marked processed or replayed was posted. *)
THEOREM NeverSettledUnposted == Spec => []SettledWasPosted
<1>1. IInv => SettledWasPosted
  BY DEF IInv
<1> QED BY <1>1, AlwaysIInv, PTL

-----------------------------------------------------------------------------
(* A handler that is about to post a message, or to remove its mapping,     *)
(* knows that nothing is seen of it, unless it is excused.                  *)
LEMMA NothingSeen ==
  ASSUME IInv, NEW w \in Workers, NEW pc \in {"post", "unmap"}, At(w, pc), Event(w) \notin Notices
  PROVE  /\ Message(w) \in Messages
         /\ Message(w) \notin excused =>
              /\ P!Unseen(Message(w))
              /\ pc = "post" => posts[Message(w)] = 0 \/ Message(w) \in recalled
<1>1. pc \in Steps \ {"queued"}
  BY DEF Steps
<1>2. Active(w)
  BY <1>1, AtMessage
<1>3. PICK m \in Messages: m = Message(w) /\ About(Event(w)) = {m}
  BY <1>1, AtMessage
<1>4. ASSUME m \notin excused
      PROVE  P!Unseen(m) /\ (pc = "post" => posts[m] = 0 \/ m \in recalled)
  <2>1. Fine(m, pc, work[w].post)
    BY <1>2, <1>3, <1>4, MineBefore DEF At
  <2>2. \A k \in 1..posts[m]: k # 0
    OBVIOUS
  <2> QED BY <2>1, <2>2 DEF Fine, P!Unseen
<1> QED BY <1>3, <1>4

(* A message is posted when nothing of it is seen.                          *)
LEMMA PostIsDue ==
  ASSUME IInv, NEW w \in Workers, Post(w) \/ PostUnconfirmed(w)
  PROVE  P!Next
<1>1. /\ At(w, "post") /\ Event(w) \notin Notices
      /\ posts' = [posts EXCEPT ![Message(w)] = @ + 1] /\ UNCHANGED <<redacted, recalled>>
      /\ excused' = excused \/ excused' = excused \cup {Message(w)}
  BY DEF Post, PostUnconfirmed, At, IInv, WorkInv, Entitled, History
<1> DEFINE m == Message(w)
<1>2. /\ m \in Messages
      /\ m \notin excused => P!Unseen(m) /\ (posts[m] = 0 \/ m \in recalled)
  BY <1>1, NothingSeen
<1>3. P!Post(m)
  BY <1>1, <1>2 DEF P!Post
<1> QED BY <1>2, <1>3 DEF P!Next

(* What is redacted is a post of the message.                               *)
LEMMA RedactHides ==
  ASSUME IInv, NEW w \in Workers, Redact(w)
  PROVE  P!Next
<1>1. /\ At(w, "redact") /\ Event(w) \notin Notices /\ "redact" \in Steps \ {"queued"}
      /\ work[w].post \in 1..posts[Message(w)]
  BY ConstantsAssumption DEF Redact, Steps, At, IInv, WorkInv, Entitled
<1>2. PICK m \in Messages: m = Message(w)
  BY <1>1, AtMessage
<1>3. /\ redacted' = redacted \cup {<<m, work[w].post>>}
      /\ UNCHANGED <<posts, recalled, excused>>
  BY <1>2 DEF Redact, History
<1>4. P!Hide(m)
  BY <1>1, <1>2, <1>3 DEF P!Hide
<1> QED BY <1>4 DEF P!Next

(* A recall is over when nothing of the message is left.                    *)
LEMMA UnmapRecalls ==
  ASSUME IInv, NEW w \in Workers, Unmap(w)
  PROVE  P!Next
<1>1. /\ At(w, "unmap") /\ Event(w) \notin Notices
      /\ recalled' = recalled \cup {Message(w)} /\ UNCHANGED <<posts, redacted, excused>>
  BY ConstantsAssumption DEF Unmap, At, IInv, WorkInv, Entitled, Matrix
<1> DEFINE m == Message(w)
<1>2. m \in Messages /\ (m \notin excused => P!Unseen(m))
  BY <1>1, NothingSeen
<1>3. P!Recall(m)
  BY <1>1, <1>2 DEF P!Recall
<1> QED BY <1>2, <1>3 DEF P!Next

(* The other steps leave the room alone, and may excuse a message.          *)
LEMMA OthersExcuse ==
  ASSUME [Next]_vars
  PROVE  \/ UNCHANGED <<posts, redacted, recalled>> /\ excused \subseteq excused'
         \/ \E w \in Workers: Post(w) \/ PostUnconfirmed(w) \/ Redact(w) \/ Unmap(w)
<1>1. ASSUME NEW s \in Slots, NEW e \in Events, Dispatch(s, e)
      PROVE  UNCHANGED <<posts, redacted, recalled>> /\ excused \subseteq excused'
  BY <1>1 DEF Dispatch, Matrix, History
<1>2. ASSUME NEW s \in Slots, Acquire(s) \/ Settle(s)
      PROVE  UNCHANGED <<posts, redacted, recalled>> /\ excused \subseteq excused'
  BY <1>2 DEF Acquire, Settle, Mark, Bury, SettleFails, Matrix, History
<1>3. ASSUME NEW r \in Replayers, Replay(r)
      PROVE  UNCHANGED <<posts, redacted, recalled>> /\ excused \subseteq excused'
  BY <1>3 DEF Replay, StartReplay, EndReplay, ReplayEnds, ReplayEndFails, Matrix, History
<1>4. ASSUME NEW w \in Workers, Handle(w)
      PROVE  \/ UNCHANGED <<posts, redacted, recalled>> /\ excused \subseteq excused'
             \/ Post(w) \/ PostUnconfirmed(w) \/ Redact(w) \/ Unmap(w)
  BY <1>4 DEF Handle, FindBridged, NothingForwarded, Record, RecordFails, HandlerFails,
              FindRecalled, RedactFails, UnmapFails, HandleNotice, Matrix, History
<1>5. CASE Cleanup \/ Crash \/ UNCHANGED vars
  BY <1>5 DEF Cleanup, SelectRow, DeleteRows, Crash, Matrix, History, vars
<1> QED BY <1>1, <1>2, <1>3, <1>4, <1>5 DEF Next

(* The delivery implements the post office: a message is posted only while  *)
(* nothing of it is to be seen, and its recall is over only then.           *)
THEOREM ImplementsOffice == Spec => OfficeSpec
<1>1. Init => P!Init
  BY DEF Init, P!Init
<1>2. ASSUME IInv, [Next]_vars
      PROVE  [P!Next]_(P!officeVars)
  <2>1. CASE UNCHANGED <<posts, redacted, recalled>> /\ excused \subseteq excused'
    BY <2>1 DEF P!Next, P!Excuse
  <2>2. ASSUME NEW w \in Workers, Post(w) \/ PostUnconfirmed(w) \/ Redact(w) \/ Unmap(w)
        PROVE  P!Next
    BY <1>2, <2>2, PostIsDue, RedactHides, UnmapRecalls
  <2> QED BY <1>2, <2>1, <2>2, OthersExcuse
<1> QED BY <1>1, <1>2, AlwaysIInv, PTL DEF Spec, OfficeSpec, P!Spec

-----------------------------------------------------------------------------
(* The lock of a chat is held by a task of that chat that runs.             *)
HeldInv == \A c \in Chats, s \in Slots: lock[c] = s => Active(s) /\ Chat(s) = c

(* A handler's step leaves it active, with its event, and the lock alone.   *)
LEMMA HandleStays ==
  ASSUME IInv, NEW w \in Workers, Handle(w)
  PROVE  /\ Active(w) /\ Active(w)' /\ Chat(w)' = Chat(w) /\ lock' = lock
         /\ \A v \in Workers \ {w}: work'[v] = work[v]
<1> USE DEF Steps
<1>1. 0 \in 0..MaxPosts
  BY ConstantsAssumption
<1>2. \E pc \in Steps \ {"queued"}: At(w, pc)
  BY DEF Handle, FindBridged, Post, PostUnconfirmed, NothingForwarded, Record, RecordFails,
         HandlerFails, FindRecalled, Redact, RedactFails, Unmap, UnmapFails, HandleNotice
<1>3. lock' = lock
  BY DEF Handle, FindBridged, Post, PostUnconfirmed, NothingForwarded, Record, RecordFails,
         HandlerFails, FindRecalled, Redact, RedactFails, Unmap, UnmapFails, HandleNotice
<1>4. \E pc \in Steps \ {"queued"}: \E n \in 0..MaxPosts: Goto(w, pc, n)
  <2>1. CASE \/ FindBridged(w) \/ PostUnconfirmed(w) \/ NothingForwarded(w) \/ Record(w)
             \/ RecordFails(w) \/ HandlerFails(w) \/ Unmap(w) \/ UnmapFails(w) \/ HandleNotice(w)
    BY <1>1, <2>1 DEF FindBridged, PostUnconfirmed, NothingForwarded, Record, RecordFails,
                      HandlerFails, Unmap, UnmapFails, HandleNotice
  <2>2. CASE Post(w)
    <3>1. /\ At(w, "post") /\ Event(w) \notin Notices /\ posts[Message(w)] < MaxPosts
          /\ Goto(w, "record", posts[Message(w)] + 1)
      BY <2>2 DEF Post, At, IInv, WorkInv, Entitled
    <3>2. posts[Message(w)] \in 0..MaxPosts
      BY <3>1, AtMessage
    <3>3. posts[Message(w)] + 1 \in 0..MaxPosts
      BY <3>1, <3>2, ConstantsAssumption
    <3> QED BY <3>1, <3>3
  <2>3. CASE FindRecalled(w)
    <3>1. At(w, "start") /\ Event(w) \notin Notices
      BY <2>3, ConstantsAssumption DEF FindRecalled
    <3>2. mapping[Message(w)] \in 0..MaxPosts
      BY <3>1, AtMessage
    <3> QED BY <1>1, <2>3, <3>2 DEF FindRecalled
  <2>4. CASE Redact(w) \/ RedactFails(w)
    <3>1. work[w] \in Work /\ Goto(w, "unmap", work[w].post)
      BY <2>4 DEF Redact, RedactFails, At, IInv, TypeOK
    <3> QED BY <3>1 DEF Work
  <2> QED BY <2>1, <2>2, <2>3, <2>4 DEF Handle
<1>5. PICK pc \in Steps \ {"queued"}, n \in 0..MaxPosts: Goto(w, pc, n)
  BY <1>4
<1>6. Active(w)
  BY <1>2 DEF Active, At
<1>7. /\ work'[w] # None /\ work'[w].pc = pc /\ work'[w].event = work[w].event
      /\ \A v \in Workers \ {w}: work'[v] = work[v]
  BY <1>5, <1>6, GotoFacts DEF IInv, Active
<1> QED BY <1>3, <1>6, <1>7 DEF Active, At, Chat

(* What the other steps of the tasks do to the queue.                       *)
LEMMA DispatchEnqueues ==
  ASSUME IInv, NEW s \in Slots, NEW e \in Events, Dispatch(s, e)
  PROVE  /\ lock' = lock /\ work[s] = None /\ \A v \in Workers \ {s}: work'[v] = work[v]
         /\ work'[s] = None \/ (At(s, "queued")' /\ Chat(s)' = ChatOf[e])
<1> DEFINE t == [event |-> e, pc |-> "queued", post |-> 0, row |-> FALSE]
<1>1. t \in Work /\ t # None
  <2>1. 0 \in 0..MaxPosts /\ "queued" \in Steps
    BY ConstantsAssumption DEF Steps
  <2>2. t \in Work
    BY <2>1 DEF Work
  <2> QED BY <2>2, NoneAssumption
<1>2. work' = work \/ work' = [work EXCEPT ![s] = t]
  BY DEF Dispatch
<1> HIDE DEF t
<1>3. work' = work \/ (work'[s] = t /\ \A v \in Workers \ {s}: work'[v] = work[v])
  BY <1>2 DEF IInv, TypeOK, Workers
<1> QED BY <1>1, <1>3 DEF t, Dispatch, At, Chat

(* A task begins when the lock of its chat is free.                         *)
LEMMA AcquireBegins ==
  ASSUME IInv, NEW s \in Slots, Acquire(s)
  PROVE  /\ At(s, "queued") /\ Chat(s) \in Chats /\ lock[Chat(s)] = None
         /\ lock' = [lock EXCEPT ![Chat(s)] = s]
         /\ Active(s)' /\ Chat(s)' = Chat(s) /\ \A v \in Workers \ {s}: work'[v] = work[v]
<1>1. /\ At(s, "queued") /\ Goto(s, "start", 0) /\ "start" \in Steps /\ 0 \in 0..MaxPosts
      /\ s \in Workers /\ work[s] # None
      /\ lock[Chat(s)] = None /\ lock' = [lock EXCEPT ![Chat(s)] = s]
  BY ConstantsAssumption DEF Acquire, Steps, At, Workers
<1>2. /\ work'[s] # None /\ work'[s].pc = "start" /\ work'[s].event = work[s].event
      /\ \A v \in Workers \ {s}: work'[v] = work[v]
  BY <1>1, GotoFacts DEF IInv
<1>3. Chat(s) \in Chats
  <2>1. work[s] \in Work
    BY <1>1 DEF IInv, TypeOK
  <2>2. work[s].event \in Events
    BY <2>1 DEF Work
  <2> QED BY <2>2, ConstantsAssumption DEF Chat
<1> QED BY <1>1, <1>2, <1>3 DEF Active, At, Chat

(* A task that ends had the lock, and leaves it.                            *)
LEMMA SettleEnds ==
  ASSUME IInv, NEW s \in Slots, Settle(s)
  PROVE  /\ Active(s) /\ Chat(s) \in Chats /\ lock[Chat(s)] = s
         /\ lock' = [lock EXCEPT ![Chat(s)] = None]
         /\ work'[s] = None /\ \A v \in Workers \ {s}: work'[v] = work[v]
<1>1. (At(s, "succeeded") \/ At(s, "failed")) /\ Release(s)
  BY DEF Settle, Mark, Bury, SettleFails
<1>2. Active(s) /\ lock[Chat(s)] = s /\ Chat(s) \in Chats
  BY <1>1, ConstantsAssumption DEF IInv, LockInv, Active, At, Chat, TypeOK, Work, Workers
<1> QED BY <1>1, <1>2, ReleaseLock DEF Release

(* Replays and cleanups do not touch the queue.                             *)
LEMMA OperatorsAside ==
  ASSUME IInv, (\E r \in Replayers: Replay(r)) \/ Cleanup \/ UNCHANGED vars
  PROVE  /\ lock' = lock
         /\ \A s \in Slots: /\ At(s, "queued")' <=> At(s, "queued")
                            /\ work'[s] = None <=> work[s] = None
                            /\ work[s] # None => Chat(s)' = Chat(s)
<1>1. ASSUME NEW r \in Replayers, Replay(r)
      PROVE  lock' = lock /\ \A s \in Slots: work'[s] = work[s]
  <2>1. lock' = lock /\ \E t: work' = [work EXCEPT ![r] = t]
    BY <1>1 DEF Replay, StartReplay, EndReplay, ReplayEnds, ReplayEndFails
  <2> QED BY <2>1, ConstantsAssumption DEF IInv, TypeOK, Workers
<1>2. CASE Cleanup
  <2>1. CASE UNCHANGED <<work, lock>>
    BY <2>1 DEF At, Chat
  <2>2. CASE DeleteRows
    <3> SUFFICES ASSUME NEW s \in Slots
                 PROVE  /\ work'[s] = None <=> work[s] = None
                        /\ work[s] # None => work'[s].pc = work[s].pc /\ work'[s].event = work[s].event
      BY <2>2 DEF At, Chat, DeleteRows
    <3>1. work'[s] = IF work[s] # None /\ Key(Event(s)) \in doomed
                     THEN [work[s] EXCEPT !.row = FALSE] ELSE work[s]
      BY <2>2 DEF DeleteRows, Workers
    <3>2. CASE work[s] = None
      BY <3>1, <3>2
    <3>3. CASE work[s] # None
      <4> DEFINE u == [work[s] EXCEPT !.row = FALSE]
      <4>1. work[s] \in Work
        BY <3>3 DEF IInv, TypeOK, Workers
      <4>2. u \in Work /\ u.pc = work[s].pc /\ u.event = work[s].event
        BY <4>1 DEF Work
      <4>3. u # None
        BY <4>2, NoneAssumption
      <4> QED BY <3>1, <3>3, <4>2, <4>3
    <3> QED BY <3>2, <3>3
  <2> QED BY <1>2, <2>1, <2>2 DEF Cleanup, SelectRow
<1>3. CASE UNCHANGED vars
  BY <1>3 DEF vars, At, Chat
<1> QED BY <1>1, <1>2, <1>3 DEF At, Chat

(* A task that is active stays so, with its chat, in a step of another one. *)
LEMMA NextHeldInv ==
  ASSUME IInv, HeldInv, [Next]_vars
  PROVE  HeldInv'
<1> SUFFICES ASSUME NEW c \in Chats, NEW s \in Slots, lock'[c] = s
             PROVE  Active(s)' /\ Chat(s)' = c
  BY DEF HeldInv
<1>1. s \in Workers /\ s # None
  BY ConstantsAssumption DEF Workers
<1>2. ASSUME lock[c] = s
      PROVE  Active(s) /\ Chat(s) = c
  BY <1>2 DEF HeldInv
<1>3. ASSUME Active(s), Chat(s) = c, work'[s] = work[s]
      PROVE  Active(s)' /\ Chat(s)' = c
  BY <1>3 DEF Active, At, Chat
<1>4. ASSUME NEW t \in Slots, NEW e \in Events, Dispatch(t, e)
      PROVE  Active(s)' /\ Chat(s)' = c
  <2>1. Active(s) /\ Chat(s) = c /\ lock'= lock
    BY <1>2, <1>4, DispatchEnqueues
  <2>2. s # t
    BY <1>4, <2>1, DispatchEnqueues DEF Active
  <2> QED BY <1>1, <1>3, <1>4, <2>1, <2>2, DispatchEnqueues
<1>5. ASSUME NEW t \in Slots, Acquire(t)
      PROVE  Active(s)' /\ Chat(s)' = c
  <2>1. At(t, "queued") /\ Chat(t) \in Chats /\ lock[Chat(t)] = None
    BY <1>5, AcquireBegins
  <2>2. lock' = [lock EXCEPT ![Chat(t)] = t] /\ lock \in [Chats -> Slots \cup {None}]
    BY <1>5, AcquireBegins DEF IInv, TypeOK
  <2>3. CASE c = Chat(t)
    <3>1. s = t
      BY <2>1, <2>2, <2>3
    <3> QED BY <1>5, <2>3, <3>1, AcquireBegins
  <2>4. CASE c # Chat(t)
    <3>1. lock[c] = s
      BY <2>1, <2>2, <2>4
    <3>2. Active(s) /\ Chat(s) = c /\ s # t
      BY <1>2, <2>4, <3>1
    <3>3. work'[s] = work[s]
      BY <1>1, <1>5, <3>2, AcquireBegins
    <3> QED BY <1>3, <3>2, <3>3
  <2> QED BY <2>3, <2>4
<1>6. ASSUME NEW t \in Slots, Settle(t)
      PROVE  Active(s)' /\ Chat(s)' = c
  <2>1. Chat(t) \in Chats /\ lock[Chat(t)] = t /\ lock' = [lock EXCEPT ![Chat(t)] = None]
    BY <1>6, SettleEnds
  <2>2. c # Chat(t) /\ lock[c] = s
    BY <1>1, <2>1 DEF IInv, TypeOK
  <2>3. Active(s) /\ Chat(s) = c /\ s # t
    BY <1>2, <2>2
  <2>4. work'[s] = work[s]
    BY <1>1, <1>6, <2>3, SettleEnds
  <2> QED BY <1>3, <2>3, <2>4
<1>7. ASSUME NEW w \in Workers, Handle(w)
      PROVE  Active(s)' /\ Chat(s)' = c
  <2>1. lock' = lock /\ Active(w)' /\ Chat(w)' = Chat(w) /\ \A v \in Workers \ {w}: work'[v] = work[v]
    BY <1>7, HandleStays
  <2>2. Active(s) /\ Chat(s) = c
    BY <1>2, <2>1
  <2>3. CASE s = w
    BY <2>1, <2>2, <2>3
  <2>4. CASE s # w
    BY <1>1, <1>3, <2>1, <2>2, <2>4
  <2> QED BY <2>3, <2>4
<1>8. CASE (\E r \in Replayers: Replay(r)) \/ Cleanup \/ UNCHANGED vars
  <2>1. /\ lock' = lock
        /\ At(s, "queued")' <=> At(s, "queued")
        /\ work'[s] = None <=> work[s] = None
        /\ work[s] # None => Chat(s)' = Chat(s)
    BY <1>8, OperatorsAside
  <2>2. Active(s) /\ Chat(s) = c
    BY <1>2, <2>1
  <2> QED BY <2>1, <2>2 DEF Active
<1>9. CASE Crash
  BY <1>1, <1>9 DEF Crash
<1> QED BY <1>4, <1>5, <1>6, <1>7, <1>8, <1>9 DEF Next

(* The lock of queue_chat_task is never left to a task that is gone.        *)
THEOREM LockIsHeld == Spec => []HeldInv
<1>1. Init => HeldInv
  BY ConstantsAssumption DEF Init, HeldInv
<1> QED BY <1>1, AlwaysIInv, NextHeldInv, PTL DEF Spec

(* The chat a task waits for.                                               *)
WaitsFor(s) == IF At(s, "queued") THEN Chat(s) ELSE None

(* A step that leaves what tasks wait for, and the locks, is a stutter of   *)
(* the queue.                                                               *)
LEMMA QueueStutters ==
  ASSUME lock' = lock, \A s \in Slots: WaitsFor(s)' = WaitsFor(s)
  PROVE  UNCHANGED Q!queueVars
BY DEF Q!queueVars, WaitsFor

(* A step that changes what one task waits for.                             *)
LEMMA QueueMoves ==
  ASSUME NEW t \in Slots, NEW x, WaitsFor(t)' = x,
         \A s \in Slots \ {t}: WaitsFor(s)' = WaitsFor(s)
  PROVE  [s \in Slots |-> WaitsFor(s)]' = [[s \in Slots |-> WaitsFor(s)] EXCEPT ![t] = x]
OBVIOUS

(* A delivery puts a task behind the lock, or changes nothing there.        *)
LEMMA DispatchIsEnqueue ==
  ASSUME IInv, HeldInv, NEW t \in Slots, NEW e \in Events, Dispatch(t, e)
  PROVE  [Q!Next]_(Q!queueVars)
<1>1. /\ lock' = lock /\ work[t] = None /\ \A v \in Workers \ {t}: work'[v] = work[v]
      /\ work'[t] = None \/ (At(t, "queued")' /\ Chat(t)' = ChatOf[e])
  BY DispatchEnqueues
<1>2. \A s \in Slots \ {t}: WaitsFor(s)' = WaitsFor(s)
  BY <1>1 DEF WaitsFor, At, Chat, Workers
<1>3. WaitsFor(t) = None
  BY <1>1 DEF WaitsFor, At
<1>4. CASE work'[t] = None
  <2>1. WaitsFor(t)' = None
    BY <1>4 DEF WaitsFor, At
  <2> QED BY <1>1, <1>2, <1>3, <2>1, QueueStutters
<1>5. CASE At(t, "queued")' /\ Chat(t)' = ChatOf[e]
  <2>1. WaitsFor(t)' = ChatOf[e]
    BY <1>5 DEF WaitsFor
  <2>2. \A d \in Chats: lock[d] # t
    BY <1>1 DEF HeldInv, Active
  <2>3. ChatOf[e] \in Chats
    BY ConstantsAssumption
  <2>4. Q!Enqueue(t, ChatOf[e])
    BY <1>1, <1>2, <1>3, <2>1, <2>2, QueueMoves DEF Q!Enqueue, WaitsFor
  <2> QED BY <2>3, <2>4 DEF Q!Next
<1> QED BY <1>1, <1>4, <1>5

(* A task that gets the lock begins its turn.                               *)
LEMMA AcquireIsBegin ==
  ASSUME IInv, NEW t \in Slots, Acquire(t)
  PROVE  Q!Next
<1>1. /\ At(t, "queued") /\ Chat(t) \in Chats /\ lock[Chat(t)] = None
      /\ lock' = [lock EXCEPT ![Chat(t)] = t]
      /\ Active(t)' /\ \A v \in Workers \ {t}: work'[v] = work[v]
  BY AcquireBegins
<1>2. \A s \in Slots \ {t}: WaitsFor(s)' = WaitsFor(s)
  BY <1>1 DEF WaitsFor, At, Chat, Workers
<1>3. WaitsFor(t) = Chat(t) /\ WaitsFor(t)' = None
  BY <1>1 DEF WaitsFor, Active
<1>4. Q!Begin(t, Chat(t))
  BY <1>1, <1>2, <1>3, QueueMoves DEF Q!Begin, WaitsFor
<1> QED BY <1>1, <1>4 DEF Q!Next

(* A task that settles ends its turn.                                       *)
LEMMA SettleIsEnd ==
  ASSUME IInv, NEW t \in Slots, Settle(t)
  PROVE  Q!Next
<1>1. /\ Active(t) /\ Chat(t) \in Chats /\ lock[Chat(t)] = t
      /\ lock' = [lock EXCEPT ![Chat(t)] = None]
      /\ work'[t] = None /\ \A v \in Workers \ {t}: work'[v] = work[v]
  BY SettleEnds
<1>2. \A s \in Slots: WaitsFor(s)' = WaitsFor(s)
  BY <1>1 DEF WaitsFor, Active, At, Chat, Workers
<1>3. Q!End(t, Chat(t))
  BY <1>1, <1>2 DEF Q!End, WaitsFor
<1> QED BY <1>1, <1>3 DEF Q!Next

(* The queues of the chats are what queue_chat_task promises: every task    *)
(* has its chat to itself from its turn to its end, and leaves it then.     *)
THEOREM ImplementsQueue == Spec => QueueSpec
<1>1. Init => Q!Init
  BY DEF Init, Q!Init, At, Workers
<1>2. ASSUME IInv, HeldInv, [Next]_vars
      PROVE  [Q!Next]_(Q!queueVars)
  <2>1. ASSUME NEW w \in Workers, Handle(w)
        PROVE  UNCHANGED Q!queueVars
    <3>1. /\ Active(w) /\ Active(w)' /\ lock' = lock
          /\ \A v \in Workers \ {w}: work'[v] = work[v]
      BY <1>2, <2>1, HandleStays
    <3>2. \A s \in Slots: WaitsFor(s)' = WaitsFor(s)
      BY <3>1 DEF WaitsFor, Active, At, Chat, Workers
    <3> QED BY <3>1, <3>2, QueueStutters
  <2>2. CASE (\E r \in Replayers: Replay(r)) \/ Cleanup \/ UNCHANGED vars
    <3>1. /\ lock' = lock
          /\ \A s \in Slots: /\ At(s, "queued")' <=> At(s, "queued")
                             /\ work[s] # None => Chat(s)' = Chat(s)
      BY <1>2, <2>2, OperatorsAside
    <3>2. \A s \in Slots: WaitsFor(s)' = WaitsFor(s)
      BY <3>1 DEF WaitsFor, At
    <3> QED BY <3>1, <3>2, QueueStutters
  <2>3. CASE Crash
    <3>1. lock' = [c \in Chats |-> None] /\ \A s \in Slots: work'[s] = None
      BY <2>3 DEF Crash, Workers
    <3>2. Q!Forget
      BY <3>1 DEF Q!Forget, At
    <3> QED BY <3>2 DEF Q!Next
  <2> QED BY <1>2, <2>1, <2>2, <2>3, DispatchIsEnqueue, AcquireIsBegin, SettleIsEnd DEF Next
<1> QED BY <1>1, <1>2, AlwaysIInv, LockIsHeld, PTL DEF Spec, QueueSpec, Q!Spec
=============================================================================
