------------------------ MODULE MatrixDeliveryProofs ------------------------
(***************************************************************************)
(* Proofs about MatrixDelivery for any events, transactions and handlers,  *)
(* and any bounds.                                                         *)
(***************************************************************************)
EXTENDS MatrixDelivery, FiniteSetTheorems, TLAPS

Part == [event: Messages, part: {"text", "attachment"}]

Done == processed \cup unsent

Redactable(e) == \E r \in Redactions: Target[r] = e

Recalled(e) == TextsOf(e) # {} /\ TextsOf(e) \subseteq removed

(* What is true of an event that was handled to the end. *)
MessageSettled(e) ==
  e \in Messages \ unsent =>
    /\ PostsOf(e) # {}
    /\ e \in Text => TextsOf(e) # {} /\ (mapping[e] # 0 \/ Recalled(e))
    /\ mapping[e] # 0 \/ Redactable(e)

RedactionSettled(r) ==
  r \in Redactions \ unsent /\ Target[r] \in Text \ unsent => Recalled(Target[r])

EditSettled(e) ==
  e \in Edits \ unsent /\ Target[e] \notin unsent /\ ~ Redactable(Target[e])
    => \E i \in DOMAIN edits: edits[i] = e

Settled(e) == MessageSettled(e) /\ RedactionSettled(e) /\ EditSettled(e)

(* Index i of the chat is a post of event e, of its text if it has one. *)
StandsFor(i, e) == i \in PostsOf(e) /\ (e \in Text => i \in TextsOf(e))

(* What a handler relies on at each of its steps. *)
Entitled(h) ==
  /\ work[h].txn <= next
  /\ \A a \in 1..(work[h].pos - 1): Txns[work[h].txn][a] \in Done
  /\ At(h, "answer") => work[h].pos = Len(Txns[work[h].txn]) /\ Current(h) \in Done
  /\ At(h, "check") \/ At(h, "policy") \/ At(h, "dedupe") => work[h].msg = 0
  /\ At(h, "policy") \/ At(h, "dedupe") => Current(h) \notin Redactions
  /\ At(h, "text") => Current(h) \in Text
  /\ At(h, "attachment") => Current(h) \in Attached
  /\ At(h, "record") => Current(h) \in Messages
  /\ At(h, "edit") => Current(h) \in Edits
  /\ At(h, "recall") \/ At(h, "unmap") => Current(h) \in Redactions
  /\ At(h, "attachment") =>
       (IF Current(h) \in Text THEN StandsFor(work[h].msg, Current(h)) ELSE work[h].msg = 0)
  /\ At(h, "record") => StandsFor(work[h].msg, Current(h))
  /\ At(h, "unmap") =>
       /\ work[h].msg \in removed
       /\ Target[Current(h)] \in Text => work[h].msg \in TextsOf(Target[Current(h)])
  /\ At(h, "unmap") \/ At(h, "mark") => Settled(Current(h))

HandlersInv == \A h \in Handlers: work[h] # None => Entitled(h)

ProcessedInv == \A e \in processed: Settled(e)

MappingInv == \A e \in Messages: mapping[e] # 0 => StandsFor(mapping[e], e)

(* No text is in the chat twice. *)
ChatInv ==
  /\ chat \in Seq(Part)
  /\ \A i, j \in DOMAIN chat:
       chat[i].part = "text" /\ chat[j].part = "text" /\ chat[i].event = chat[j].event => i = j

(* What comes before an edit in the room came before it in the chat. *)
EditsInv ==
  \A j \in DOMAIN edits: \A f \in Edits:
    /\ Before(f, edits[j])
    /\ {f, Target[f]} \cap unsent = {} /\ ~ Redactable(Target[f])
    => \E k \in 1..(j - 1): edits[k] = f

WorkOK ==
  /\ work \in [Handlers -> Work \cup {None}]
  /\ \A h \in Handlers: work[h] # None => work[h].pos \in DOMAIN Txns[work[h].txn]

IInv ==
  /\ TypeOK /\ HandlersInv /\ ProcessedInv /\ MappingInv /\ ChatInv /\ EditsInv
  /\ RoomOrder /\ LossIsFailure

-----------------------------------------------------------------------------
(* What is at a handler's place. *)
LEMMA CurrentFacts ==
  ASSUME TypeOK, NEW h \in Handlers, work[h] # None
  PROVE  /\ work[h] \in Work /\ work[h].txn \in 1..Len(Txns)
         /\ work[h].pos \in 1..Len(Txns[work[h].txn]) /\ work[h].pos \in Nat
         /\ Txns[work[h].txn] \in Seq(Events) /\ Len(Txns[work[h].txn]) \in Nat
         /\ Current(h) \in Events
<1>1. /\ work[h] \in Work /\ work[h].txn \in 1..Len(Txns)
      /\ work[h].pos \in DOMAIN Txns[work[h].txn]
  BY DEF TypeOK, Work
<1>2. Txns[work[h].txn] \in Seq(Events)
  BY <1>1, ConstantsAssumption
<1> QED BY <1>1, <1>2 DEF Current

(* Whatever comes before the event a handler is at, is done. *)
LEMMA EarlierIsDone ==
  ASSUME IInv, NEW h \in Handlers, work[h] # None, NEW e, Before(e, Current(h))
  PROVE  e \in Done
<1> DEFINE t == work[h].txn
           p == work[h].pos
<1>1. t \in 1..Len(Txns) /\ p \in 1..Len(Txns[t]) /\ Current(h) = Txns[t][p]
  BY CurrentFacts DEF IInv, Current
<1>2. PICK i \in 1..Len(Txns), j \in 1..Len(Txns):
        \E a \in 1..Len(Txns[i]), b \in 1..Len(Txns[j]):
          /\ Txns[i][a] = e /\ Txns[j][b] = Current(h)
          /\ i < j \/ (i = j /\ a < b)
  BY DEF Before
<1>3. PICK a \in 1..Len(Txns[i]), b \in 1..Len(Txns[j]):
          /\ Txns[i][a] = e /\ Txns[j][b] = Current(h)
          /\ i < j \/ (i = j /\ a < b)
  BY <1>2
<1>4. j = t /\ b = p
  BY <1>1, <1>3, OrderAssumption
<1>5. Entitled(h) /\ next \in Nat /\ Len(Txns) \in Nat
  BY ConstantsAssumption DEF IInv, HandlersInv, TypeOK
<1>6. CASE i < t
  <2>1. i \in 1..(next - 1)
    BY <1>1, <1>5, <1>6 DEF Entitled
  <2> QED BY <1>3, <2>1 DEF IInv, LossIsFailure, Done
<1>7. CASE i = t /\ a < p
  <2>1. Len(Txns[t]) \in Nat
    BY CurrentFacts DEF IInv
  <2>2. a \in 1..(p - 1)
    BY <1>1, <1>3, <1>7, <2>1
  <2> QED BY <1>3, <1>5, <1>7, <2>2 DEF Entitled
<1> QED BY <1>3, <1>4, <1>6, <1>7

(* The state the program starts in satisfies the invariant. *)
LEMMA InitIInv == Init => IInv
<1> SUFFICES ASSUME Init PROVE IInv
  OBVIOUS
<1>1. TypeOK /\ ChatInv
  BY ConstantsAssumption DEF Init, TypeOK, ChatInv, Part
<1>2. HandlersInv /\ ProcessedInv /\ MappingInv /\ EditsInv /\ LossIsFailure
  BY DEF Init, HandlersInv, ProcessedInv, MappingInv, EditsInv, LossIsFailure
<1>3. RoomOrder
  BY DEF Init, RoomOrder, PostsOf
<1> QED BY <1>1, <1>2, <1>3 DEF IInv

-----------------------------------------------------------------------------
(* What every step does: the chat and its edits are only appended to, no   *)
(* text is sent that is there already, and a mapping goes only when its    *)
(* message is recalled.                                                    *)
Grows ==
  /\ DOMAIN chat \subseteq DOMAIN chat' /\ \A i \in DOMAIN chat: chat'[i] = chat[i]
  /\ \A e \in Text: TextsOf(e) # {} => TextsOf(e)' \subseteq TextsOf(e)
  /\ removed \subseteq removed'
  /\ DOMAIN edits \subseteq DOMAIN edits' /\ \A i \in DOMAIN edits: edits'[i] = edits[i]
  /\ processed \subseteq processed' /\ unsent \subseteq unsent'
  /\ \A e \in Messages: mapping[e] # 0 =>
       mapping'[e] # 0 \/ (Redactable(e) /\ (e \in Text => Recalled(e)'))

(* A post remains a post. *)
LEMMA PostsStay ==
  ASSUME Grows, NEW e
  PROVE  /\ PostsOf(e) \subseteq PostsOf(e)' /\ TextsOf(e) \subseteq TextsOf(e)'
         /\ \A i: StandsFor(i, e) => StandsFor(i, e)'
<1>1. PostsOf(e) \subseteq PostsOf(e)'
  BY DEF Grows, PostsOf
<1>2. TextsOf(e) \subseteq TextsOf(e)'
  BY <1>1 DEF Grows, PostsOf, TextsOf
<1> QED BY <1>1, <1>2 DEF StandsFor

(* What was recalled stays recalled, and what was settled stays settled. *)
LEMMA SettledStays ==
  ASSUME Grows, NEW e
  PROVE  /\ e \in Text /\ Recalled(e) => Recalled(e)'
         /\ Settled(e) => Settled(e)'
<1>1. ASSUME NEW f \in Text, Recalled(f) PROVE Recalled(f)'
  <2>1. TextsOf(f)' = TextsOf(f)
    BY <1>1, PostsStay DEF Grows, Recalled
  <2> QED BY <1>1, <2>1 DEF Recalled, Grows
<1>2. MessageSettled(e) => MessageSettled(e)'
  <2> SUFFICES ASSUME MessageSettled(e), e \in Messages \ unsent'
               PROVE  /\ PostsOf(e)' # {}
                      /\ e \in Text => TextsOf(e)' # {} /\ (mapping'[e] # 0 \/ Recalled(e)')
                      /\ mapping'[e] # 0 \/ Redactable(e)
    BY DEF MessageSettled, Redactable
  <2>1. e \in Messages \ unsent
    BY DEF Grows
  <2>2. /\ PostsOf(e) # {}
        /\ e \in Text => TextsOf(e) # {} /\ (mapping[e] # 0 \/ Recalled(e))
        /\ mapping[e] # 0 \/ Redactable(e)
    BY <2>1 DEF MessageSettled
  <2>3. PostsOf(e)' # {} /\ (e \in Text => TextsOf(e)' # {})
    BY <2>2, PostsStay
  <2>4. mapping[e] # 0 => mapping'[e] # 0 \/ (Redactable(e) /\ (e \in Text => Recalled(e)'))
    BY <2>1 DEF Grows
  <2> QED BY <1>1, <2>2, <2>3, <2>4
<1>3. RedactionSettled(e) => RedactionSettled(e)'
  BY <1>1 DEF RedactionSettled, Grows
<1>4. EditSettled(e) => EditSettled(e)'
  BY DEF EditSettled, Grows, Redactable
<1> QED BY <1>1, <1>2, <1>3, <1>4 DEF Settled

(* A step of one handler keeps the invariant if the handler is entitled to *)
(* what comes next, and what it adds is right.                             *)
LEMMA StepIInv ==
  ASSUME IInv, NEW h \in Handlers, work[h] # None, Grows,
         TypeOK', MappingInv', ChatInv', EditsInv', RoomOrder', next' = next,
         processed' \subseteq processed \cup {Current(h)},
         Current(h) \in processed' \ processed => Settled(Current(h)),
         \A g \in Handlers \ {h}: work'[g] = work[g],
         work'[h] = None \/ Entitled(h)'
  PROVE  IInv'
<1>1. Done \subseteq Done'
  BY DEF Grows, Done
<1>2. ASSUME NEW g \in Handlers, g # h, work'[g] # None PROVE Entitled(g)'
  <2>1. work'[g] = work[g] /\ Entitled(g) /\ Current(g)' = Current(g)
    BY <1>2 DEF IInv, HandlersInv, Current
  <2>2. \A pc: At(g, pc)' <=> At(g, pc)
    BY <2>1 DEF At
  <2>3. \A i: StandsFor(i, Current(g)) => StandsFor(i, Current(g))'
    BY <2>1, PostsStay DEF StandsFor
  <2>4. Settled(Current(g)) => Settled(Current(g))'
    <3> PICK c: c = Current(g)
      OBVIOUS
    <3>1. Settled(c) => Settled(c)'
      BY SettledStays
    <3>2. Current(g)' = c
      BY <2>1
    <3> QED BY <3>1, <3>2
  <2>5. TextsOf(Target[Current(g)]) \subseteq TextsOf(Target[Current(g)])'
    <3> PICK c: c = Target[Current(g)]
      OBVIOUS
    <3>1. TextsOf(c) \subseteq TextsOf(c)'
      BY PostsStay
    <3> QED BY <2>1, <3>1
  <2>6. removed \subseteq removed'
    BY DEF Grows
  <2> QED BY <1>1, <2>1, <2>2, <2>3, <2>4, <2>5, <2>6 DEF Entitled
<1>3. HandlersInv'
  BY <1>2 DEF HandlersInv
<1>4. ProcessedInv'
  BY SettledStays DEF IInv, ProcessedInv
<1>5. LossIsFailure'
  BY <1>1 DEF IInv, LossIsFailure, Done
<1> QED BY <1>3, <1>4, <1>5 DEF IInv

(* A step that leaves the mappings and the chat alone. *)
LEMMA QuietIInv ==
  ASSUME IInv, NEW h \in Handlers, work[h] # None, UNCHANGED <<mapping, Feishu, next>>,
         WorkOK', processed \subseteq processed', unsent \subseteq unsent',
         unsent' \subseteq Events,
         processed' \subseteq processed \cup {Current(h)},
         Current(h) \in processed' \ processed => Settled(Current(h)),
         \A g \in Handlers \ {h}: work'[g] = work[g],
         work'[h] = None \/ Entitled(h)'
  PROVE  IInv'
<1>1. UNCHANGED <<mapping, chat, removed, edits, next>>
  BY DEF Feishu
<1>2. Grows
  BY <1>1 DEF Grows, TextsOf, PostsOf
<1>3. TypeOK'
  BY <1>1, CurrentFacts DEF IInv, TypeOK, WorkOK
<1>4. MappingInv' /\ ChatInv' /\ RoomOrder' /\ EditsInv'
  BY <1>1 DEF IInv, MappingInv, ChatInv, RoomOrder, EditsInv, StandsFor, TextsOf, PostsOf, Redactable
<1> QED BY <1>1, <1>2, <1>3, <1>4, StepIInv

(* A handler goes on to another step of the same event. *)
LEMMA MoveFacts ==
  ASSUME TypeOK, NEW h \in Handlers, work[h] # None, NEW t \in Work,
         t.txn = work[h].txn, t.pos = work[h].pos, work' = [work EXCEPT ![h] = t]
  PROVE  /\ WorkOK' /\ \A g \in Handlers \ {h}: work'[g] = work[g]
         /\ work'[h] # None /\ work'[h] = t
         /\ work'[h].txn = work[h].txn /\ work'[h].pos = work[h].pos
         /\ Current(h)' = Current(h)
<1>1. t # None
  BY NoneAssumption
<1>2. work'[h] = t /\ \A g \in Handlers \ {h}: work'[g] = work[g]
  BY DEF TypeOK
<1> QED BY <1>1, <1>2 DEF TypeOK, WorkOK, Current

(* The same for a change of its step and its message. *)
LEMMA GotoFacts ==
  ASSUME TypeOK, NEW h \in Handlers, work[h] # None, NEW pc \in Steps, NEW n \in 0..MaxSends,
         work' = [work EXCEPT ![h] = [@ EXCEPT !.pc = pc, !.msg = n]]
  PROVE  /\ WorkOK' /\ \A g \in Handlers \ {h}: work'[g] = work[g]
         /\ work'[h] # None /\ work'[h].pc = pc /\ work'[h].msg = n
         /\ work'[h].txn = work[h].txn /\ work'[h].pos = work[h].pos
         /\ Current(h)' = Current(h)
<1> PICK t: t = [work[h] EXCEPT !.pc = pc, !.msg = n]
  OBVIOUS
<1>1. t \in Work /\ t.pc = pc /\ t.msg = n /\ t.txn = work[h].txn /\ t.pos = work[h].pos
  BY DEF TypeOK, Work
<1>2. work' = [work EXCEPT ![h] = t]
  OBVIOUS
<1> QED BY <1>1, <1>2, MoveFacts

(* What Goto and the other ways to write it do. *)
LEMMA GotoIs ==
  ASSUME TypeOK, NEW h \in Handlers, work[h] # None, NEW pc \in Steps
  PROVE  /\ Goto(h, pc) => work' = [work EXCEPT ![h] = [@ EXCEPT !.pc = pc, !.msg = work[h].msg]]
         /\ work[h].msg \in 0..MaxSends
<1>1. work[h] \in Work
  BY DEF TypeOK
<1>2. [work[h] EXCEPT !.pc = pc] = [work[h] EXCEPT !.pc = pc, !.msg = work[h].msg]
  BY <1>1 DEF Work
<1> QED BY <1>1, <1>2 DEF Goto, Work

(* What a handler keeps when it goes on to another step of its event. *)
LEMMA SameEvent ==
  ASSUME IInv, NEW h \in Handlers, work[h] # None, work'[h] # None,
         work'[h].txn = work[h].txn, work'[h].pos = work[h].pos,
         next' = next, processed \subseteq processed', unsent \subseteq unsent'
  PROVE  /\ work'[h].txn <= next'
         /\ \A a \in 1..(work'[h].pos - 1): Txns[work'[h].txn][a] \in Done'
BY DEF IInv, HandlersInv, Entitled, Done

(* The event a handler leaves behind is done. *)
LEMMA AdvanceFacts ==
  ASSUME IInv, NEW h \in Handlers, work[h] # None, Advance(h), next' = next,
         processed \subseteq processed', unsent \subseteq unsent', Current(h) \in Done'
  PROVE  /\ WorkOK' /\ \A g \in Handlers \ {h}: work'[g] = work[g]
         /\ Entitled(h)'
<1> DEFINE t == work[h].txn
           p == work[h].pos
           n == Len(Txns[t])
           u == IF p = n THEN [work[h] EXCEPT !.pc = "answer"]
                ELSE [work[h] EXCEPT !.pos = p + 1, !.pc = "check", !.msg = 0]
<1>1. /\ work[h] \in Work /\ t \in 1..Len(Txns) /\ p \in 1..n /\ p \in Nat /\ n \in Nat
      /\ DOMAIN Txns[t] = 1..n
  BY CurrentFacts DEF IInv
<1>2. /\ u \in Work /\ u.txn = t
      /\ \/ p = n /\ u.pc = "answer" /\ u.pos = p
         \/ p < n /\ u.pc = "check" /\ u.pos = p + 1 /\ u.msg = 0
  <2>1. CASE p = n
    <3>1. u = [work[h] EXCEPT !.pc = "answer"]
      BY <2>1
    <3> QED BY <1>1, <2>1, <3>1 DEF Work, Steps
  <2>2. CASE p # n
    <3>1. u = [work[h] EXCEPT !.pos = p + 1, !.pc = "check", !.msg = 0]
      BY <2>2
    <3>2. p < n /\ p + 1 \in Nat /\ 0 \in 0..MaxSends
      BY <1>1, <2>2, ConstantsAssumption
    <3> QED BY <1>1, <3>1, <3>2 DEF Work, Steps
  <2> QED BY <2>1, <2>2
<1>3. u # None
  BY <1>2, NoneAssumption
<1>4. work' = [work EXCEPT ![h] = u]
  BY DEF Advance
<1> HIDE DEF u
<1>5. work'[h] = u /\ \A g \in Handlers \ {h}: work'[g] = work[g]
  BY <1>4 DEF IInv, TypeOK
<1>6. WorkOK'
  <2>1. u.pos \in DOMAIN Txns[u.txn]
    BY <1>1, <1>2
  <2> QED BY <1>2, <1>4, <1>5, <2>1 DEF IInv, TypeOK, WorkOK
<1>7. t <= next /\ \A a \in 1..(p - 1): Txns[t][a] \in Done
  BY DEF IInv, HandlersInv, Entitled
<1>8. Done \subseteq Done' /\ Txns[t][p] \in Done'
  BY DEF Done, Current
<1>9. \A a \in 1..(u.pos - 1): Txns[t][a] \in Done'
  BY <1>1, <1>2, <1>7, <1>8
<1>10. u.pc = "answer" => u.pos = Len(Txns[u.txn]) /\ Txns[u.txn][u.pos] \in Done'
  BY <1>1, <1>2, <1>8
<1> QED BY <1>2, <1>3, <1>5, <1>6, <1>7, <1>9, <1>10 DEF Entitled, At, Current

-----------------------------------------------------------------------------
(* A handler that is done with its event, having changed nothing else. *)
LEMMA AdvanceIInv ==
  ASSUME IInv, NEW h \in Handlers, work[h] # None, Advance(h),
         UNCHANGED <<mapping, Feishu, next>>,
         processed \subseteq processed', processed' \subseteq processed \cup {Current(h)},
         unsent \subseteq unsent', unsent' \subseteq unsent \cup {Current(h)},
         Current(h) \in Done',
         Current(h) \in processed' \ processed => Settled(Current(h))
  PROVE  IInv'
<1>1. /\ WorkOK' /\ \A g \in Handlers \ {h}: work'[g] = work[g]
      /\ Entitled(h)'
  BY AdvanceFacts
<1>2. unsent' \subseteq Events
  BY CurrentFacts DEF IInv, TypeOK
<1> QED BY <1>1, <1>2, QuietIInv

(* A handler that goes on to a step it is entitled to. *)
LEMMA GotoIInv ==
  ASSUME IInv, NEW h \in Handlers, work[h] # None,
         NEW pc \in Steps \ {"check", "unmap", "answer"}, Goto(h, pc),
         UNCHANGED <<Bridge, Feishu, next>>,
         unsent \subseteq unsent', unsent' \subseteq unsent \cup {Current(h)},
         pc \in {"policy", "dedupe"} => Current(h) \notin Redactions /\ work[h].msg = 0,
         pc = "text" => Current(h) \in Text,
         pc = "attachment" => Current(h) \in Attached \ Text /\ work[h].msg = 0,
         pc = "record" => Current(h) \in Messages /\ StandsFor(work[h].msg, Current(h)),
         pc = "edit" => Current(h) \in Edits,
         pc = "recall" => Current(h) \in Redactions,
         pc = "mark" => Current(h) \in unsent' \/ Settled(Current(h))
  PROVE  IInv'
<1>1. work' = [work EXCEPT ![h] = [@ EXCEPT !.pc = pc, !.msg = work[h].msg]]
      /\ work[h].msg \in 0..MaxSends
  BY GotoIs DEF IInv
<1>2. /\ WorkOK' /\ \A g \in Handlers \ {h}: work'[g] = work[g]
      /\ work'[h] # None /\ work'[h].pc = pc /\ work'[h].msg = work[h].msg
      /\ work'[h].txn = work[h].txn /\ work'[h].pos = work[h].pos
      /\ Current(h)' = Current(h)
  BY <1>1, GotoFacts DEF IInv
<1>3. UNCHANGED <<processed, mapping, chat, removed, edits, next>>
  BY DEF Bridge, Feishu
<1>4. /\ work'[h].txn <= next'
      /\ \A a \in 1..(work'[h].pos - 1): Txns[work'[h].txn][a] \in Done'
  BY <1>2, <1>3, SameEvent
<1> PICK c: c = Current(h)
  OBVIOUS
<1>5. StandsFor(work[h].msg, c) => StandsFor(work[h].msg, c)'
  <2> PICK i: i = work[h].msg
    OBVIOUS
  <2>1. StandsFor(i, c) => StandsFor(i, c)'
    BY <1>3 DEF StandsFor, TextsOf, PostsOf
  <2>2. work'[h].msg = i
    BY <1>2
  <2> QED BY <2>1, <2>2
<1>6. c \in unsent' \/ Settled(c) => Settled(c)'
  BY <1>3 DEF Settled, MessageSettled, RedactionSettled, EditSettled, Recalled, Redactable, PostsOf, TextsOf
<1>7. Entitled(h)'
  BY <1>2, <1>4, <1>5, <1>6 DEF Entitled, At
<1>8. unsent' \subseteq Events
  BY CurrentFacts DEF IInv, TypeOK
<1> QED BY <1>2, <1>3, <1>7, <1>8, QuietIInv

(* What is known of a handler at a step. *)
LEMMA AtFacts ==
  ASSUME IInv, NEW h \in Handlers, NEW pc, At(h, pc)
  PROVE  /\ work[h] # None /\ work[h].pc = pc /\ Entitled(h) /\ Current(h) \in Events
         /\ \A q: At(h, q) <=> q = pc
BY CurrentFacts DEF IInv, HandlersInv, At

(* An event that failed is done for this time. *)
LEMMA FailsIInv ==
  ASSUME IInv, NEW h \in Handlers,
         EventFails(h) \/ MarkFails(h) \/ TextFails(h) \/ Dropped(h) \/ RecordFails(h)
  PROVE  IInv'
<1>1. /\ work[h] # None
      /\ UNCHANGED <<Bridge, Feishu, next>> /\ unsent' = unsent \cup {Current(h)}
      /\ Advance(h) \/ Goto(h, "mark")
  BY DEF EventFails, MarkFails, TextFails, Dropped, RecordFails, AfterFailure, At, GiveUp
<1>2. UNCHANGED <<processed, mapping>>
  BY <1>1 DEF Bridge
<1>3. CASE Advance(h)
  BY <1>1, <1>2, <1>3, AdvanceIInv DEF Done
<1>4. CASE Goto(h, "mark")
  <2>1. "mark" \in Steps \ {"check", "unmap", "answer"}
    BY DEF Steps
  <2> QED BY <1>1, <1>4, <2>1, GotoIInv
<1> QED BY <1>1, <1>3, <1>4

(* The first steps of an event. *)
LEMMA CheckIInv ==
  ASSUME IInv, NEW h \in Handlers, Check(h) \/ Allowed(h)
  PROVE  IInv'
<1>1. /\ work[h] # None /\ Entitled(h) /\ UNCHANGED <<Bridge, Feishu, next, unsent>>
      /\ UNCHANGED <<processed, mapping>>
  BY AtFacts DEF Check, Allowed, Bridge
<1>2. CASE Check(h) /\ Current(h) \in processed
  BY <1>1, <1>2, AdvanceIInv DEF Check, Done
<1>3. CASE Check(h) /\ work' = [work EXCEPT ![h] = None]
  <2>1. work'[h] = None /\ \A g \in Handlers \ {h}: work'[g] = work[g]
    BY <1>3 DEF IInv, TypeOK
  <2>2. WorkOK'
    BY <1>3, <2>1 DEF IInv, TypeOK, WorkOK
  <2> QED BY <1>1, <2>1, <2>2, QuietIInv DEF IInv, TypeOK
<1>4. ASSUME NEW pc \in {"policy", "recall"}, Goto(h, pc), At(h, "check"),
             pc = "recall" <=> Current(h) \in Redactions
      PROVE  IInv'
  <2>1. pc \in Steps \ {"check", "unmap", "answer"}
    BY DEF Steps
  <2>2. work[h].msg = 0
    BY <1>1, <1>4 DEF Entitled
  <2> QED BY <1>1, <1>4, <2>1, <2>2, GotoIInv
<1>5. CASE Allowed(h)
  <2>1. "dedupe" \in Steps \ {"check", "unmap", "answer"}
    BY DEF Steps
  <2>2. Current(h) \notin Redactions /\ work[h].msg = 0 /\ Goto(h, "dedupe")
    BY <1>1, <1>5 DEF Entitled, Allowed
  <2> QED BY <1>1, <2>1, <2>2, GotoIInv
<1>6. CASE Check(h)
  BY <1>2, <1>3, <1>4, <1>6 DEF Check
<1> QED BY <1>5, <1>6

(* A message that is mapped was sent. *)
LEMMA DedupeIInv ==
  ASSUME IInv, NEW h \in Handlers, Dedupe(h) \/ DedupeEdit(h)
  PROVE  IInv'
<1>1. /\ work[h] # None /\ Entitled(h) /\ At(h, "dedupe") /\ work[h].msg = 0
      /\ UNCHANGED <<Bridge, Feishu, next, unsent>>
  BY AtFacts DEF Dedupe, DedupeEdit, Entitled
<1>2. CASE DedupeEdit(h)
  <2>1. "edit" \in Steps \ {"check", "unmap", "answer"} /\ Current(h) \in Edits /\ Goto(h, "edit")
    BY <1>2 DEF Steps, DedupeEdit
  <2> QED BY <1>1, <2>1, GotoIInv
<1>3. CASE Dedupe(h) /\ mapping[Current(h)] # 0
  <2>1. "mark" \in Steps \ {"check", "unmap", "answer"} /\ Goto(h, "mark") /\ Current(h) \in Messages
    BY <1>3 DEF Steps, Dedupe
  <2>2. StandsFor(mapping[Current(h)], Current(h))
    BY <1>3, <2>1 DEF IInv, MappingInv
  <2>3. Settled(Current(h))
    BY <1>3, <2>1, <2>2, ConstantsAssumption
       DEF Settled, MessageSettled, RedactionSettled, EditSettled, StandsFor
  <2> QED BY <1>1, <2>1, <2>3, GotoIInv
<1>4. CASE Dedupe(h) /\ mapping[Current(h)] = 0 /\ Current(h) \in Text
  <2>1. "text" \in Steps \ {"check", "unmap", "answer"} /\ Goto(h, "text")
    BY <1>4 DEF Steps, Dedupe
  <2> QED BY <1>1, <1>4, <2>1, GotoIInv
<1>5. CASE Dedupe(h) /\ mapping[Current(h)] = 0 /\ Current(h) \notin Text
  <2>1. "attachment" \in Steps \ {"check", "unmap", "answer"} /\ Goto(h, "attachment")
        /\ Current(h) \in Attached
    BY <1>5 DEF Steps, Dedupe, Messages
  <2> QED BY <1>1, <1>5, <2>1, GotoIInv
<1> QED BY <1>2, <1>3, <1>4, <1>5

(* Without the attachment, the text stands for the message. *)
LEMMA AttachmentFailsIInv ==
  ASSUME IInv, NEW h \in Handlers, AttachmentFails(h)
  PROVE  IInv'
<1>1. /\ work[h] # None /\ Entitled(h) /\ At(h, "attachment")
      /\ UNCHANGED <<Bridge, Feishu, next>> /\ unsent' = unsent \cup {Current(h)}
  BY AtFacts DEF AttachmentFails, GiveUp
<1>2. CASE work[h].msg = 0
  <2>1. "mark" \in Steps \ {"check", "unmap", "answer"} /\ Goto(h, "mark")
    BY <1>2 DEF Steps, AttachmentFails
  <2> QED BY <1>1, <2>1, GotoIInv
<1>3. CASE work[h].msg # 0
  <2>1. "record" \in Steps \ {"check", "unmap", "answer"} /\ Goto(h, "record")
    BY <1>3 DEF Steps, AttachmentFails
  <2>2. Current(h) \in Messages /\ StandsFor(work[h].msg, Current(h))
    BY <1>1, <1>3 DEF Entitled, Messages
  <2> QED BY <1>1, <2>1, <2>2, GotoIInv
<1> QED BY <1>2, <1>3

(* The message that a handled redaction or edit is about was handled before. *)
LEMMA TargetSettled ==
  ASSUME IInv, NEW h \in Handlers, work[h] # None, Current(h) \in Redactions \cup Edits,
         Target[Current(h)] \notin unsent
  PROVE  /\ MessageSettled(Target[Current(h)])
         /\ Target[Current(h)] \in Messages
<1>1. /\ work[h].txn \in 1..Len(Txns) /\ work[h].pos \in 1..Len(Txns[work[h].txn])
      /\ Current(h) = Txns[work[h].txn][work[h].pos]
  BY CurrentFacts DEF IInv, Current
<1>2. Before(Target[Current(h)], Current(h))
  BY <1>1, OrderAssumption
<1>3. Target[Current(h)] \in processed
  BY <1>2, EarlierIsDone DEF Done
<1> QED BY <1>3, ConstantsAssumption DEF IInv, ProcessedInv, Settled

(* A message that is not mapped was given up or recalled. *)
LEMMA NothingIInv ==
  ASSUME IInv, NEW h \in Handlers, NothingToEdit(h) \/ NothingToRecall(h)
  PROVE  IInv'
<1> DEFINE e == Current(h)
           m == Target[e]
<1>1. /\ work[h] # None /\ Entitled(h) /\ Goto(h, "mark") /\ mapping[m] = 0
      /\ At(h, "edit") \/ At(h, "recall")
      /\ UNCHANGED <<Bridge, Feishu, next, unsent>>
  BY AtFacts DEF NothingToEdit, NothingToRecall
<1>2. e \in Redactions \cup Edits /\ e \notin Messages
  BY <1>1, ConstantsAssumption DEF Entitled
<1>3. MessageSettled(e)
  BY <1>2 DEF MessageSettled
<1>4. m \notin unsent => /\ m \in Text => Recalled(m)
                         /\ Redactable(m)
  BY <1>1, <1>2, TargetSettled DEF MessageSettled, Messages
<1>5. RedactionSettled(e) /\ EditSettled(e)
  BY <1>4 DEF RedactionSettled, EditSettled
<1>6. "mark" \in Steps \ {"check", "unmap", "answer"}
  BY DEF Steps
<1> QED BY <1>1, <1>3, <1>5, <1>6, GotoIInv DEF Settled

(* A message is appended to the chat after all that comes before it, and a *)
(* text only if it is not there.                                           *)
LEMMA DeliveredFacts ==
  ASSUME IInv, NEW h \in Handlers, work[h] # None, NEW c \in Messages, c = Current(h),
         NEW part \in {"text", "attachment"}, Delivered(h, part),
         part = "text" => SeenByUuid(h) = {},
         UNCHANGED <<mapping, removed, edits, processed>>, unsent \subseteq unsent'
  PROVE  /\ Len(chat) + 1 \in 1..MaxSends /\ Len(chat) + 1 \in DOMAIN chat'
         /\ chat'[Len(chat) + 1].event = c /\ chat'[Len(chat) + 1].part = part
         /\ \A i \in DOMAIN chat': chat'[i] \in Part
         /\ Grows /\ ChatInv' /\ RoomOrder'
<1> PICK n: n = Len(chat) + 1
  OBVIOUS
<1>1. /\ chat \in Seq(Part) /\ n \in 1..MaxSends /\ DOMAIN chat = 1..(n - 1)
      /\ [event |-> c, part |-> part] \in Part
      /\ chat' = Append(chat, [event |-> c, part |-> part])
  BY ConstantsAssumption DEF IInv, ChatInv, Delivered, Part
<1>2. /\ chat' \in Seq(Part) /\ DOMAIN chat' = 1..n /\ chat'[n].event = c /\ chat'[n].part = part
      /\ \A i \in 1..(n - 1): chat'[i] = chat[i]
  BY <1>1
<1>3. \A i \in DOMAIN chat': chat'[i] \in Part
  BY <1>1, <1>2
<1>4. SeenByUuid(h) = TextsOf(c)
  <2>1. \A i \in DOMAIN chat: chat[i] = [event |-> c, part |-> "text"]
                                <=> chat[i].event = c /\ chat[i].part = "text"
    <3> SUFFICES ASSUME NEW i \in DOMAIN chat
                 PROVE  chat[i] = [event |-> c, part |-> "text"]
                          <=> chat[i].event = c /\ chat[i].part = "text"
      OBVIOUS
    <3>1. chat[i] \in Part
      BY <1>1
    <3> QED BY <3>1 DEF Part
  <2> QED BY <2>1 DEF SeenByUuid, TextsOf, PostsOf
<1>5. \A e: PostsOf(e)' = PostsOf(e) \cup (IF e = c THEN {n} ELSE {})
  <2> SUFFICES ASSUME NEW e PROVE PostsOf(e)' = PostsOf(e) \cup (IF e = c THEN {n} ELSE {})
    OBVIOUS
  <2>1. \A i: i \in PostsOf(e)' <=> i \in PostsOf(e) \/ (e = c /\ i = n)
    BY <1>1, <1>2 DEF PostsOf
  <2> QED BY <2>1
<1>6. \A e \in Text: TextsOf(e) # {} => TextsOf(e)' \subseteq TextsOf(e)
  <2> SUFFICES ASSUME NEW e \in Text, TextsOf(e) # {}, NEW i \in TextsOf(e)' PROVE i \in TextsOf(e)
    OBVIOUS
  <2>1. i \in PostsOf(e)' /\ chat'[i].part = "text"
    BY DEF TextsOf
  <2>2. i # n
    BY <1>2, <1>4, <2>1 DEF PostsOf
  <2>3. i \in PostsOf(e) /\ i \in 1..(n - 1)
    BY <1>1, <1>2, <2>1, <2>2 DEF PostsOf
  <2> QED BY <1>2, <2>1, <2>3 DEF TextsOf
<1>7. Grows
  BY <1>1, <1>2, <1>6 DEF Grows
<1>8. ChatInv'
  <2> SUFFICES ASSUME NEW i \in 1..n, NEW j \in 1..n, chat'[i].part = "text", chat'[j].part = "text",
                      chat'[i].event = chat'[j].event
               PROVE  i = j
    BY <1>2 DEF ChatInv
  <2>1. CASE i # n /\ j # n
    <3>1. i \in 1..(n - 1) /\ j \in 1..(n - 1)
      BY <1>1, <2>1
    <3> QED BY <1>1, <1>2, <3>1 DEF IInv, ChatInv
  <2>2. ASSUME NEW k \in 1..(n - 1), chat'[k].part = "text", chat'[n].part = "text",
               chat'[k].event = chat'[n].event
        PROVE  FALSE
    BY <1>1, <1>2, <1>4, <2>2 DEF TextsOf, PostsOf
  <2>3. CASE i = n /\ j # n
    <3>1. j \in 1..(n - 1)
      BY <1>1, <2>3
    <3> QED BY <2>2, <2>3, <3>1
  <2>4. CASE i # n /\ j = n
    <3>1. i \in 1..(n - 1)
      BY <1>1, <2>4
    <3> QED BY <2>2, <2>4, <3>1
  <2> QED BY <2>1, <2>3, <2>4
<1>9. RoomOrder'
  <2> SUFFICES ASSUME NEW e \in Messages, NEW f \in Messages, Before(e, f), e \notin unsent',
                      PostsOf(f)' # {}
               PROVE  \E i \in PostsOf(e)': \A j \in PostsOf(f)': i < j
    BY DEF RoomOrder
  <2>1. e \notin unsent /\ PostsOf(e) \subseteq PostsOf(e)' /\ PostsOf(e) \subseteq 1..(n - 1)
    BY <1>1, <1>5 DEF PostsOf
  <2>2. CASE f # c
    <3>1. PostsOf(f)' = PostsOf(f)
      BY <1>5, <2>2
    <3> QED BY <2>1, <3>1 DEF IInv, RoomOrder
  <2>3. CASE f = c
    <3>1. PostsOf(e) # {}
      BY <2>1, <2>3, EarlierIsDone DEF Done, IInv, ProcessedInv, Settled, MessageSettled
    <3>2. PostsOf(f)' = PostsOf(f) \cup {n}
      BY <1>5, <2>3
    <3>3. CASE PostsOf(f) = {}
      BY <1>1, <2>1, <3>1, <3>2, <3>3
    <3>4. CASE PostsOf(f) # {}
      <4>1. PICK i \in PostsOf(e): \A j \in PostsOf(f): i < j
        BY <2>1, <3>4 DEF IInv, RoomOrder
      <4>2. i < n
        BY <1>1, <2>1, <4>1
      <4> QED BY <2>1, <3>2, <4>1, <4>2
    <3> QED BY <3>3, <3>4
  <2> QED BY <2>2, <2>3
<1> QED BY <1>1, <1>2, <1>3, <1>7, <1>8, <1>9

(* What a step keeps that only sends to the chat. *)
LEMMA SendingFacts ==
  ASSUME IInv, Grows, \A i \in DOMAIN chat': chat'[i] \in Part, WorkOK',
         UNCHANGED <<Bridge, removed, edits, next>>, unsent \subseteq unsent', unsent' \subseteq Events
  PROVE  TypeOK' /\ MappingInv' /\ EditsInv'
<1>1. UNCHANGED <<processed, mapping, next>>
  BY DEF Bridge
<1>2. removed' \subseteq DOMAIN chat'
  BY DEF IInv, TypeOK, Grows
<1>3. TypeOK'
  BY <1>1, <1>2 DEF IInv, TypeOK, WorkOK, Part
<1>4. MappingInv'
  BY <1>1, PostsStay DEF IInv, MappingInv
<1>5. EditsInv'
  BY DEF IInv, EditsInv, Redactable
<1> QED BY <1>3, <1>4, <1>5

(* A text that Feishu accepts is in the chat from then on, and only once. *)
LEMMA TextFacts ==
  ASSUME IInv, NEW h \in Handlers, At(h, "text"), NEW i \in 1..MaxSends, TextAccepted(h, i),
         UNCHANGED <<Bridge, removed, edits, next>>, unsent \subseteq unsent'
  PROVE  /\ Grows /\ ChatInv' /\ RoomOrder' /\ \A j \in DOMAIN chat': chat'[j] \in Part
         /\ \E c: c = Current(h) /\ c \in Text /\ StandsFor(i, c)'
<1>1. /\ work[h] # None /\ Entitled(h) /\ Current(h) \in Text
      /\ UNCHANGED <<processed, mapping, removed, edits>>
  BY AtFacts DEF Entitled, Bridge
<1> PICK c \in Messages: c = Current(h)
  BY <1>1 DEF Messages
<1>2. CASE i \in SeenByUuid(h) /\ UNCHANGED chat
  <2>1. Grows
    BY <1>1, <1>2 DEF Grows, TextsOf, PostsOf
  <2>2. ChatInv' /\ RoomOrder' /\ \A j \in DOMAIN chat': chat'[j] \in Part
    BY <1>1, <1>2 DEF IInv, ChatInv, RoomOrder, PostsOf
  <2>3. StandsFor(i, c)'
    BY <1>1, <1>2 DEF SeenByUuid, StandsFor, PostsOf, TextsOf
  <2> QED BY <1>1, <2>1, <2>2, <2>3
<1>3. CASE SeenByUuid(h) = {} /\ i = Len(chat) + 1 /\ Delivered(h, "text")
  <2>1. /\ i \in DOMAIN chat' /\ chat'[i].event = c /\ chat'[i].part = "text"
        /\ \A j \in DOMAIN chat': chat'[j] \in Part
        /\ Grows /\ ChatInv' /\ RoomOrder'
    BY <1>1, <1>3, DeliveredFacts
  <2>2. StandsFor(i, c)'
    BY <2>1 DEF StandsFor, PostsOf, TextsOf
  <2> QED BY <1>1, <2>1, <2>2
<1> QED BY <1>2, <1>3 DEF TextAccepted

(* A text is sent, and answered or not. *)
LEMMA TextIInv ==
  ASSUME IInv, NEW h \in Handlers, SendText(h) \/ TextUnconfirmed(h)
  PROVE  IInv'
<1>1. /\ At(h, "text") /\ work[h] # None /\ Entitled(h) /\ Current(h) \in Events
      /\ UNCHANGED <<Bridge, removed, edits, next>>
      /\ UNCHANGED <<processed, mapping, next>>
  BY AtFacts DEF SendText, TextUnconfirmed, Bridge
<1> PICK c: c = Current(h)
  OBVIOUS
<1>2. ASSUME NEW i \in 1..MaxSends, TextAccepted(h, i), unsent \subseteq unsent',
             unsent' \subseteq Events, WorkOK',
             \A g \in Handlers \ {h}: work'[g] = work[g],
             StandsFor(i, c)' => Entitled(h)'
      PROVE  IInv'
  <2>1. /\ Grows /\ ChatInv' /\ RoomOrder' /\ \A j \in DOMAIN chat': chat'[j] \in Part
        /\ StandsFor(i, c)'
    <3>1. /\ Grows /\ ChatInv' /\ RoomOrder' /\ \A j \in DOMAIN chat': chat'[j] \in Part
          /\ \E d: d = Current(h) /\ d \in Text /\ StandsFor(i, d)'
      BY <1>1, <1>2, TextFacts
    <3> PICK d: d = Current(h) /\ d \in Text /\ StandsFor(i, d)'
      BY <3>1
    <3>2. c = d
      OBVIOUS
    <3> QED BY <3>1, <3>2
  <2>2. TypeOK' /\ MappingInv' /\ EditsInv'
    BY <1>1, <1>2, <2>1, SendingFacts
  <2> QED BY <1>1, <1>2, <2>1, <2>2, StepIInv
<1>3. CASE SendText(h)
  <2> PICK pc: pc = (IF Current(h) \in Attached THEN "attachment" ELSE "record")
    OBVIOUS
  <2>1. PICK i \in 1..MaxSends:
             TextAccepted(h, i) /\ work' = [work EXCEPT ![h].msg = i, ![h].pc = pc]
    BY <1>3 DEF SendText
  <2>2. pc \in Steps /\ i \in 0..MaxSends /\ unsent' = unsent
    BY <1>3, ConstantsAssumption DEF Steps, SendText
  <2> PICK t: t = [work[h] EXCEPT !.msg = i, !.pc = pc]
    OBVIOUS
  <2>3. /\ t \in Work /\ t.pc = pc /\ t.msg = i /\ t.txn = work[h].txn /\ t.pos = work[h].pos
        /\ work' = [work EXCEPT ![h] = t]
    <3>1. work[h] \in Work
      BY <1>1 DEF IInv, TypeOK
    <3> QED BY <2>1, <2>2, <3>1 DEF Work
  <2>4. /\ WorkOK' /\ \A g \in Handlers \ {h}: work'[g] = work[g]
        /\ work'[h] # None /\ work'[h].pc = pc /\ work'[h].msg = i
        /\ work'[h].txn = work[h].txn /\ work'[h].pos = work[h].pos
        /\ Current(h)' = c
    BY <1>1, <2>3, MoveFacts DEF IInv
  <2>5. /\ work'[h].txn <= next'
        /\ \A a \in 1..(work'[h].pos - 1): Txns[work'[h].txn][a] \in Done'
    BY <1>1, <2>2, <2>4, SameEvent
  <2>6. c \in Text
    BY <1>1 DEF Entitled
  <2>7. StandsFor(i, c)' => Entitled(h)'
    <3> SUFFICES ASSUME StandsFor(i, c)' PROVE Entitled(h)'
      OBVIOUS
    <3>1. StandsFor(work[h].msg, Current(h))'
      BY <2>4 DEF StandsFor
    <3>2. CASE c \in Attached /\ pc = "attachment"
      BY <2>4, <2>5, <2>6, <3>1, <3>2 DEF Entitled, At
    <3>3. CASE pc = "record"
      BY <2>4, <2>5, <2>6, <3>1, <3>3 DEF Entitled, At, Messages
    <3> QED BY <3>2, <3>3
  <2>8. unsent' \subseteq Events
    BY <2>2 DEF IInv, TypeOK
  <2> QED BY <1>2, <2>1, <2>2, <2>4, <2>7, <2>8
<1>4. CASE TextUnconfirmed(h)
  <2>1. PICK i \in 1..MaxSends: TextAccepted(h, i)
    BY <1>4 DEF TextUnconfirmed
  <2>2. unsent' = unsent \cup {c} /\ (Goto(h, "mark") \/ Advance(h))
    BY <1>4 DEF TextUnconfirmed, GiveUp, AfterFailure
  <2>3. unsent' \subseteq Events
    BY <1>1, <2>2 DEF IInv, TypeOK
  <2>4. CASE Advance(h)
    <3>1. WorkOK' /\ (\A g \in Handlers \ {h}: work'[g] = work[g]) /\ Entitled(h)'
      BY <1>1, <2>2, <2>4, AdvanceFacts DEF Done
    <3> QED BY <1>2, <2>1, <2>2, <2>3, <3>1
  <2>5. CASE Goto(h, "mark")
    <3>1. /\ work' = [work EXCEPT ![h] = [@ EXCEPT !.pc = "mark", !.msg = work[h].msg]]
          /\ work[h].msg \in 0..MaxSends /\ "mark" \in Steps
      BY <1>1, <2>5, GotoIs DEF IInv, Steps
    <3>2. /\ WorkOK' /\ \A g \in Handlers \ {h}: work'[g] = work[g]
          /\ work'[h] # None /\ work'[h].pc = "mark"
          /\ work'[h].txn = work[h].txn /\ work'[h].pos = work[h].pos
          /\ Current(h)' = c
      BY <1>1, <3>1, GotoFacts DEF IInv
    <3>3. /\ work'[h].txn <= next'
          /\ \A a \in 1..(work'[h].pos - 1): Txns[work'[h].txn][a] \in Done'
      BY <1>1, <2>2, <3>2, SameEvent
    <3>4. Settled(c)'
      <4>1. c \in Text
        BY <1>1 DEF Entitled
      <4> QED BY <2>2, <4>1, ConstantsAssumption
              DEF Settled, MessageSettled, RedactionSettled, EditSettled, Messages
    <3>5. Entitled(h)'
      BY <3>2, <3>3, <3>4 DEF Entitled, At
    <3> QED BY <1>2, <2>1, <2>2, <2>3, <3>2, <3>5
  <2> QED BY <2>2, <2>4, <2>5
<1> QED BY <1>3, <1>4

(* An attachment stands for its event if no text does. *)
LEMMA SendAttachmentIInv ==
  ASSUME IInv, NEW h \in Handlers, SendAttachment(h)
  PROVE  IInv'
<1>1. /\ At(h, "attachment") /\ work[h] # None /\ Entitled(h) /\ Current(h) \in Messages
      /\ Delivered(h, "attachment")
      /\ UNCHANGED <<Bridge, removed, edits, next, unsent>>
      /\ UNCHANGED <<processed, mapping, next>>
  BY AtFacts DEF SendAttachment, Bridge, Entitled, Messages
<1> PICK c: c = Current(h)
  OBVIOUS
<1> PICK n: n = Len(chat) + 1
  OBVIOUS
<1>2. /\ n \in 1..MaxSends /\ n \in DOMAIN chat' /\ chat'[n].event = c
      /\ \A i \in DOMAIN chat': chat'[i] \in Part
      /\ Grows /\ ChatInv' /\ RoomOrder'
  BY <1>1, DeliveredFacts
<1> PICK m: m = (IF work[h].msg = 0 THEN n ELSE work[h].msg)
  OBVIOUS
<1>3. StandsFor(m, c)'
  <2>1. CASE c \in Text
    <3>1. StandsFor(work[h].msg, c) /\ work[h].msg # 0
      <4>1. StandsFor(work[h].msg, c) /\ chat \in Seq(Part)
        BY <1>1, <2>1 DEF Entitled, IInv, ChatInv
      <4> QED BY <4>1 DEF StandsFor, PostsOf
    <3>2. m = work[h].msg
      BY <3>1
    <3> QED BY <1>2, <3>1, <3>2, PostsStay
  <2>2. CASE c \notin Text
    <3>1. m = n
      BY <1>1, <2>2 DEF Entitled
    <3> QED BY <1>2, <2>2, <3>1 DEF StandsFor, PostsOf
  <2> QED BY <2>1, <2>2
<1> PICK t: t = [work[h] EXCEPT !.pc = "record", !.msg = m]
  OBVIOUS
<1>4. /\ t \in Work /\ t.pc = "record" /\ t.msg = m /\ t.txn = work[h].txn /\ t.pos = work[h].pos
      /\ work' = [work EXCEPT ![h] = t]
  <2>1. work[h] \in Work /\ m \in 0..MaxSends /\ "record" \in Steps
    BY <1>1, <1>2, ConstantsAssumption DEF IInv, TypeOK, Work, Steps
  <2> QED BY <2>1 DEF SendAttachment, Work
<1>5. /\ WorkOK' /\ \A g \in Handlers \ {h}: work'[g] = work[g]
      /\ work'[h] # None /\ work'[h].pc = "record" /\ work'[h].msg = m
      /\ work'[h].txn = work[h].txn /\ work'[h].pos = work[h].pos
      /\ Current(h)' = c
  BY <1>1, <1>4, MoveFacts DEF IInv
<1>6. /\ work'[h].txn <= next'
      /\ \A a \in 1..(work'[h].pos - 1): Txns[work'[h].txn][a] \in Done'
  BY <1>1, <1>5, SameEvent
<1>7. Entitled(h)'
  <2>1. StandsFor(work[h].msg, Current(h))'
    BY <1>3, <1>5 DEF StandsFor
  <2> QED BY <1>1, <1>5, <1>6, <2>1 DEF Entitled, At
<1>8. TypeOK' /\ MappingInv' /\ EditsInv'
  BY <1>1, <1>2, <1>5, SendingFacts DEF IInv, TypeOK
<1> QED BY <1>1, <1>2, <1>5, <1>7, <1>8, StepIInv

(* What is recorded as a message's mapping stands for it. *)
LEMMA RecordIInv ==
  ASSUME IInv, NEW h \in Handlers, Record(h)
  PROVE  IInv'
<1>1. /\ At(h, "record") /\ work[h] # None /\ Entitled(h) /\ Current(h) \in Messages
      /\ StandsFor(work[h].msg, Current(h)) /\ Goto(h, "mark")
      /\ UNCHANGED <<processed, chat, removed, edits, next, unsent>>
  BY AtFacts DEF Record, Feishu, Entitled
<1> PICK c \in Messages: c = Current(h)
  BY <1>1
<1> PICK m \in 0..MaxSends: m = work[h].msg
  BY <1>1 DEF IInv, TypeOK, Work
<1>2. /\ mapping \in [Messages -> 0..MaxSends]
      /\ mapping' = [mapping EXCEPT ![c] = IF mapping[c] = 0 THEN m ELSE mapping[c]]
  BY DEF IInv, TypeOK, Record
<1>3. /\ mapping' \in [Messages -> 0..MaxSends]
      /\ \A e \in Messages: mapping[e] # 0 => mapping'[e] = mapping[e]
      /\ \A e \in Messages \ {c}: mapping'[e] = mapping[e]
      /\ mapping[c] = 0 => mapping'[c] = m
  BY <1>2
<1>4. StandsFor(m, c) /\ m # 0
  <2>1. StandsFor(m, c) /\ chat \in Seq(Part)
    BY <1>1 DEF IInv, ChatInv
  <2> QED BY <2>1 DEF StandsFor, PostsOf
<1>5. Grows
  BY <1>1, <1>3 DEF Grows, TextsOf, PostsOf
<1>6. MappingInv'
  <2>1. \A e \in Messages: mapping'[e] # 0 => StandsFor(mapping'[e], e)
    BY <1>3, <1>4 DEF IInv, MappingInv
  <2> QED BY <1>1, <2>1 DEF MappingInv, StandsFor, PostsOf, TextsOf
<1>7. ChatInv' /\ RoomOrder' /\ EditsInv'
  BY <1>1 DEF IInv, ChatInv, RoomOrder, EditsInv, PostsOf, Redactable
<1>8. Settled(c)'
  <2>1. mapping'[c] # 0 /\ StandsFor(m, c)'
    BY <1>1, <1>3, <1>4 DEF StandsFor, PostsOf, TextsOf
  <2> QED BY <2>1, ConstantsAssumption
      DEF Settled, MessageSettled, RedactionSettled, EditSettled, StandsFor
<1>9. /\ work' = [work EXCEPT ![h] = [@ EXCEPT !.pc = "mark", !.msg = work[h].msg]]
      /\ work[h].msg \in 0..MaxSends /\ "mark" \in Steps
  BY <1>1, GotoIs DEF IInv, Steps
<1>10. /\ WorkOK' /\ \A g \in Handlers \ {h}: work'[g] = work[g]
       /\ work'[h] # None /\ work'[h].pc = "mark"
       /\ work'[h].txn = work[h].txn /\ work'[h].pos = work[h].pos
       /\ Current(h)' = c
  BY <1>1, <1>9, GotoFacts DEF IInv
<1>11. /\ work'[h].txn <= next'
       /\ \A a \in 1..(work'[h].pos - 1): Txns[work'[h].txn][a] \in Done'
  BY <1>1, <1>10, SameEvent
<1>12. Entitled(h)'
  BY <1>8, <1>10, <1>11 DEF Entitled, At
<1>13. TypeOK'
  BY <1>1, <1>3, <1>10 DEF IInv, TypeOK, WorkOK
<1> QED BY <1>1, <1>5, <1>6, <1>7, <1>10, <1>12, <1>13, StepIInv

(* An edit comes after the edits before it. *)
LEMMA UpdatedFacts ==
  ASSUME IInv, NEW h \in Handlers, Updated(h), unsent \subseteq unsent', unsent' \subseteq Events,
         WorkOK'
  PROVE  /\ Grows /\ TypeOK' /\ MappingInv' /\ ChatInv' /\ RoomOrder' /\ EditsInv'
         /\ \E i \in DOMAIN edits': edits'[i] = Current(h)
<1>1. /\ At(h, "edit") /\ work[h] # None /\ Entitled(h) /\ Current(h) \in Edits
      /\ UNCHANGED <<processed, mapping, chat, removed, next>>
      /\ Len(edits) < MaxEdits /\ edits' = Append(edits, Current(h))
  BY AtFacts DEF Updated, Bridge, Entitled
<1> PICK c \in Edits: c = Current(h)
  BY <1>1
<1> PICK n: n = Len(edits) + 1
  OBVIOUS
<1>2. /\ edits \in Seq(Edits) /\ n \in 1..MaxEdits /\ DOMAIN edits = 1..(n - 1)
      /\ edits' \in Seq(Edits) /\ Len(edits') = n /\ DOMAIN edits' = 1..n /\ edits'[n] = c
      /\ \A i \in 1..(n - 1): edits'[i] = edits[i]
  <2>1. edits \in Seq(Edits)
    BY DEF IInv, TypeOK
  <2> QED BY <1>1, <2>1, ConstantsAssumption
<1>3. Grows
  BY <1>1, <1>2 DEF Grows, TextsOf, PostsOf
<1>4. TypeOK'
  BY <1>1, <1>2 DEF IInv, TypeOK, WorkOK
<1>5. MappingInv' /\ ChatInv' /\ RoomOrder'
  BY <1>1 DEF IInv, MappingInv, ChatInv, RoomOrder, StandsFor, TextsOf, PostsOf
<1>6. EditsInv'
  <2> SUFFICES ASSUME NEW j \in DOMAIN edits', NEW f \in Edits, Before(f, edits[j])',
                      ({f, Target[f]} \cap unsent)' = {}, ~ Redactable(Target[f])'
               PROVE  \E k \in 1..(j - 1): edits'[k] = f
    BY DEF EditsInv
  <2>0. /\ j \in 1..n /\ Before(f, edits'[j])
        /\ {f, Target[f]} \cap unsent = {} /\ ~ Redactable(Target[f])
    BY <1>2 DEF Redactable, Before
  <2>1. CASE j = n
    <3>1. f \in processed
      BY <1>1, <1>2, <2>0, <2>1, EarlierIsDone DEF Done
    <3>2. \E i \in DOMAIN edits: edits[i] = f
      BY <2>0, <3>1 DEF IInv, ProcessedInv, Settled, EditSettled
    <3> QED BY <1>2, <2>1, <3>2
  <2>2. CASE j # n
    <3>1. j \in 1..(n - 1) /\ 1..(j - 1) \subseteq 1..(n - 1)
      BY <1>2, <2>0, <2>2
    <3>2. \E k \in 1..(j - 1): edits[k] = f
      BY <1>2, <2>0, <3>1 DEF IInv, EditsInv
    <3> QED BY <1>2, <3>1, <3>2
  <2> QED BY <2>1, <2>2
<1> QED BY <1>1, <1>2, <1>3, <1>4, <1>5, <1>6

(* An edit that was applied is settled, whether Feishu's answer arrives or not. *)
LEMMA UpdateIInv ==
  ASSUME IInv, NEW h \in Handlers, UpdateMessage(h) \/ UpdateUnconfirmed(h)
  PROVE  IInv'
<1>1. /\ Updated(h) /\ work[h] # None /\ Entitled(h) /\ Current(h) \in Edits
      /\ UNCHANGED <<processed, next>>
  BY AtFacts DEF UpdateMessage, UpdateUnconfirmed, Updated, Bridge, Entitled
<1> PICK c: c = Current(h)
  OBVIOUS
<1>2. CASE UpdateUnconfirmed(h)
  <2>1. unsent' = unsent \cup {c} /\ Advance(h)
    BY <1>2 DEF UpdateUnconfirmed, GiveUp
  <2>2. WorkOK' /\ (\A g \in Handlers \ {h}: work'[g] = work[g]) /\ Entitled(h)'
    BY <1>1, <2>1, AdvanceFacts DEF Done
  <2>3. unsent' \subseteq Events
    BY <1>1, <2>1 DEF IInv, TypeOK, Events
  <2>4. Grows /\ TypeOK' /\ MappingInv' /\ ChatInv' /\ RoomOrder' /\ EditsInv'
    BY <1>1, <2>1, <2>2, <2>3, UpdatedFacts
  <2> QED BY <1>1, <2>2, <2>4, StepIInv
<1>3. CASE UpdateMessage(h)
  <2>1. /\ work' = [work EXCEPT ![h] = [@ EXCEPT !.pc = "mark", !.msg = work[h].msg]]
        /\ work[h].msg \in 0..MaxSends /\ "mark" \in Steps /\ unsent' = unsent
    BY <1>1, <1>3, GotoIs DEF IInv, Steps, UpdateMessage
  <2>2. /\ WorkOK' /\ \A g \in Handlers \ {h}: work'[g] = work[g]
        /\ work'[h] # None /\ work'[h].pc = "mark"
        /\ work'[h].txn = work[h].txn /\ work'[h].pos = work[h].pos
        /\ Current(h)' = c
    BY <1>1, <2>1, GotoFacts DEF IInv
  <2>3. /\ work'[h].txn <= next'
        /\ \A a \in 1..(work'[h].pos - 1): Txns[work'[h].txn][a] \in Done'
    BY <1>1, <2>1, <2>2, SameEvent
  <2>4. /\ Grows /\ TypeOK' /\ MappingInv' /\ ChatInv' /\ RoomOrder' /\ EditsInv'
        /\ \E i \in DOMAIN edits': edits'[i] = c
    BY <1>1, <2>1, <2>2, UpdatedFacts DEF IInv, TypeOK
  <2>5. Settled(c)'
    BY <1>1, <2>4, ConstantsAssumption DEF Settled, MessageSettled, RedactionSettled, EditSettled
  <2>6. Entitled(h)'
    BY <2>2, <2>3, <2>5 DEF Entitled, At
  <2> QED BY <1>1, <2>2, <2>4, <2>6, StepIInv
<1> QED BY <1>2, <1>3

(* A text is in the chat once, so its post is all there is to recall. *)
LEMMA OnlyText ==
  ASSUME ChatInv, NEW e, NEW i \in TextsOf(e)
  PROVE  TextsOf(e) = {i}
BY DEF ChatInv, TextsOf, PostsOf

(* A recalled message is the one its mapping stands for. *)
LEMMA RecallIInv ==
  ASSUME IInv, NEW h \in Handlers, Recall(h)
  PROVE  IInv'
<1>1. /\ At(h, "recall") /\ work[h] # None /\ Entitled(h) /\ Current(h) \in Redactions
      /\ mapping[Target[Current(h)]] # 0
      /\ removed' = removed \cup {mapping[Target[Current(h)]]}
      /\ UNCHANGED <<processed, mapping, chat, edits, next, unsent>>
  BY AtFacts DEF Recall, Bridge, Entitled
<1> PICK c \in Redactions: c = Current(h)
  BY <1>1
<1> PICK e \in Messages: e = Target[c]
  BY ConstantsAssumption
<1> PICK m \in 0..MaxSends: m = mapping[e]
  BY DEF IInv, TypeOK
<1>2. StandsFor(m, e) /\ removed' = removed \cup {m}
  BY <1>1 DEF IInv, MappingInv
<1>3. Grows
  BY <1>1 DEF Grows, TextsOf, PostsOf
<1>4. MappingInv' /\ ChatInv' /\ RoomOrder' /\ EditsInv'
  BY <1>1 DEF IInv, MappingInv, ChatInv, RoomOrder, EditsInv, StandsFor, TextsOf, PostsOf, Redactable
<1> PICK t: t = [work[h] EXCEPT !.pc = "unmap", !.msg = m]
  OBVIOUS
<1>5. /\ t \in Work /\ t.pc = "unmap" /\ t.msg = m /\ t.txn = work[h].txn /\ t.pos = work[h].pos
      /\ work' = [work EXCEPT ![h] = t]
  <2>1. work[h] \in Work /\ "unmap" \in Steps
    BY <1>1 DEF IInv, TypeOK, Steps
  <2> QED BY <2>1 DEF Recall, Work
<1>6. /\ WorkOK' /\ \A g \in Handlers \ {h}: work'[g] = work[g]
      /\ work'[h] # None /\ work'[h].pc = "unmap" /\ work'[h].msg = m
      /\ work'[h].txn = work[h].txn /\ work'[h].pos = work[h].pos
      /\ Current(h)' = c
  BY <1>1, <1>5, MoveFacts DEF IInv
<1>7. /\ work'[h].txn <= next'
      /\ \A a \in 1..(work'[h].pos - 1): Txns[work'[h].txn][a] \in Done'
  BY <1>1, <1>6, SameEvent
<1>8. e \in Text => m \in TextsOf(e) /\ TextsOf(e) = {m}
  BY <1>2, OnlyText DEF IInv, StandsFor
<1>9. TextsOf(e)' = TextsOf(e)
  BY <1>1 DEF TextsOf, PostsOf
<1>10. Settled(c)'
  <2>1. e \in Text => Recalled(e)'
    BY <1>2, <1>8, <1>9 DEF Recalled
  <2> QED BY <2>1, ConstantsAssumption DEF Settled, MessageSettled, RedactionSettled, EditSettled
<1>11. Entitled(h)'
  <2>1. Target[Current(h)]' \in Text => work'[h].msg \in TextsOf(Target[Current(h)])'
    <3>1. Target[Current(h)]' = e /\ TextsOf(Target[Current(h)])' = TextsOf(e)'
      BY <1>6
    <3> QED BY <1>6, <1>8, <1>9, <3>1
  <2> QED BY <1>2, <1>6, <1>7, <1>10, <2>1 DEF Entitled, At
<1>12. TypeOK'
  BY <1>1, <1>2, <1>6 DEF IInv, TypeOK, WorkOK, StandsFor, PostsOf
<1> QED BY <1>1, <1>3, <1>4, <1>6, <1>11, <1>12, StepIInv

(* A mapping goes only with the message it stands for. *)
LEMMA UnmapIInv ==
  ASSUME IInv, NEW h \in Handlers, Unmap(h)
  PROVE  IInv'
<1>1. /\ At(h, "unmap") /\ work[h] # None /\ Entitled(h) /\ Current(h) \in Redactions
      /\ Goto(h, "mark") /\ Settled(Current(h))
      /\ UNCHANGED <<processed, chat, removed, edits, next, unsent>>
  BY AtFacts DEF Unmap, Feishu, Entitled
<1> PICK c \in Redactions: c = Current(h)
  BY <1>1
<1> PICK e \in Messages: e = Target[c]
  BY ConstantsAssumption
<1> PICK m: m = work[h].msg
  OBVIOUS
<1>2. /\ m \in removed
      /\ e \in Text => m \in TextsOf(e)
  BY <1>1 DEF Entitled
<1>3. /\ mapping' \in [Messages -> 0..MaxSends]
      /\ \A f \in Messages: mapping'[f] # 0 => mapping'[f] = mapping[f]
      /\ \A f \in Messages: mapping[f] # 0 /\ f # e => mapping'[f] # 0
  <2>1. mapping \in [Messages -> 0..MaxSends] /\ 0 \in 0..MaxSends
    BY ConstantsAssumption DEF IInv, TypeOK
  <2>2. mapping' = mapping
        \/ mapping' = [mapping EXCEPT ![e] = IF mapping[e] = m THEN 0 ELSE mapping[e]]
    BY DEF Unmap
  <2> QED BY <2>1, <2>2
<1>4. Redactable(e) /\ (e \in Text => Recalled(e)')
  <2>1. TextsOf(e)' = TextsOf(e)
    BY <1>1 DEF TextsOf, PostsOf
  <2>2. e \in Text => TextsOf(e) = {m}
    BY <1>2, OnlyText DEF IInv
  <2> QED BY <1>1, <1>2, <2>1, <2>2 DEF Recalled, Redactable
<1>5. Grows
  BY <1>1, <1>3, <1>4 DEF Grows, TextsOf, PostsOf
<1>6. MappingInv'
  BY <1>1, <1>3 DEF IInv, MappingInv, StandsFor, TextsOf, PostsOf
<1>7. ChatInv' /\ RoomOrder' /\ EditsInv'
  BY <1>1 DEF IInv, ChatInv, RoomOrder, EditsInv, PostsOf, Redactable
<1>8. Settled(c)'
  BY <1>1, <1>5, SettledStays
<1>9. /\ work' = [work EXCEPT ![h] = [@ EXCEPT !.pc = "mark", !.msg = work[h].msg]]
      /\ work[h].msg \in 0..MaxSends /\ "mark" \in Steps
  BY <1>1, GotoIs DEF IInv, Steps
<1>10. /\ WorkOK' /\ \A g \in Handlers \ {h}: work'[g] = work[g]
       /\ work'[h] # None /\ work'[h].pc = "mark"
       /\ work'[h].txn = work[h].txn /\ work'[h].pos = work[h].pos
       /\ Current(h)' = c
  BY <1>1, <1>9, GotoFacts DEF IInv
<1>11. /\ work'[h].txn <= next'
       /\ \A a \in 1..(work'[h].pos - 1): Txns[work'[h].txn][a] \in Done'
  BY <1>1, <1>10, SameEvent
<1>12. Entitled(h)'
  BY <1>8, <1>10, <1>11 DEF Entitled, At
<1>13. TypeOK'
  BY <1>1, <1>3, <1>10 DEF IInv, TypeOK, WorkOK
<1> QED BY <1>1, <1>5, <1>6, <1>7, <1>10, <1>12, <1>13, StepIInv

(* An event is marked when it is settled. *)
LEMMA MarkIInv ==
  ASSUME IInv, NEW h \in Handlers, Mark(h)
  PROVE  IInv'
<1>1. /\ At(h, "mark") /\ work[h] # None /\ Entitled(h) /\ Advance(h)
      /\ processed' = processed \cup {Current(h)}
      /\ UNCHANGED <<mapping, Feishu, next, unsent>>
  BY AtFacts DEF Mark
<1>2. Settled(Current(h))
  BY <1>1 DEF Entitled
<1> QED BY <1>1, <1>2, AdvanceIInv DEF Done

-----------------------------------------------------------------------------
(* Handlers come and go. *)
LEMMA WorkIInv ==
  ASSUME IInv, UNCHANGED <<Bridge, Feishu, unsent>>, next <= next', TypeOK', LossIsFailure',
         \A g \in Handlers: work'[g] = None \/ work'[g] = work[g] \/ Entitled(g)'
  PROVE  IInv'
<1>1. UNCHANGED <<processed, mapping, chat, removed, edits, unsent>>
  BY DEF Bridge, Feishu
<1>2. Grows
  BY <1>1 DEF Grows, TextsOf, PostsOf
<1>3. ProcessedInv'
  BY <1>1, <1>2, SettledStays DEF IInv, ProcessedInv
<1>4. MappingInv' /\ ChatInv' /\ RoomOrder' /\ EditsInv'
  BY <1>1 DEF IInv, MappingInv, ChatInv, RoomOrder, EditsInv, StandsFor, TextsOf, PostsOf, Redactable
<1>5. ASSUME NEW g \in Handlers, work'[g] = work[g], work'[g] # None PROVE Entitled(g)'
  <2>1. /\ Entitled(g) /\ Current(g)' = Current(g) /\ \A pc: At(g, pc)' <=> At(g, pc)
        /\ work[g].txn <= next /\ work[g].txn \in Nat /\ next \in Nat /\ next' \in Nat
    <3>1. Entitled(g) /\ work[g].txn <= next
      BY <1>5 DEF IInv, HandlersInv, Entitled
    <3>2. Current(g)' = Current(g) /\ \A pc: At(g, pc)' <=> At(g, pc)
      BY <1>5 DEF Current, At
    <3>3. next \in Nat /\ next' \in Nat
      BY ConstantsAssumption DEF IInv, TypeOK
    <3>4. work[g].txn \in Nat
      BY <1>5, CurrentFacts DEF IInv
    <3> QED BY <3>1, <3>2, <3>3, <3>4
  <2>2. Done' = Done /\ work'[g].txn <= next'
    BY <1>1, <1>5, <2>1 DEF Done
  <2> PICK c: c = Current(g)
    OBVIOUS
  <2>3. /\ Settled(c) => Settled(c)'
        /\ \A i: StandsFor(i, c) => StandsFor(i, c)'
    BY <1>1, <1>2, SettledStays DEF StandsFor, TextsOf, PostsOf
  <2>4. TextsOf(Target[c])' = TextsOf(Target[c])
    BY <1>1 DEF TextsOf, PostsOf
  <2> QED BY <1>1, <1>5, <2>1, <2>2, <2>3, <2>4 DEF Entitled
<1>6. HandlersInv'
  BY <1>5 DEF HandlersInv
<1> QED BY <1>3, <1>4, <1>6 DEF IInv

(* Before a transaction is answered, every event of it is done. *)
LEMMA AnswerIInv ==
  ASSUME IInv, NEW h \in Handlers, Answer(h) \/ AnswerLost(h)
  PROVE  IInv'
<1>1. /\ At(h, "answer") /\ work[h] # None /\ Entitled(h)
      /\ work' = [work EXCEPT ![h] = None]
      /\ UNCHANGED <<Bridge, Feishu, unsent>>
      /\ next' = next \/ (next' = next + 1 /\ work[h].txn = next)
  BY AtFacts DEF Answer, AnswerLost
<1>2. /\ next \in 1..(Len(Txns) + 1) /\ Len(Txns) \in Nat
      /\ work[h].txn \in 1..Len(Txns) /\ work[h].pos \in 1..Len(Txns[work[h].txn])
      /\ Len(Txns[work[h].txn]) \in Nat
  BY <1>1, CurrentFacts, ConstantsAssumption DEF IInv, TypeOK
<1>3. work'[h] = None /\ \A g \in Handlers \ {h}: work'[g] = work[g]
  BY <1>1 DEF IInv, TypeOK
<1>4. UNCHANGED <<processed, mapping, chat, removed, edits, unsent>>
  BY <1>1 DEF Bridge, Feishu
<1>5. next <= next' /\ next' \in 1..(Len(Txns) + 1)
  BY <1>1, <1>2
<1>6. TypeOK'
  <2>1. WorkOK'
    BY <1>1, <1>3 DEF IInv, TypeOK, WorkOK
  <2> QED BY <1>1, <1>4, <1>5, <2>1 DEF IInv, TypeOK, WorkOK
<1>7. LossIsFailure'
  <2> SUFFICES ASSUME NEW i \in 1..(next' - 1), NEW a \in 1..Len(Txns[i])
               PROVE  Txns[i][a] \in processed \cup unsent
    BY <1>4 DEF LossIsFailure
  <2>1. CASE i \in 1..(next - 1)
    BY <2>1 DEF IInv, LossIsFailure
  <2>2. CASE i \notin 1..(next - 1)
    <3>1. i = next /\ work[h].txn = next
      <4>1. next \in Nat /\ next' \in Nat /\ i \in Nat /\ i >= 1
        BY <1>2, <1>5
      <4>2. CASE next' = next
        BY <2>2, <4>2
      <4>3. CASE next' = next + 1 /\ work[h].txn = next
        BY <2>2, <4>1, <4>3
      <4> QED BY <1>1, <4>2, <4>3
    <3>2. /\ work[h].pos = Len(Txns[i]) /\ Txns[i][work[h].pos] \in Done
          /\ \A b \in 1..(work[h].pos - 1): Txns[i][b] \in Done
      BY <1>1, <3>1 DEF Entitled, Current
    <3> QED BY <1>2, <3>1, <3>2 DEF Done
  <2> QED BY <2>1, <2>2
<1> QED BY <1>1, <1>3, <1>5, <1>6, <1>7, WorkIInv

(* A handler starts at the first event, having done nothing. *)
LEMMA PushIInv ==
  ASSUME IInv, NEW h \in Handlers, Push(h)
  PROVE  IInv'
<1> PICK t: t = [txn |-> next, pos |-> 1, pc |-> "check", msg |-> 0]
  OBVIOUS
<1>1. /\ work' = [work EXCEPT ![h] = t] /\ next <= Len(Txns)
      /\ UNCHANGED <<processed, mapping, chat, removed, edits, unsent, next>>
  BY DEF Push, Bridge, Feishu
<1>2. next \in 1..Len(Txns) /\ next \in Nat
  BY <1>1, ConstantsAssumption DEF IInv, TypeOK
<1>3. Txns[next] \in Seq(Events) /\ Txns[next] # <<>>
  BY <1>2, ConstantsAssumption
<1>4. 1 \in DOMAIN Txns[next]
  BY <1>3
<1>5. t \in Work /\ t.txn = next /\ t.pos = 1 /\ t.pc = "check" /\ t.msg = 0
  BY <1>2, ConstantsAssumption DEF Work, Steps
<1>6. work'[h] = t /\ \A g \in Handlers \ {h}: work'[g] = work[g]
  BY <1>1 DEF IInv, TypeOK
<1>7. TypeOK'
  <2>1. WorkOK'
    BY <1>1, <1>4, <1>5, <1>6 DEF IInv, TypeOK, WorkOK
  <2> QED BY <1>1, <2>1 DEF IInv, TypeOK, WorkOK
<1>8. LossIsFailure'
  BY <1>1 DEF IInv, LossIsFailure
<1>9. Entitled(h)'
  BY <1>1, <1>2, <1>5, <1>6 DEF Entitled, At
<1> QED BY <1>1, <1>2, <1>6, <1>7, <1>8, <1>9, WorkIInv DEF Bridge, Feishu

(* A restart ends the handlers. *)
LEMMA CrashIInv ==
  ASSUME IInv, Crash
  PROVE  IInv'
<1>1. /\ work' = [h \in Handlers |-> None]
      /\ UNCHANGED <<processed, mapping, chat, removed, edits, unsent, next>>
  BY ConstantsAssumption DEF IInv, TypeOK, Crash, Bridge, Feishu
<1>2. TypeOK' /\ LossIsFailure'
  BY <1>1 DEF IInv, TypeOK, LossIsFailure
<1>3. next <= next'
  BY <1>1, ConstantsAssumption DEF IInv, TypeOK
<1> QED BY <1>1, <1>2, <1>3, WorkIInv DEF Bridge, Feishu

(* Nothing happens. *)
LEMMA StutterIInv ==
  ASSUME IInv, UNCHANGED vars
  PROVE  IInv'
<1>1. UNCHANGED <<processed, mapping, chat, removed, edits, unsent, next, work>>
  BY DEF vars
<1>2. TypeOK' /\ LossIsFailure'
  BY <1>1 DEF IInv, TypeOK, LossIsFailure
<1>3. next <= next'
  BY <1>1, ConstantsAssumption DEF IInv, TypeOK
<1> QED BY <1>1, <1>2, <1>3, WorkIInv DEF Bridge, Feishu

(* Every step keeps the invariant. *)
LEMMA NextIInv == IInv /\ [Next]_vars => IInv'
<1> SUFFICES ASSUME IInv, [Next]_vars PROVE IInv'
  OBVIOUS
<1>1. ASSUME NEW h \in Handlers, Proceed(h) PROVE IInv'
  BY <1>1, CheckIInv, DedupeIInv, TextIInv, FailsIInv, SendAttachmentIInv, AttachmentFailsIInv,
     RecordIInv, NothingIInv, UpdateIInv, RecallIInv, UnmapIInv, MarkIInv
     DEF Proceed
<1>2. ASSUME NEW h \in Handlers, Step(h) PROVE IInv'
  BY <1>1, <1>2, FailsIInv, CheckIInv DEF Step
<1> QED BY <1>2, PushIInv, AnswerIInv, CrashIInv, StutterIInv DEF Next, Handling

(* However transactions are pushed and handlers overlap, fail and stop,    *)
(* what is recorded of an event agrees with what is in the chat.           *)
THEOREM AlwaysIInv == Spec => []IInv
<1> QED BY InitIInv, NextIInv, PTL DEF Spec

(* Every variable holds a value of its kind, and no handler of             *)
(* on_transaction runs past the end of its transaction.                    *)
THEOREM TypeCorrect == Spec => []TypeOK
<1>1. IInv => TypeOK
  BY DEF IInv
<1> QED BY AlwaysIInv, <1>1, PTL

(* A text appears once in the Feishu chat, for any transactions, handlers  *)
(* and failures: the uuid of outbound_delivery_uuid is all it takes.       *)
THEOREM AlwaysTextOnce == Spec => []TextOnce
<1>1. IInv => TextOnce
  <2> SUFFICES ASSUME IInv, NEW e \in Text PROVE Cardinality(TextsOf(e)) <= 1
    BY DEF TextOnce
  <2>1. CASE TextsOf(e) = {}
    BY <2>1, FS_EmptySet
  <2>2. ASSUME NEW i \in TextsOf(e) PROVE Cardinality(TextsOf(e)) <= 1
    <3>1. TextsOf(e) = {i}
      BY <2>2, OnlyText DEF IInv
    <3> QED BY <3>1, FS_Singleton
  <2> QED BY <2>1, <2>2
<1> QED BY AlwaysIInv, <1>1, PTL

(* Messages that met no failure are in the chat in the order of the room,  *)
(* though handlers of the same transaction overlap.                        *)
THEOREM AlwaysRoomOrder == Spec => []RoomOrder
<1>1. IInv => RoomOrder
  BY DEF IInv
<1> QED BY AlwaysIInv, <1>1, PTL

(* Nothing of a text is left whose redaction was marked processed by       *)
(* handle_redaction_event without a failure.                               *)
THEOREM AlwaysTextIsRecalled == Spec => []TextIsRecalled
<1>1. IInv => TextIsRecalled
  <2> SUFFICES ASSUME IInv, NEW e \in Text, NEW r \in Redactions \cap processed, Target[r] = e,
                      {r, e} \cap unsent = {}
               PROVE  TextsOf(e) \subseteq removed
    BY DEF TextIsRecalled, Redacted
  <2>1. Settled(r)
    BY DEF IInv, ProcessedInv
  <2> QED BY <2>1 DEF Settled, RedactionSettled, Recalled
<1> QED BY AlwaysIInv, <1>1, PTL

(* No event of an answered transaction is missed: it is marked processed,  *)
(* or it met a failure that on_transaction logged.                         *)
THEOREM AlwaysLossIsFailure == Spec => []LossIsFailure
<1>1. IInv => LossIsFailure
  BY DEF IInv
<1> QED BY AlwaysIInv, <1>1, PTL

(* An edit that was handled without a failure was shown, for               *)
(* handle_edit_message always finds the mapping it looks for.              *)
THEOREM AlwaysEditIsShown == Spec => []EditIsShown
<1>1. IInv => EditIsShown
  BY DEF IInv, ProcessedInv, Settled, EditSettled, EditIsShown, Redactable
<1> QED BY AlwaysIInv, <1>1, PTL

(* An older edit follows a newer one in the chat only when the newer one   *)
(* was applied more than once.                                             *)
THEOREM AlwaysLastEditStays == Spec => []LastEditStays
<1>1. IInv => LastEditStays
  <2> SUFFICES ASSUME IInv, NEW i \in DOMAIN edits, NEW j \in DOMAIN edits,
                      i < j, Target[edits[i]] = Target[edits[j]],
                      {edits[j], Target[edits[j]]} \cap unsent = {},
                      ~ Redactable(Target[edits[j]]),
                      \A k \in DOMAIN edits: edits[k] = edits[j] => k = j,
                      Before(edits[j], edits[i])
               PROVE  FALSE
    BY DEF LastEditStays, Redactable
  <2>1. edits \in Seq(Edits)
    BY DEF IInv, TypeOK
  <2>2. PICK k \in 1..(i - 1): edits[k] = edits[j]
    BY <2>1 DEF IInv, EditsInv
  <2> QED BY <2>1, <2>2
<1> QED BY AlwaysIInv, <1>1, PTL

-----------------------------------------------------------------------------
(* A message that is settled was posted, or given up, as the feed has it.   *)
LEMMA SettledIsFinished ==
  ASSUME IInv, NEW e \in Events, Settled(e)
  PROVE  /\ e \in Messages => F!Posted(e) \/ e \in unsent
         /\ e \in Edits /\ F!Binding(e) => F!Changed(e)
         /\ e \in Redactions /\ Target[e] \in Text /\ F!Sound(e) => F!TextsHidden(Target[e])
<1>1. e \in Messages => F!Posted(e) \/ e \in unsent
  BY DEF Settled, MessageSettled, PostsOf, F!Posted
<1>2. e \in Edits /\ F!Binding(e) => F!Changed(e)
  BY DEF Settled, EditSettled, Redactable, F!Binding, F!Sound, F!Changed
<1>3. ASSUME e \in Redactions, Target[e] \in Text, F!Sound(e)
      PROVE  F!TextsHidden(Target[e])
  <2>1. TextsOf(Target[e]) \subseteq removed
    BY <1>3 DEF Settled, RedactionSettled, Recalled, F!Sound
  <2> QED BY <2>1 DEF F!TextsHidden, TextsOf, PostsOf
<1> QED BY <1>1, <1>2, <1>3

(* What comes before the event a handler is at, the feed has dealt with.    *)
LEMMA EarlierIsFinished ==
  ASSUME IInv, NEW h \in Handlers, work[h] # None
  PROVE  /\ \A d \in Messages: Before(d, Current(h)) => F!Posted(d) \/ d \in unsent
         /\ \A d \in Edits: Before(d, Current(h)) /\ F!Binding(d) => F!Changed(d)
<1> SUFFICES ASSUME NEW d \in Events, Before(d, Current(h)), d \notin unsent
             PROVE  Settled(d)
  BY SettledIsFinished DEF Events, F!Binding, F!Sound
<1>1. d \in processed
  BY EarlierIsDone DEF Done
<1> QED BY <1>1 DEF IInv, ProcessedInv

(* A text that is not in the chat has no redaction that was done in full.   *)
LEMMA UnsentIsUnredacted ==
  ASSUME IInv, NEW e \in Text, TextsOf(e) = {}
  PROVE  ~ F!Redacted(e)
<1> SUFFICES ASSUME NEW r \in Redactions \cap processed, Target[r] = e, F!Sound(r)
             PROVE  FALSE
  BY DEF F!Redacted
<1>1. Settled(r)
  BY DEF IInv, ProcessedInv
<1> QED BY <1>1 DEF Settled, RedactionSettled, Recalled, F!Sound

(* What a handler delivers, the feed may post just then.                    *)
LEMMA DeliveryPosts ==
  ASSUME IInv, NEW h \in Handlers, work[h] # None, Current(h) \in Messages,
         NEW part \in {"text", "attachment"}, Delivered(h, part),
         part = "text" => Current(h) \in Text /\ SeenByUuid(h) = {},
         unsent' = unsent \/ GiveUp(h),
         UNCHANGED <<removed, edits, processed, next>>
  PROVE  F!Next
<1> PICK e \in Messages: e = Current(h)
  OBVIOUS
<1>1. chat' = Append(chat, [event |-> e, part |-> part])
  BY DEF Delivered
<1>2. \A d \in Messages: F!Posted(d) \/ d \in unsent \/ ~ Before(d, e)
  BY EarlierIsFinished
<1>3. part = "text" => /\ \A i \in DOMAIN chat: chat[i] # [event |-> e, part |-> part]
                       /\ ~ F!Redacted(e)
  <2> SUFFICES ASSUME part = "text"
               PROVE  /\ \A i \in DOMAIN chat: chat[i] # [event |-> e, part |-> part]
                      /\ ~ F!Redacted(e)
    OBVIOUS
  <2>1. e \in Text /\ \A i \in DOMAIN chat: chat[i] # [event |-> e, part |-> part]
    BY DEF SeenByUuid
  <2>2. \A i \in DOMAIN chat: chat[i] \in Part
    BY DEF IInv, ChatInv
  <2>3. TextsOf(e) = {}
    BY <2>1, <2>2 DEF TextsOf, PostsOf, Part
  <2> QED BY <2>1, <2>3, UnsentIsUnredacted
<1>4. F!Told(e)
  BY DEF GiveUp, F!Told
<1>5. F!Post(e, part)
  BY <1>1, <1>2, <1>3, <1>4 DEF F!Post
<1> QED BY <1>5 DEF F!Next

(* A text that was accepted is posted, or was there and stays.              *)
LEMMA TextPosts ==
  ASSUME IInv, NEW h \in Handlers, SendText(h) \/ TextUnconfirmed(h)
  PROVE  [F!Next]_(F!feedVars)
<1>1. /\ work[h] # None /\ Current(h) \in Text /\ Current(h) \in Messages
      /\ Current(h) \in Events
      /\ UNCHANGED <<removed, edits, processed, next>>
      /\ unsent' = unsent \/ GiveUp(h)
      /\ \E i \in 1..MaxSends: TextAccepted(h, i)
  BY AtFacts DEF SendText, TextUnconfirmed, Entitled, Bridge, Messages
<1>2. CASE UNCHANGED chat
  <2>1. CASE unsent' = unsent
    BY <1>1, <1>2, <2>1 DEF F!feedVars
  <2>2. CASE GiveUp(h)
    <3>1. F!Fail(Current(h))
      BY <1>1, <1>2, <2>2 DEF F!Fail, GiveUp
    <3> QED BY <1>1, <3>1 DEF F!Next, Events
  <2> QED BY <1>1, <2>1, <2>2
<1>3. CASE SeenByUuid(h) = {} /\ Delivered(h, "text")
  BY <1>1, <1>3, DeliveryPosts
<1> QED BY <1>1, <1>2, <1>3 DEF TextAccepted

(* So is an attachment, each time it is sent.                              *)
LEMMA AttachmentPosts ==
  ASSUME IInv, NEW h \in Handlers, SendAttachment(h)
  PROVE  F!Next
<1>1. /\ work[h] # None /\ Current(h) \in Messages /\ Delivered(h, "attachment")
      /\ UNCHANGED <<removed, edits, processed, next, unsent>>
  BY AtFacts DEF SendAttachment, Entitled, Bridge, Messages
<1> QED BY <1>1, DeliveryPosts

(* An edit is applied after those before it in the room.                    *)
LEMMA UpdateChanges ==
  ASSUME IInv, NEW h \in Handlers, UpdateMessage(h) \/ UpdateUnconfirmed(h)
  PROVE  F!Next
<1>1. /\ work[h] # None /\ Current(h) \in Edits /\ edits' = Append(edits, Current(h))
      /\ UNCHANGED <<processed, chat, removed, next>>
      /\ unsent' = unsent \/ GiveUp(h)
  BY AtFacts DEF UpdateMessage, UpdateUnconfirmed, Updated, Entitled, Bridge
<1>2. F!Told(Current(h))
  BY <1>1 DEF GiveUp, F!Told
<1>3. F!Change(Current(h))
  BY <1>1, <1>2, EarlierIsFinished DEF F!Change
<1> QED BY <1>1, <1>3 DEF F!Next

(* A redaction takes back a post of the message it is about.                *)
LEMMA RecallHides ==
  ASSUME IInv, NEW h \in Handlers, Recall(h)
  PROVE  F!Next
<1>1. /\ Current(h) \in Redactions /\ mapping[Target[Current(h)]] # 0
      /\ removed' = removed \cup {mapping[Target[Current(h)]]}
      /\ UNCHANGED <<processed, chat, edits, next, unsent>>
  BY AtFacts DEF Recall, Bridge, Entitled
<1> PICK r \in Redactions: r = Current(h)
  BY <1>1
<1>2. mapping[Target[r]] \in PostsOf(Target[r])
  BY <1>1, ConstantsAssumption DEF IInv, MappingInv, StandsFor
<1>3. F!Hide(r)
  BY <1>1, <1>2 DEF F!Hide, PostsOf
<1> QED BY <1>3 DEF F!Next

(* An event that is marked processed had its effect.                        *)
LEMMA MarkFinishes ==
  ASSUME IInv, NEW h \in Handlers, Mark(h)
  PROVE  [F!Next]_(F!feedVars)
<1>1. /\ Current(h) \in Events /\ Settled(Current(h))
      /\ processed' = processed \cup {Current(h)}
      /\ UNCHANGED <<chat, removed, edits, next, unsent>>
  BY AtFacts DEF Mark, Entitled, Feishu
<1> PICK e \in Events: e = Current(h)
  BY <1>1
<1>2. CASE e \in processed
  <2>1. processed' = processed
    BY <1>1, <1>2
  <2> QED BY <1>1, <2>1 DEF F!feedVars
<1>3. CASE e \notin processed
  <2>1. F!Finish(e)
    BY <1>1, <1>3, SettledIsFinished DEF F!Finish
  <2> QED BY <2>1 DEF F!Next, Events
<1> QED BY <1>2, <1>3

(* A failure is told of the event it hit.                                   *)
LEMMA FailureIsTold ==
  ASSUME IInv, NEW h \in Handlers,
         \/ EventFails(h) \/ MarkFails(h) \/ TextFails(h) \/ Dropped(h) \/ RecordFails(h)
         \/ AttachmentFails(h)
  PROVE  F!Next
<1>1. /\ work[h] # None /\ unsent' = unsent \cup {Current(h)}
      /\ UNCHANGED <<processed, chat, removed, edits, next>>
  BY DEF EventFails, MarkFails, TextFails, Dropped, RecordFails, AttachmentFails, At, GiveUp,
         Bridge, Feishu
<1>2. Current(h) \in Events
  BY <1>1, CurrentFacts DEF IInv
<1>3. F!Fail(Current(h))
  BY <1>1 DEF F!Fail
<1> QED BY <1>2, <1>3 DEF F!Next, Events

(* A transaction is answered when its events are done or failed.            *)
LEMMA AnswerCloses ==
  ASSUME IInv, IInv', NEW h \in Handlers, Answer(h) \/ AnswerLost(h)
  PROVE  [F!Next]_(F!feedVars)
<1>1. /\ UNCHANGED <<processed, chat, removed, edits, unsent>>
      /\ next' = next \/ next' = next + 1
  BY DEF Answer, AnswerLost, Bridge, Feishu
<1>2. CASE next' = next
  BY <1>1, <1>2 DEF F!feedVars
<1>3. CASE next' = next + 1
  <2>1. next \in Nat /\ next <= Len(Txns) /\ next \in 1..(next' - 1)
    BY <1>3, ConstantsAssumption DEF IInv, TypeOK
  <2>2. Txns[next] \in Seq(Events)
    BY <2>1, ConstantsAssumption DEF IInv, TypeOK
  <2>3. \A a \in 1..Len(Txns[next]): Txns[next][a] \in processed \cup unsent
    BY <1>1, <2>1 DEF IInv, LossIsFailure
  <2>4. F!Answered
    BY <1>1, <1>3, <2>1, <2>2, <2>3 DEF F!Answered
  <2> QED BY <2>4 DEF F!Next
<1> QED BY <1>1, <1>2, <1>3

(* The other steps are not seen in the room or in the chat.                 *)
LEMMA OthersUnseen ==
  ASSUME NEW h \in Handlers,
         \/ Push(h) \/ Check(h) \/ Allowed(h) \/ Dedupe(h) \/ DedupeEdit(h) \/ Record(h)
         \/ NothingToEdit(h) \/ NothingToRecall(h) \/ Unmap(h) \/ Crash
  PROVE  UNCHANGED F!feedVars
BY DEF Push, Check, Allowed, Dedupe, DedupeEdit, Record, NothingToEdit, NothingToRecall, Unmap,
       Crash, Bridge, Feishu, F!feedVars

(* The delivery implements the feed: a handler of any push posts, changes,  *)
(* hides and finishes only what the feed allows at that very step.          *)
THEOREM ImplementsFeed == Spec => FeedSpec
<1>1. Init => F!Init
  BY DEF Init, F!Init
<1>2. ASSUME IInv, IInv', [Next]_vars
      PROVE  [F!Next]_(F!feedVars)
  <2>1. ASSUME NEW h \in Handlers, Proceed(h)
        PROVE  [F!Next]_(F!feedVars)
    BY <1>2, <2>1, TextPosts, AttachmentPosts, UpdateChanges, RecallHides, MarkFinishes,
       FailureIsTold, OthersUnseen DEF Proceed
  <2>2. ASSUME NEW h \in Handlers, Step(h)
        PROVE  [F!Next]_(F!feedVars)
    BY <1>2, <2>1, <2>2, FailureIsTold, OthersUnseen DEF Step
  <2>3. ASSUME NEW h \in Handlers, Push(h) \/ Answer(h) \/ AnswerLost(h)
        PROVE  [F!Next]_(F!feedVars)
    BY <1>2, <2>3, AnswerCloses, OthersUnseen
  <2>4. CASE Crash \/ UNCHANGED vars
    BY <2>4 DEF Crash, vars, Bridge, Feishu, F!feedVars
  <2> QED BY <1>2, <2>2, <2>3, <2>4 DEF Next, Handling
<1> QED BY <1>1, <1>2, AlwaysIInv, PTL DEF Spec, FeedSpec, F!Spec
=============================================================================
