--------------------------- MODULE UserSyncProofs ---------------------------
(***************************************************************************)
(* Proofs about UserSync for any users, aliases and number of workers: a   *)
(* message is sent as its own sender, and as the bot only for a reason; a  *)
(* row stays its user's.                                                   *)
(***************************************************************************)
EXTENDS UserSync, TLAPS

(* A mapping of user k that came from a row, and that the rows T do not     *)
(* contradict: its row may be gone or changed, but its id names no other.   *)
Of(m, k, T, n) ==
  /\ m \in Row /\ m.user = k /\ m.id < n
  /\ \A r \in T: r.id = m.id => r.user = k

CacheGenuine == \A k \in Ids \cup Users: cache[k] # None => Of(cache[k], k, table, nextId)

IdsUnique == \A r \in table: \A s \in table: r.id = s.id => r.user = s.user

(* What a worker relies on: the profile where it is used, the mapping to    *)
(* change, and that a mapping in hand is its own user's.                    *)
Entitled(t, T, n) ==
  /\ t \in Work
  /\ t.pc \in {"find", "save", "create"} => t.name # None
  /\ t.pc = "save" => t.row # None
  /\ t.row # None => Of(t.row, UserOf[t.id], T, n)

Workings == \A w \in Workers: work[w] # None => Entitled(work[w], table, nextId)

IInv == TypeOK /\ CacheGenuine /\ IdsUnique /\ Workings

-----------------------------------------------------------------------------
(* The state the program starts in satisfies the invariant. *)
LEMMA InitIInv == Init => IInv
BY ConstantsAssumption DEF Init, IInv, TypeOK, CacheGenuine, IdsUnique, Workings, Empty

(* A step that only moves one worker on keeps the invariant if the worker   *)
(* is still entitled to what it does.                                       *)
LEMMA OneWorkerMoves ==
  ASSUME IInv, NEW w \in Workers, NEW t, t = None \/ Entitled(t, table, nextId),
         work' = [work EXCEPT ![w] = t], cooling' \subseteq Ids, faults' \in 0..MaxFaults,
         UNCHANGED <<Database, cache>>
  PROVE  IInv'
<1>1. TypeOK'
  BY DEF IInv, TypeOK, Entitled, Database
<1>2. CacheGenuine' /\ IdsUnique'
  BY DEF IInv, CacheGenuine, IdsUnique, Database
<1>3. Workings'
  BY DEF IInv, TypeOK, Workings, Database
<1> QED BY <1>1, <1>2, <1>3 DEF IInv

(* A worker starts with nothing in hand. *)
LEMMA StartIInv ==
  ASSUME IInv, NEW w \in Workers, NEW i \in Ids, Start(w, i)
  PROVE  IInv'
<1> DEFINE t == [id |-> i, pc |-> IF i \in cooling THEN "direct" ELSE "profile",
                 name |-> None, row |-> None, hurt |-> FALSE]
<1>1. Entitled(t, table, nextId)
  BY DEF Entitled, Work, Steps, Lookups
<1>2. work' = [work EXCEPT ![w] = t] /\ cooling' \subseteq Ids /\ faults' \in 0..MaxFaults
  BY DEF Start, IInv, TypeOK
<1>3. UNCHANGED <<Database, cache>>
  BY DEF Start
<1> QED BY <1>1, <1>2, <1>3, OneWorkerMoves

(* The mapping a lookup finds, in the cache or in the table, is of the user *)
(* it was asked for.                                                        *)
LEMMA LookupKey ==
  ASSUME IInv, NEW w \in Workers, work[w] # None, work[w].pc \in Lookups
  PROVE  /\ work[w] \in Work
         /\ Key(w) \in Ids \cup Users
         /\ work[w].pc # "direct" => Key(w) = User(w)
BY ConstantsAssumption DEF IInv, TypeOK, Workings, Entitled, Work, Key, User, At

(* A worker that moves on with a mapping and a profile is one still. *)
LEMMA WorkChanged ==
  ASSUME NEW o \in Work, NEW pc \in Steps,
         NEW row \in Row \cup {None}, NEW name \in Names \cup {None}
  PROVE  [o EXCEPT !.pc = pc, !.row = row, !.name = name] \in Work
BY DEF Work

(* Whatever a lookup finds, the worker is entitled to go on with it. *)
LEMMA AnsweredEntitled ==
  ASSUME IInv, NEW w \in Workers, work[w] # None, work[w].pc \in Lookups,
         NEW m, m = None \/ Of(m, Key(w), table, nextId), Answered(w, m)
  PROVE  \E t: /\ Entitled(t, table, nextId) /\ t.id = work[w].id
              /\ work' = [work EXCEPT ![w] = t]
<1> DEFINE old  == work[w]
           next == NextStep(old.pc, m, old.name)
           t == [old EXCEPT !.pc = next,
                            !.row = IF next \in {"save", "done"} THEN m ELSE None,
                            !.name = IF next = "done" THEN None ELSE @]
<1>1. old \in Work /\ Entitled(old, table, nextId) /\ (old.pc # "direct" => Key(w) = User(w))
  BY LookupKey DEF IInv, Workings
<1>2. work' = [work EXCEPT ![w] = t]
  BY DEF Answered, IInv, TypeOK
<1>3. /\ next \in {"done", "profile", "look", "create", "save"}
      /\ next = "save" => m # None /\ old.pc = "find"
      /\ next = "create" => old.pc = "find"
      /\ next = "done" => old.pc = "look"
  BY DEF NextStep, Lookups
<1> HIDE DEF next
<1>4. m # None => m \in Row
  BY DEF Of
<1>5. t \in Work
  BY <1>1, <1>3, <1>4, WorkChanged DEF Steps, Lookups, Work
<1>6. t.row # None => Of(t.row, UserOf[t.id], table, nextId)
  BY <1>1, <1>3 DEF Work, User
<1>7. (t.pc \in {"find", "save", "create"} => t.name # None) /\ (t.pc = "save" => t.row # None)
  BY <1>1, <1>3 DEF Work, Entitled
<1>8. Entitled(t, table, nextId)
  BY <1>5, <1>6, <1>7 DEF Entitled
<1>9. t.id = work[w].id
  BY <1>1 DEF Work
<1> QED BY <1>2, <1>8, <1>9

(* The cache answers with a mapping of the key's user. *)
LEMMA LookupHitIInv ==
  ASSUME IInv, NEW w \in Workers, LookupHit(w)
  PROVE  IInv'
<1>1. Of(cache[Key(w)], Key(w), table, nextId)
  BY LookupKey DEF LookupHit, IInv, CacheGenuine
<1>2. PICK t: Entitled(t, table, nextId) /\ work' = [work EXCEPT ![w] = t]
  BY <1>1, AnsweredEntitled DEF LookupHit
<1>3. UNCHANGED <<Database, cache>> /\ cooling' \subseteq Ids /\ faults' \in 0..MaxFaults
  BY DEF LookupHit, IInv, TypeOK
<1> QED BY <1>2, <1>3, OneWorkerMoves

(* A row of the table is of its own user. *)
LEMMA RowOf ==
  ASSUME IInv, NEW r \in table
  PROVE  Of(r, r.user, table, nextId)
BY DEF IInv, TypeOK, IdsUnique, Of

(* The table answers with a row of the key's user, which is cached. *)
LEMMA LookupQueryIInv ==
  ASSUME IInv, NEW w \in Workers, LookupQuery(w)
  PROVE  IInv'
<1>1. CASE Answered(w, None) /\ UNCHANGED cache
  <2>1. PICK t: Entitled(t, table, nextId) /\ work' = [work EXCEPT ![w] = t]
    BY <1>1, AnsweredEntitled DEF LookupQuery
  <2>2. UNCHANGED <<Database, cache>> /\ cooling' \subseteq Ids /\ faults' \in 0..MaxFaults
    BY <1>1 DEF LookupQuery, IInv, TypeOK
  <2> QED BY <2>1, <2>2, OneWorkerMoves
<1>2. ASSUME NEW r \in TableRead(Key(w)), Answered(w, r), cache' = [cache EXCEPT ![Key(w)] = r]
      PROVE  IInv'
  <2>1. r \in table /\ Of(r, Key(w), table, nextId)
    BY RowOf, <1>2 DEF TableRead
  <2>2. PICK t: Entitled(t, table, nextId) /\ work' = [work EXCEPT ![w] = t]
    BY <1>2, <2>1, AnsweredEntitled DEF LookupQuery
  <2>3. UNCHANGED Database /\ cooling' \subseteq Ids /\ faults' \in 0..MaxFaults
    BY DEF LookupQuery, IInv, TypeOK
  <2>4. TypeOK'
    BY <1>2, <2>1, <2>2, <2>3 DEF IInv, TypeOK, Entitled, Of, Database
  <2>5. CacheGenuine'
    BY <1>2, <2>1, <2>3 DEF IInv, TypeOK, CacheGenuine, Database
  <2>6. IdsUnique' /\ Workings'
    BY <2>2, <2>3 DEF IInv, TypeOK, IdsUnique, Workings, Database
  <2> QED BY <2>4, <2>5, <2>6 DEF IInv
<1> QED BY <1>1, <1>2 DEF LookupQuery

(* A sync that fails, or is over, keeps nothing. *)
LEMMA FailedEntitled ==
  ASSUME IInv, NEW w \in Workers, work[w] # None
  PROVE  Entitled(Failed(w), table, nextId)
BY DEF IInv, Workings, Entitled, Failed, Work, Steps

(* Fetching a profile, failing and ending touch no mapping. *)
LEMMA QuietStepsIInv ==
  ASSUME IInv, NEW w \in Workers, GetUser(w) \/ Fails(w) \/ Done(w)
  PROVE  IInv'
<1>1. UNCHANGED <<Database, cache>> /\ cooling' \subseteq Ids /\ faults' \in 0..MaxFaults
  BY ConstantsAssumption DEF GetUser, Fails, Done, Fault, IInv, TypeOK
<1>2. CASE GetUser(w)
  <2>1. PICK n \in Names: work' = [work EXCEPT ![w].name = n, ![w].pc = "find"]
    BY <1>2 DEF GetUser
  <2> DEFINE t == [work[w] EXCEPT !.name = n, !.pc = "find"]
  <2>2. work[w] # None /\ Entitled(work[w], table, nextId)
    BY <1>2 DEF GetUser, At, IInv, Workings
  <2>3. Entitled(t, table, nextId)
    BY <2>2, ConstantsAssumption DEF Entitled, Work, Steps, Lookups
  <2>4. work' = [work EXCEPT ![w] = t]
    BY <2>1 DEF IInv, TypeOK
  <2> QED BY <1>1, <2>3, <2>4, OneWorkerMoves
<1>3. CASE Fails(w)
  BY <1>1, <1>3, FailedEntitled, OneWorkerMoves DEF Fails
<1>4. CASE Done(w)
  BY <1>1, <1>4, OneWorkerMoves DEF Done
<1> QED BY <1>2, <1>3, <1>4

(* Writing a mapping over its row, if there is one, leaves each row with    *)
(* the id and the user it had.                                              *)
LEMMA SaveKeepsUsers ==
  ASSUME IInv, NEW w \in Workers, Save(w)
  PROVE  \A s \in table': s \in Row /\ \E r \in table: r.id = s.id /\ r.user = s.user
<1>1. work[w] # None /\ work[w].row # None /\ work[w].row \in Row
      /\ Of(work[w].row, User(w), table, nextId) /\ work[w].name \in Names
  BY DEF Save, At, IInv, Workings, Entitled, Work, User, Of
<1>2. TAKE s \in table'
<1>3. PICK r \in table: s = IF r.id = work[w].row.id
                            THEN [work[w].row EXCEPT !.name = work[w].name] ELSE r
  BY DEF Save
<1>4. r \in Row
  BY DEF IInv, TypeOK
<1> QED BY <1>1, <1>3, <1>4 DEF Of, Row

(* Writing a mapping back leaves cached and held mappings uncontradicted. *)
LEMMA SaveIInv ==
  ASSUME IInv, NEW w \in Workers, Save(w)
  PROVE  IInv'
<1> DEFINE t == [work[w] EXCEPT !.pc = "look", !.row = None]
<1>1. work[w] # None /\ Entitled(work[w], table, nextId)
  BY DEF Save, At, IInv, Workings
<1>2. t \in Work /\ t.row = None /\ t.pc = "look"
  BY <1>1 DEF Entitled, Work, Steps, Lookups
<1>3. work' = [work EXCEPT ![w] = t] /\ UNCHANGED <<cooling, nextId, cache, faults>>
  BY DEF Save, IInv, TypeOK
<1>4. \A m, k: Of(m, k, table, nextId) => Of(m, k, table', nextId')
  BY <1>3, SaveKeepsUsers DEF Of
<1>5. TypeOK'
  BY <1>2, <1>3, SaveKeepsUsers DEF IInv, TypeOK
<1>6. CacheGenuine' /\ IdsUnique'
  BY <1>3, <1>4, SaveKeepsUsers DEF IInv, CacheGenuine, IdsUnique
<1>7. Workings'
  <2> SUFFICES ASSUME NEW v \in Workers, work'[v] # None
               PROVE  Entitled(work'[v], table', nextId')
    BY DEF Workings
  <2>1. CASE v = w
    BY <1>2, <1>3, <2>1 DEF Entitled, IInv, TypeOK
  <2>2. CASE v # w
    BY <1>3, <1>4, <2>2 DEF Entitled, IInv, TypeOK, Workings
  <2> QED BY <2>1, <2>2
<1> QED BY <1>5, <1>6, <1>7 DEF IInv

(* A new row has an id that nobody holds a mapping of. *)
LEMMA CreateIInv ==
  ASSUME IInv, NEW w \in Workers, Create(w)
  PROVE  IInv'
<1>1. work[w] # None /\ Entitled(work[w], table, nextId) /\ work[w].name \in Names
  BY DEF Create, At, IInv, Workings, Entitled, Work
<1>2. CASE TableRead(User(w)) = {}
  <2> DEFINE new == [id |-> nextId, user |-> User(w), name |-> work[w].name]
             t   == [work[w] EXCEPT !.pc = "look"]
  <2>1. new \in Row
    BY <1>1, ConstantsAssumption DEF Row, User, Entitled, Work, IInv, TypeOK
  <2>2. /\ table' = table \cup {new} /\ nextId' = nextId + 1
        /\ work' = [work EXCEPT ![w] = t] /\ UNCHANGED <<cooling, cache, faults>>
    BY <1>2 DEF Create, NewId, Goto, IInv, TypeOK
  <2>3. \A m, k: Of(m, k, table, nextId) => Of(m, k, table', nextId')
    BY <2>2 DEF Of, IInv, TypeOK, Row
  <2>4. Entitled(t, table', nextId')
    BY <1>1, <2>3 DEF Entitled, Work, Steps, Lookups
  <2>5. TypeOK'
    BY <2>1, <2>2, <2>4 DEF IInv, TypeOK, Entitled, Row
  <2>6. CacheGenuine'
    BY <2>2, <2>3 DEF IInv, CacheGenuine
  <2>7. IdsUnique'
    BY <2>2 DEF IInv, TypeOK, IdsUnique, Row
  <2>8. Workings'
    BY <2>2, <2>3, <2>4 DEF IInv, TypeOK, Workings, Entitled
  <2> QED BY <2>5, <2>6, <2>7, <2>8 DEF IInv
<1>3. CASE TableRead(User(w)) # {}
  <2>1. work' = [work EXCEPT ![w] = Failed(w)] /\ UNCHANGED <<Database, cache, cooling, faults>>
    BY <1>3 DEF Create
  <2> QED BY <1>1, <2>1, FailedEntitled, OneWorkerMoves DEF IInv, TypeOK
<1> QED BY <1>2, <1>3

-----------------------------------------------------------------------------
(* Taking mappings away, and telling the workers, takes nothing from what   *)
(* they are entitled to.                                                    *)
LEMMA HurtEntitled ==
  ASSUME IInv, NEW users, Hurt(users), table' \subseteq table, nextId' = nextId
  PROVE  work' \in [Workers -> Work \cup {None}] /\ Workings'
<1>1. \A w \in Workers: work[w] # None => Entitled(work[w], table', nextId')
  BY DEF IInv, Workings, Entitled, Of
<1>2. ASSUME NEW w \in Workers
      PROVE  work'[w] \in Work \cup {None}
             /\ (work'[w] # None => Entitled(work'[w], table', nextId'))
  <2>1. CASE work[w] # None /\ User(w) \in users
    <3>1. work'[w] = [work[w] EXCEPT !.hurt = TRUE]
      BY <2>1 DEF Hurt
    <3>2. Entitled(work'[w], table', nextId')
      BY <1>1, <2>1, <3>1 DEF Entitled, Work
    <3> QED BY <3>2 DEF Entitled
  <2>2. CASE ~ (work[w] # None /\ User(w) \in users)
    <3>1. work'[w] = work[w]
      BY <2>2 DEF Hurt
    <3> QED BY <1>1, <3>1 DEF IInv, TypeOK
  <2> QED BY <2>1, <2>2
<1> QED BY <1>2 DEF Workings, Hurt

(* What happens around the workers keeps the invariant. *)
LEMMA EnvironmentIInv ==
  ASSUME IInv, \/ \E i \in Ids: CoolDown(i)
               \/ \E u \in Users: Evict(u)
               \/ Cleanup \/ Restart
  PROVE  IInv'
<1>1. ASSUME NEW i \in Ids, CoolDown(i) PROVE IInv'
  BY <1>1 DEF CoolDown, Database, IInv, TypeOK, CacheGenuine, IdsUnique, Workings
<1>2. ASSUME NEW u \in Users, Evict(u) PROVE IInv'
  <2>1. UNCHANGED <<cooling, table, nextId, faults>>
    BY <1>2 DEF Evict, Database
  <2>2. work' \in [Workers -> Work \cup {None}] /\ Workings'
    BY <1>2, <2>1, HurtEntitled DEF Evict
  <2>3. TypeOK' /\ CacheGenuine' /\ IdsUnique'
    BY <1>2, <2>1, <2>2 DEF Evict, IInv, TypeOK, CacheGenuine, IdsUnique
  <2> QED BY <2>2, <2>3 DEF IInv
<1>3. ASSUME Cleanup PROVE IInv'
  <2>1. PICK stale \in SUBSET table: table' = table \ stale /\ Hurt({r.user: r \in stale})
    BY <1>3 DEF Cleanup
  <2>2. table' \subseteq table /\ UNCHANGED <<cooling, nextId, cache>> /\ faults' \in 0..MaxFaults
    BY <1>3, <2>1, ConstantsAssumption DEF Cleanup, Fault, IInv, TypeOK
  <2>3. work' \in [Workers -> Work \cup {None}] /\ Workings'
    BY <2>1, <2>2, HurtEntitled
  <2>4. TypeOK' /\ CacheGenuine' /\ IdsUnique'
    BY <2>2, <2>3 DEF IInv, TypeOK, CacheGenuine, IdsUnique, Of
  <2> QED BY <2>3, <2>4 DEF IInv
<1>4. ASSUME Restart PROVE IInv'
  BY <1>4, ConstantsAssumption
  DEF Restart, Fault, Empty, Database, IInv, TypeOK, CacheGenuine, IdsUnique, Workings
<1> QED BY <1>1, <1>2, <1>3, <1>4

(* Every step keeps the invariant. *)
LEMMA NextIInv ==
  ASSUME IInv, [Next]_vars
  PROVE  IInv'
<1>1. CASE UNCHANGED vars
  BY <1>1 DEF vars, IInv, TypeOK, CacheGenuine, IdsUnique, Workings
<1>2. ASSUME NEW w \in Workers, Step(w) PROVE IInv'
  BY <1>2, LookupHitIInv, LookupQueryIInv, QuietStepsIInv, SaveIInv, CreateIInv DEF Step
<1>3. ASSUME NEW w \in Workers, Fails(w) PROVE IInv'
  BY <1>3, QuietStepsIInv
<1>4. ASSUME NEW w \in Workers, NEW i \in Ids, Start(w, i) PROVE IInv'
  BY <1>4, StartIInv
<1> QED BY <1>1, <1>2, <1>3, <1>4, EnvironmentIInv DEF Next

(* The inductive invariant holds throughout. *)
THEOREM Invariance == Spec => []IInv
BY InitIInv, NextIInv, PTL DEF Spec

(* Every variable always holds a value of its kind. *)
THEOREM TypeCorrect == Spec => []TypeOK
BY Invariance, PTL DEF IInv

(* A message is always sent as the bot or as its sender's own Matrix user.  *)
THEOREM AlwaysSentAsSender == Spec => []SentAsSender
<1>1. IInv => SentAsSender
  BY DEF IInv, Workings, Entitled, Of, SentAsSender, At, User
<1> QED BY <1>1, Invariance, PTL

(* No step gives a row to another user. *)
THEOREM RowsStayOwn == Spec => RowStaysOwn
<1>1. ASSUME IInv, [Next]_vars
      PROVE  [\A r \in table: \A s \in table': r.id = s.id => r.user = s.user]_vars
  <2>1. ASSUME NEW w \in Workers, Save(w)
        PROVE  \A r \in table: \A s \in table': r.id = s.id => r.user = s.user
    BY <2>1, SaveKeepsUsers, <1>1 DEF IInv, IdsUnique
  <2>2. ASSUME NEW w \in Workers, Create(w)
        PROVE  \A r \in table: \A s \in table': r.id = s.id => r.user = s.user
    BY <1>1, <2>2 DEF Create, NewId, Database, IInv, TypeOK, IdsUnique, Row
  <2>3. CASE table' \subseteq table
    BY <1>1, <2>3 DEF IInv, IdsUnique
  <2>4. \/ \E w \in Workers: Save(w) \/ Create(w)
        \/ table' \subseteq table
    BY <1>1 DEF Next, Step, Start, LookupHit, LookupQuery, GetUser, Fails, Done, CoolDown,
                Evict, Cleanup, Restart, Database, vars
  <2> QED BY <2>1, <2>2, <2>3, <2>4
<1> QED BY <1>1, Invariance, PTL DEF Spec, RowStaysOwn

-----------------------------------------------------------------------------
(* What a handler that is done goes on with.                                *)
ReplyOf(w) ==
  IF At(w, "done")
  THEN [for |-> User(w), entry |-> IF work[w].row = None THEN None ELSE Entry(work[w].row)]
  ELSE None

(* A step that leaves the rows' users and the replies is none of the        *)
(* directory.                                                               *)
LEMMA DirectoryStutters ==
  ASSUME {Entry(r): r \in table}' = {Entry(r): r \in table}, nextId' = nextId,
         \A w \in Workers: ReplyOf(w)' = ReplyOf(w)
  PROVE  UNCHANGED D!directoryVars
BY DEF D!directoryVars, ReplyOf

(* The reply of one worker changes.                                         *)
LEMMA ReplyMoves ==
  ASSUME NEW w \in Workers, NEW x, ReplyOf(w)' = x,
         \A v \in Workers \ {w}: ReplyOf(v)' = ReplyOf(v)
  PROVE  [v \in Workers |-> ReplyOf(v)]' = [[v \in Workers |-> ReplyOf(v)] EXCEPT ![w] = x]
OBVIOUS

(* A worker that goes on with its user, the database as it is, replies or   *)
(* does nothing: what it holds at the end was its user's, and is nobody     *)
(* else's.                                                                  *)
LEMMA WorkerReplies ==
  ASSUME IInv, IInv', UNCHANGED Database, NEW w \in Workers, work[w] # None, ~ At(w, "done"),
         \A v \in Workers \ {w}: work'[v] = work[v],
         work'[w] # None, work'[w].id = work[w].id
  PROVE  [D!Next]_(D!directoryVars)
<1>1. \A v \in Workers \ {w}: ReplyOf(v)' = ReplyOf(v)
  BY DEF ReplyOf, At, User
<1>2. ReplyOf(w) = None
  BY DEF ReplyOf
<1>3. UNCHANGED <<table, nextId>>
  BY DEF Database
<1>4. CASE ~ At(w, "done")'
  <2>1. ReplyOf(w)' = None
    BY <1>4 DEF ReplyOf
  <2> QED BY <1>1, <1>2, <1>3, <2>1, DirectoryStutters
<1>5. CASE At(w, "done")'
  <2> DEFINE entry == IF work'[w].row = None THEN None ELSE Entry(work'[w].row)
  <2>1. ReplyOf(w)' = [for |-> User(w), entry |-> entry]
    BY <1>5 DEF ReplyOf, User, Entry
  <2>2. work[w] \in Work /\ Entitled(work'[w], table', nextId')
    BY DEF IInv, Workings, TypeOK
  <2>3. PICK u \in Users: u = User(w)
    BY <2>2, ConstantsAssumption DEF User, Work
  <2>4. entry \in D!GivenTo(User(w)) \cup {None}
    <3>1. CASE work'[w].row = None
      BY <3>1
    <3>2. CASE work'[w].row # None
      <4> DEFINE m == work'[w].row
      <4>1. Of(m, User(w), table, nextId)
        BY <1>3, <2>2, <3>2 DEF Entitled, User
      <4>2. m.id \in 1..(nextId - 1) /\ m.user = User(w)
        BY <4>1 DEF Of, Row, IInv, TypeOK
      <4>3. \A e \in {Entry(r): r \in table}: e.id = m.id => e.user = User(w)
        BY <4>1 DEF Of, Entry
      <4> QED BY <3>2, <4>2, <4>3 DEF D!GivenTo, Entry
    <3> QED BY <3>1, <3>2
  <2> HIDE DEF entry
  <2>5. [v \in Workers |-> ReplyOf(v)]' =
          [[v \in Workers |-> ReplyOf(v)] EXCEPT ![w] = [for |-> u, entry |-> entry]]
    BY <1>1, <2>1, <2>3, ReplyMoves
  <2>6. D!Reply(w, u)
    BY <1>2, <1>3, <2>3, <2>4, <2>5 DEF D!Reply, ReplyOf
  <2> QED BY <2>6 DEF D!Next
<1> QED BY <1>4, <1>5

(* Writing a mapping back leaves every row with its id and its user.        *)
LEMMA SaveKeepsEntries ==
  ASSUME IInv, NEW w \in Workers, Save(w)
  PROVE  {Entry(r): r \in table}' = {Entry(r): r \in table}
<1>1. /\ work[w].row \in Row /\ work[w].name \in Names
      /\ \A r \in table: r.id = work[w].row.id => r.user = work[w].row.user
  BY DEF Save, At, IInv, Workings, Entitled, Work, Of
<1> DEFINE m == [work[w].row EXCEPT !.name = work[w].name]
           saved(r) == IF r.id = work[w].row.id THEN m ELSE r
<1>2. table' = {saved(r): r \in table}
  BY DEF Save
<1>3. m.id = work[w].row.id /\ m.user = work[w].row.user
  BY <1>1 DEF Row
<1>4. \A r \in table: Entry(saved(r)) = Entry(r)
  BY <1>1, <1>3 DEF Entry
<1> HIDE DEF saved
<1> QED BY <1>2, <1>4

(* A new row is an entry of a user who has none, under a new id.            *)
LEMMA CreateEnrolls ==
  ASSUME IInv, IInv', NEW w \in Workers, Create(w)
  PROVE  [D!Next]_(D!directoryVars)
<1>1. /\ work[w] # None /\ ~ At(w, "done") /\ work[w] \in Work
  BY DEF Create, At, IInv, TypeOK
<1>2. CASE TableRead(User(w)) = {}
  <2> DEFINE r == [id |-> nextId, user |-> User(w), name |-> work[w].name]
             t == [work[w] EXCEPT !.pc = "look"]
  <2>1. /\ table' = table \cup {r} /\ nextId' = nextId + 1
        /\ work' = [work EXCEPT ![w] = t]
    BY <1>2 DEF Create, NewId, Goto
  <2>2. \A v \in Workers: ReplyOf(v)' = ReplyOf(v)
    <3>1. \A v \in Workers \ {w}: work'[v] = work[v]
      BY <2>1 DEF IInv, TypeOK
    <3>2. work'[w].pc = "look"
      BY <1>1, <2>1 DEF IInv, TypeOK, Work
    <3> QED BY <1>1, <3>1, <3>2 DEF ReplyOf, At, User
  <2>3. {Entry(s): s \in table}' = {Entry(s): s \in table} \cup {Entry(r)}
    BY <2>1
  <2>4. \A e \in {Entry(s): s \in table}: e.user # User(w)
    BY <1>2 DEF TableRead, Entry
  <2>5. User(w) \in Users /\ Entry(r) = [id |-> nextId, user |-> User(w)]
    BY <1>1, ConstantsAssumption DEF User, Work, Entry
  <2>6. D!Enroll(User(w))
    BY <2>1, <2>2, <2>3, <2>4, <2>5 DEF D!Enroll, ReplyOf
  <2> QED BY <2>5, <2>6 DEF D!Next
<1>3. CASE TableRead(User(w)) # {}
  <2>1. work' = [work EXCEPT ![w] = Failed(w)] /\ UNCHANGED Database
    BY <1>3 DEF Create
  <2>2. Failed(w) \in Work /\ Failed(w).id = work[w].id
    BY <1>1 DEF Failed, Work, Steps
  <2>3. work'[w] # None /\ work'[w].id = work[w].id /\ \A v \in Workers \ {w}: work'[v] = work[v]
    BY <2>1, <2>2, NoneAssumption DEF IInv, TypeOK
  <2> QED BY <1>1, <2>1, <2>3, WorkerReplies
<1> QED BY <1>2, <1>3

(* A lookup, a fetched profile and a failure move one worker on, which      *)
(* keeps its user, and touch no row.                                        *)
LEMMA WorkerMoves ==
  ASSUME IInv, IInv', NEW w \in Workers,
         LookupHit(w) \/ LookupQuery(w) \/ GetUser(w) \/ Fails(w)
  PROVE  /\ UNCHANGED Database /\ work[w] # None /\ ~ At(w, "done")
         /\ \A v \in Workers \ {w}: work'[v] = work[v]
         /\ work'[w] # None /\ work'[w].id = work[w].id
<1>1. UNCHANGED Database /\ work[w] # None /\ work[w] \in Work /\ ~ At(w, "done")
  BY DEF LookupHit, LookupQuery, GetUser, Fails, At, Lookups, IInv, TypeOK
<1>2. \E t \in Work: t.id = work[w].id /\ work' = [work EXCEPT ![w] = t]
  <2>1. CASE LookupHit(w)
    <3>1. Of(cache[Key(w)], Key(w), table, nextId)
      BY <2>1, LookupKey DEF LookupHit, IInv, CacheGenuine
    <3> QED BY <2>1, <3>1, AnsweredEntitled DEF LookupHit, Entitled
  <2>2. CASE LookupQuery(w)
    <3>1. PICK m: Answered(w, m) /\ (m = None \/ Of(m, Key(w), table, nextId))
      BY <2>2, RowOf DEF LookupQuery, TableRead
    <3> QED BY <2>2, <3>1, AnsweredEntitled DEF LookupQuery, Entitled
  <2>3. CASE GetUser(w)
    <3>1. PICK n \in Names: work' = [work EXCEPT ![w].name = n, ![w].pc = "find"]
      BY <2>3 DEF GetUser
    <3> DEFINE t == [work[w] EXCEPT !.name = n, !.pc = "find"]
    <3>2. t \in Work /\ t.id = work[w].id
      BY <1>1 DEF Work, Steps, Lookups
    <3>3. work' = [work EXCEPT ![w] = t]
      BY <3>1 DEF IInv, TypeOK
    <3> QED BY <3>2, <3>3
  <2>4. CASE Fails(w)
    <3>1. Failed(w) \in Work /\ Failed(w).id = work[w].id
      BY <1>1 DEF Failed, Work, Steps
    <3> QED BY <2>4, <3>1 DEF Fails
  <2> QED BY <2>1, <2>2, <2>3, <2>4
<1>3. PICK t \in Work: t.id = work[w].id /\ work' = [work EXCEPT ![w] = t]
  BY <1>2
<1>4. work'[w] = t /\ \A v \in Workers \ {w}: work'[v] = work[v]
  BY <1>3 DEF IInv, TypeOK
<1> QED BY <1>1, <1>3, <1>4, NoneAssumption

(* Telling the workers of a loss leaves their replies alone.                *)
LEMMA HurtKeepsReplies ==
  ASSUME IInv, NEW users, Hurt(users)
  PROVE  \A w \in Workers: ReplyOf(w)' = ReplyOf(w)
<1> SUFFICES ASSUME NEW w \in Workers
             PROVE  ReplyOf(w)' = ReplyOf(w)
  OBVIOUS
<1>1. CASE work'[w] = work[w]
  BY <1>1 DEF ReplyOf, At, User
<1>2. CASE work[w] # None /\ work'[w] = [work[w] EXCEPT !.hurt = TRUE]
  <2>1. work[w] \in Work
    BY <1>2 DEF IInv, TypeOK
  <2>2. /\ work'[w] \in Work /\ work'[w].pc = work[w].pc
        /\ work'[w].id = work[w].id /\ work'[w].row = work[w].row
    BY <1>2, <2>1 DEF Work
  <2> QED BY <1>2, <2>2, NoneAssumption DEF ReplyOf, At, User
<1> QED BY <1>1, <1>2 DEF Hurt

(* The steps that are none of the directory, and those that only end        *)
(* replies or take entries away.                                            *)
LEMMA QuietStepsOfDirectory ==
  ASSUME IInv, \/ \E w \in Workers: Save(w) \/ Done(w) \/ \E i \in Ids: Start(w, i)
               \/ \E i \in Ids: CoolDown(i)
               \/ \E u \in Users: Evict(u)
               \/ UNCHANGED vars
  PROVE  [D!Next]_(D!directoryVars)
<1>1. ASSUME NEW w \in Workers, Save(w)
      PROVE  UNCHANGED D!directoryVars
  <2>1. nextId' = nextId /\ work' = [work EXCEPT ![w].pc = "look", ![w].row = None]
    BY <1>1 DEF Save
  <2>2. work[w] \in Work /\ ~ At(w, "done")
    BY <1>1 DEF Save, At, IInv, TypeOK
  <2>3. work'[w].pc = "look" /\ \A v \in Workers \ {w}: work'[v] = work[v]
    BY <2>1, <2>2 DEF IInv, TypeOK, Work
  <2>4. \A v \in Workers: ReplyOf(v)' = ReplyOf(v)
    BY <2>2, <2>3 DEF ReplyOf, At, User
  <2> QED BY <1>1, <2>1, <2>4, SaveKeepsEntries, DirectoryStutters
<1>2. ASSUME NEW w \in Workers, NEW i \in Ids, Start(w, i)
      PROVE  UNCHANGED D!directoryVars
  <2>1. UNCHANGED <<table, nextId>> /\ work[w] = None
    BY <1>2 DEF Start, Database
  <2>2. work'[w].pc # "done" /\ \A v \in Workers \ {w}: work'[v] = work[v]
    BY <1>2 DEF Start, IInv, TypeOK
  <2>3. \A v \in Workers: ReplyOf(v)' = ReplyOf(v)
    BY <2>1, <2>2 DEF ReplyOf, At, User
  <2> QED BY <2>1, <2>3, DirectoryStutters
<1>3. ASSUME NEW w \in Workers, Done(w)
      PROVE  D!Next
  <2>1. UNCHANGED <<table, nextId>> /\ work' = [work EXCEPT ![w] = None]
    BY <1>3 DEF Done, Database
  <2>2. work'[w] = None /\ \A v \in Workers \ {w}: work'[v] = work[v]
    BY <2>1 DEF IInv, TypeOK
  <2>3. ReplyOf(w)' = None /\ \A v \in Workers \ {w}: ReplyOf(v)' = ReplyOf(v)
    BY <2>2 DEF ReplyOf, At, User
  <2>4. D!Used(w)
    BY <2>1, <2>3, ReplyMoves DEF D!Used, ReplyOf
  <2> QED BY <2>4 DEF D!Next
<1>4. CASE (\E i \in Ids: CoolDown(i)) \/ UNCHANGED vars
  <2>1. UNCHANGED <<table, nextId, work>>
    BY <1>4 DEF CoolDown, Database, vars
  <2> QED BY <2>1, DirectoryStutters DEF ReplyOf, At, User
<1>5. ASSUME NEW u \in Users, Evict(u)
      PROVE  UNCHANGED D!directoryVars
  <2>1. UNCHANGED <<table, nextId>> /\ Hurt({u})
    BY <1>5 DEF Evict, Database
  <2> QED BY <2>1, DirectoryStutters, HurtKeepsReplies
<1> QED BY <1>1, <1>2, <1>3, <1>4, <1>5

(* The mappings are a directory, for any users, aliases, handlers, cleanups *)
(* and restarts (sync_feishu_user_mapping, cleanup_stale_user_mappings).    *)
THEOREM ImplementsDirectory == Spec => DirectorySpec
<1>1. Init => D!Init
  BY DEF Init, Empty, D!Init, At
<1>2. ASSUME IInv, IInv', [Next]_vars
      PROVE  [D!Next]_(D!directoryVars)
  <2>1. ASSUME NEW w \in Workers, LookupHit(w) \/ LookupQuery(w) \/ GetUser(w) \/ Fails(w)
        PROVE  [D!Next]_(D!directoryVars)
    BY <1>2, <2>1, WorkerMoves, WorkerReplies
  <2>2. ASSUME NEW w \in Workers, Create(w)
        PROVE  [D!Next]_(D!directoryVars)
    BY <1>2, <2>2, CreateEnrolls
  <2>3. CASE Cleanup
    <3>1. PICK stale \in SUBSET table: table' = table \ stale /\ Hurt({r.user: r \in stale})
      BY <2>3 DEF Cleanup
    <3>2. nextId' = nextId /\ \A w \in Workers: ReplyOf(w)' = ReplyOf(w)
      BY <1>2, <2>3, <3>1, HurtKeepsReplies DEF Cleanup
    <3>3. {Entry(r): r \in table}' \subseteq {Entry(r): r \in table}
      BY <3>1
    <3>4. D!Drop
      BY <3>2, <3>3 DEF D!Drop, ReplyOf
    <3> QED BY <3>4 DEF D!Next
  <2>4. CASE Restart
    <3>1. UNCHANGED <<table, nextId>> /\ \A w \in Workers: work'[w] = None
      BY <2>4 DEF Restart, Database, Empty
    <3>2. D!Forget
      BY <3>1 DEF D!Forget, At
    <3> QED BY <3>2 DEF D!Next
  <2> QED BY <1>2, <2>1, <2>2, <2>3, <2>4, QuietStepsOfDirectory DEF Next, Step
<1> QED BY <1>1, <1>2, Invariance, PTL DEF Spec, DirectorySpec, D!Spec

-----------------------------------------------------------------------------
(* A lookup of user k finds a mapping. *)
Kept(k) == cache[k] # None \/ \E r \in table: r.user = k

(* A worker that has seen or made its user's mapping finds it at the end.  *)
Assured(t) ==
  /\ t.pc \in {"save", "look"} /\ ~ t.hurt => Kept(UserOf[t.id])
  /\ t.pc = "done" /\ t.row = None => t.hurt

AssuredInv == \A w \in Workers: work[w] # None => Assured(work[w])

(* A step of one worker that takes no mapping away. *)
LEMMA OneAssured ==
  ASSUME IInv, AssuredInv, NEW w \in Workers, NEW t, work' = [work EXCEPT ![w] = t],
         \A k \in Users: Kept(k) => Kept(k)', t # None => Assured(t)'
  PROVE  AssuredInv'
<1> SUFFICES ASSUME NEW v \in Workers, work'[v] # None PROVE Assured(work[v])'
  BY DEF AssuredInv
<1>1. CASE v = w
  <2>1. work'[v] = t
    BY <1>1 DEF IInv, TypeOK
  <2> QED BY <2>1 DEF Assured, Kept
<1>2. CASE v # w
  <2>1. work'[v] = work[v] /\ Assured(work[v]) /\ work[v] \in Work
    BY <1>2 DEF IInv, TypeOK, AssuredInv
  <2>2. UserOf[work[v].id] \in Users
    BY <2>1, ConstantsAssumption DEF Work
  <2> QED BY <2>1, <2>2 DEF Assured, Kept
<1> QED BY <1>1, <1>2

(* A lookup that finds a mapping found its own user's; one that looks      *)
(* again after that cannot miss.                                           *)
LEMMA LookupAssured ==
  ASSUME IInv, AssuredInv, NEW w \in Workers, LookupHit(w) \/ LookupQuery(w)
  PROVE  AssuredInv'
<1> PICK old: old = work[w]
  OBVIOUS
<1>1. /\ old \in Work /\ old # None /\ old.pc \in Lookups /\ Assured(old)
      /\ Key(w) \in Ids \cup Users /\ (old.pc # "direct" => Key(w) = User(w))
      /\ User(w) = UserOf[old.id] /\ User(w) \in Users
  BY LookupKey, ConstantsAssumption DEF LookupHit, LookupQuery, AssuredInv, User, Work
<1>2. PICK m: /\ Answered(w, m)
              /\ \/ m = cache[Key(w)] /\ m # None /\ UNCHANGED cache
                 \/ m = None /\ TableRead(Key(w)) = {} /\ cache[Key(w)] = None /\ UNCHANGED cache
                 \/ m \in TableRead(Key(w)) /\ cache' = [cache EXCEPT ![Key(w)] = m]
  BY DEF LookupHit, LookupQuery
<1>3. m # None => /\ m \in Row /\ m.user = Key(w)
                  /\ Kept(Key(w))
  BY <1>1, <1>2 DEF IInv, TypeOK, CacheGenuine, Of, TableRead, Kept
<1>4. m # None => Key(w) = User(w) /\ Kept(User(w))
  <2>1. m # None => Key(w) \in Users
    BY <1>3 DEF Row
  <2>2. Key(w) \in Users /\ old.pc = "direct" => Key(w) = User(w)
    BY <1>1, ConstantsAssumption DEF Key, User, At, Work
  <2> QED BY <1>1, <1>3, <2>1, <2>2
<1>5. /\ UNCHANGED table
      /\ \A k \in Users: Kept(k) => Kept(k)'
  <2>1. UNCHANGED table
    BY DEF LookupHit, LookupQuery, Database
  <2>2. CASE UNCHANGED cache
    BY <2>1, <2>2 DEF Kept
  <2>3. CASE m \in TableRead(Key(w)) /\ cache' = [cache EXCEPT ![Key(w)] = m]
    BY <2>1, <2>3 DEF Kept, IInv, TypeOK, TableRead
  <2> QED BY <1>2, <2>1, <2>2, <2>3
<1> PICK next: next = NextStep(old.pc, m, old.name)
  OBVIOUS
<1> PICK t: t = [old EXCEPT !.pc = next,
                            !.row = IF next \in {"save", "done"} THEN m ELSE None,
                            !.name = IF next = "done" THEN None ELSE @]
  OBVIOUS
<1>6. work' = [work EXCEPT ![w] = t]
  BY <1>2 DEF Answered, IInv, TypeOK
<1>7. /\ t.pc = next /\ t.id = old.id /\ t.hurt = old.hurt
      /\ next = "done" => t.row = m
  BY <1>1 DEF Work
<1>8. /\ next \in {"save", "look"} => m # None
      /\ next = "done" => old.pc = "look"
  BY <1>1 DEF NextStep, Lookups
<1>9. old.pc = "look" /\ m = None => old.hurt
  <2> SUFFICES ASSUME old.pc = "look", m = None PROVE old.hurt
    OBVIOUS
  <2>1. Key(w) = User(w)
    BY <1>1 DEF Lookups
  <2>2. \A r \in table: r # None
    BY NoneAssumption DEF IInv, TypeOK
  <2>3. TableRead(Key(w)) = {} /\ cache[Key(w)] = None
    BY <1>2, <2>2 DEF TableRead
  <2>4. ~ Kept(User(w))
    BY <2>1, <2>3 DEF Kept, TableRead
  <2> QED BY <1>1, <2>4 DEF Assured
<1>10. Assured(t)'
  BY <1>1, <1>4, <1>5, <1>7, <1>8, <1>9 DEF Assured
<1> QED BY <1>5, <1>6, <1>10, OneAssured

(* The other steps of a worker. *)
LEMMA StepAssured ==
  ASSUME IInv, AssuredInv, NEW w \in Workers,
         GetUser(w) \/ Save(w) \/ Create(w) \/ Done(w) \/ Fails(w) \/ \E i \in Ids: Start(w, i)
  PROVE  AssuredInv'
<1>1. ASSUME work[w] # None
      PROVE  /\ work[w] \in Work /\ User(w) \in Users /\ User(w) = UserOf[work[w].id]
             /\ Assured(work[w])
  BY <1>1, ConstantsAssumption DEF IInv, TypeOK, Work, User, AssuredInv
<1>2. ASSUME work[w] # None PROVE Assured(Failed(w))'
  BY <1>1, <1>2 DEF Assured, Failed, Work
<1>3. ASSUME UNCHANGED <<table, cache>> PROVE \A k \in Users: Kept(k) => Kept(k)'
  BY <1>3 DEF Kept
<1>4. CASE GetUser(w)
  <2>1. PICK n \in Names: work' = [work EXCEPT ![w].name = n, ![w].pc = "find"]
    BY <1>4 DEF GetUser
  <2> PICK t: t = [work[w] EXCEPT !.name = n, !.pc = "find"]
    OBVIOUS
  <2>2. work' = [work EXCEPT ![w] = t] /\ work[w] # None /\ UNCHANGED <<table, cache>>
    BY <1>4, <2>1 DEF GetUser, At, Database, IInv, TypeOK
  <2>3. t.pc = "find"
    BY <1>1, <2>2 DEF Work
  <2> QED BY <1>3, <2>2, <2>3, OneAssured DEF Assured
<1>5. CASE Save(w)
  <2> PICK t: t = [work[w] EXCEPT !.pc = "look", !.row = None]
    OBVIOUS
  <2>1. /\ work' = [work EXCEPT ![w] = t] /\ work[w] # None /\ work[w].pc = "save"
        /\ UNCHANGED cache
    BY <1>5 DEF Save, At, IInv, TypeOK
  <2>2. t.pc = "look" /\ t.id = work[w].id /\ t.hurt = work[w].hurt
    BY <1>1, <2>1 DEF Work
  <2>3. \A r \in table: \E s \in table': s.user = r.user
    <3> SUFFICES ASSUME NEW r \in table PROVE \E s \in table': s.user = r.user
      OBVIOUS
    <3>1. Of(work[w].row, User(w), table, nextId) /\ work[w].name \in Names
      BY <1>5 DEF Save, At, IInv, Workings, Entitled, Work, User
    <3> PICK s: s = IF r.id = work[w].row.id
                    THEN [work[w].row EXCEPT !.name = work[w].name] ELSE r
      OBVIOUS
    <3>2. s \in table'
      BY <1>5 DEF Save
    <3>3. s.user = r.user
      BY <3>1 DEF Of, Row
    <3> QED BY <3>2, <3>3
  <2>4. \A k \in Users: Kept(k) => Kept(k)'
    BY <2>1, <2>3 DEF Kept
  <2>5. Assured(t)'
    BY <1>1, <2>1, <2>2, <2>4 DEF Assured
  <2> QED BY <2>1, <2>4, <2>5, OneAssured
<1>6. CASE Create(w)
  <2>1. work[w] # None /\ UNCHANGED cache
    BY <1>6 DEF Create, At
  <2>2. CASE TableRead(User(w)) = {}
    <3> PICK t: t = [work[w] EXCEPT !.pc = "look"]
      OBVIOUS
    <3> PICK new: new = [id |-> NewId, user |-> User(w), name |-> work[w].name]
      OBVIOUS
    <3>1. work' = [work EXCEPT ![w] = t] /\ table' = table \cup {new}
      BY <1>6, <2>2 DEF Create, Goto, IInv, TypeOK
    <3>2. t.pc = "look" /\ t.id = work[w].id /\ new.user = User(w)
      BY <1>1, <2>1 DEF Work
    <3>3. \A k \in Users: Kept(k) => Kept(k)'
      BY <2>1, <3>1 DEF Kept
    <3>4. Assured(t)'
      <4> PICK k: k = User(w)
        OBVIOUS
      <4>1. Kept(k)' /\ UserOf[t.id] = k
        BY <1>1, <2>1, <3>1, <3>2 DEF Kept
      <4> QED BY <3>2, <4>1 DEF Assured
    <3> QED BY <3>1, <3>3, <3>4, OneAssured
  <2>3. CASE TableRead(User(w)) # {}
    <3>1. work' = [work EXCEPT ![w] = Failed(w)] /\ UNCHANGED <<table, cache>>
      BY <1>6, <2>3 DEF Create, Database
    <3> PICK t: t = Failed(w)
      OBVIOUS
    <3>2. Assured(t)'
      BY <1>1, <2>1, <3>1 DEF Assured, Failed, Work
    <3> QED BY <1>3, <3>1, <3>2, OneAssured
  <2> QED BY <2>2, <2>3
<1>7. CASE Done(w)
  BY <1>3, <1>7, OneAssured DEF Done, Database
<1>8. CASE Fails(w)
  <2>1. work' = [work EXCEPT ![w] = Failed(w)] /\ UNCHANGED <<table, cache>> /\ work[w] # None
    BY <1>8 DEF Fails, Database
  <2> PICK t: t = Failed(w)
    OBVIOUS
  <2>2. Assured(t)'
    BY <1>1, <2>1 DEF Assured, Failed, Work
  <2> QED BY <1>3, <2>1, <2>2, OneAssured
<1>9. ASSUME NEW i \in Ids, Start(w, i) PROVE AssuredInv'
  <2> PICK t: t = [id |-> i, pc |-> IF i \in cooling THEN "direct" ELSE "profile",
                   name |-> None, row |-> None, hurt |-> FALSE]
    OBVIOUS
  <2>1. work' = [work EXCEPT ![w] = t] /\ UNCHANGED <<table, cache>>
        /\ t.pc \notin {"save", "look", "done"}
    BY <1>9 DEF Start, Database
  <2> QED BY <1>3, <2>1, OneAssured DEF Assured
<1> QED BY <1>4, <1>5, <1>6, <1>7, <1>8, <1>9

(* Whoever takes a mapping away hurts the syncs that rely on it. *)
LEMMA EnvironmentAssured ==
  ASSUME IInv, AssuredInv, \/ \E i \in Ids: CoolDown(i)
                           \/ \E u \in Users: Evict(u)
                           \/ Cleanup \/ Restart \/ UNCHANGED vars
  PROVE  AssuredInv'
<1>1. ASSUME UNCHANGED <<work, table, cache>> PROVE AssuredInv'
  BY <1>1 DEF AssuredInv, Assured, Kept
<1>2. ASSUME NEW users, Hurt(users), \A k \in Users \ users: Kept(k) => Kept(k)'
      PROVE  AssuredInv'
  <2> SUFFICES ASSUME NEW w \in Workers, work'[w] # None PROVE Assured(work[w])'
    BY DEF AssuredInv
  <2>1. CASE work[w] # None /\ User(w) \in users
    <3> PICK t: t = [work[w] EXCEPT !.hurt = TRUE]
      OBVIOUS
    <3>1. work'[w] = t /\ t.hurt = TRUE
      BY <1>2, <2>1 DEF Hurt, IInv, TypeOK, Work
    <3> QED BY <3>1 DEF Assured
  <2>2. CASE ~ (work[w] # None /\ User(w) \in users)
    <3>1. work'[w] = work[w]
      BY <1>2, <2>2 DEF Hurt
    <3>2. Assured(work[w]) /\ User(w) \notin users /\ User(w) = UserOf[work[w].id]
          /\ User(w) \in Users
      BY <2>2, <3>1, ConstantsAssumption DEF AssuredInv, User, IInv, TypeOK, Work
    <3> QED BY <1>2, <3>1, <3>2 DEF Assured
  <2> QED BY <2>1, <2>2
<1>3. ASSUME NEW i \in Ids, CoolDown(i) PROVE AssuredInv'
  BY <1>1, <1>3 DEF CoolDown, Database
<1>4. ASSUME NEW u \in Users, Evict(u) PROVE AssuredInv'
  <2>1. \A k \in Users \ {u}: Kept(k) => Kept(k)'
    BY <1>4 DEF Evict, Database, Kept, IInv, TypeOK
  <2> QED BY <1>2, <1>4, <2>1 DEF Evict
<1>5. ASSUME Cleanup PROVE AssuredInv'
  <2>1. PICK stale \in SUBSET table: table' = table \ stale /\ Hurt({r.user: r \in stale})
    BY <1>5 DEF Cleanup
  <2>2. \A k \in Users \ {r.user: r \in stale}: Kept(k) => Kept(k)'
    BY <1>5, <2>1 DEF Cleanup, Kept
  <2> QED BY <1>2, <2>1, <2>2
<1>6. ASSUME Restart PROVE AssuredInv'
  BY <1>6 DEF Restart, Empty, AssuredInv
<1> QED BY <1>1, <1>3, <1>4, <1>5, <1>6 DEF vars, Database

(* A message goes out as the bot only if its own sync met a failure, lost   *)
(* its user's mapping to a cleanup or the cache, or lost a race to make it: *)
(* for any aliases, sync_feishu_user_mapping finds what it made or saw.     *)
THEOREM AlwaysBotOnlyWhenHurt == Spec => []BotOnlyWhenHurt
<1>1. Init => AssuredInv
  BY DEF Init, Empty, AssuredInv
<1>2. IInv /\ AssuredInv /\ [Next]_vars => AssuredInv'
  BY LookupAssured, StepAssured, EnvironmentAssured DEF Next, Step
<1>3. AssuredInv => BotOnlyWhenHurt
  BY DEF AssuredInv, Assured, BotOnlyWhenHurt, At
<1> QED BY <1>1, <1>2, <1>3, Invariance, PTL DEF Spec
=============================================================================
