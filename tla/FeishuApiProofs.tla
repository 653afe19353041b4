---------------------------- MODULE FeishuApiProofs ----------------------------
(***************************************************************************)
(* Proofs about FeishuApi for any tasks, users, capacity, times to live,   *)
(* numbers of retries and lifetimes of tokens.  Who holds the mutex is     *)
(* what the rest hangs on: one answer at most is on its way to the cache,  *)
(* and the time a token must still be good for is the time it is held.     *)
(***************************************************************************)
EXTENDS FeishuApi, FiniteSetTheorems, TLAPS

(* Where a call is between taking the mutex and dropping it. *)
InClient == {"token", "grant", "request", "reply", "backoff"}

(* Only the first in the queue is in the client; the others wait. *)
LockInv ==
  /\ \A i, j \in 1..Len(mutex): mutex[i] = mutex[j] => i = j
  /\ \A i \in 1..Len(mutex):
       /\ task[mutex[i]] # None
       /\ task[mutex[i]].pc = "wait" \/ (i = 1 /\ task[mutex[i]].pc \in InClient)
  /\ \A t \in Tasks: task[t] # None /\ task[t].pc \in InClient => mutex # <<>> /\ mutex[1] = t

(* What a call relies on at each of its steps. *)
Entitled(c) ==
  /\ c.kind = "profile" => c.user \in Users
  /\ c.pc \in {"lookup", "reply", "done"} => c.kind = "profile"
  /\ c.pc = "reply" => /\ seen[c.user] <= c.ver /\ c.ver <= profile[c.user]
                       /\ c.ver < told[c.user] => c.user \in overtaken
  /\ c.kind = "upload" /\ c.pc \in {"request", "backoff"} => token.real + held > MaxHold
  /\ c.pc = "grant" => granted # None

CallsInv == \A t \in Tasks: task[t] # None => Entitled(task[t])

(* The cache holds the newest profile that was ever answered. *)
ProfilesInv ==
  /\ \A u \in Users: seen[u] <= profile[u] /\ told[u] <= profile[u]
  /\ \A u \in DOMAIN cache: cache[u].ver = seen[u]

(* A token that is used is good for as long as a call may take; a grant on  *)
(* its way has lost no more than the time its call has held the mutex.      *)
TokensInv ==
  /\ token.left > 0 => token.real >= token.left + MaxHold
  /\ granted # None => /\ granted.left \in Lifetimes /\ granted.real + held >= granted.left
                       /\ \E t \in Tasks: At(t, "grant")

IInv ==
  /\ TypeOK /\ IsFiniteSet(DOMAIN cache)
  /\ LockInv /\ CallsInv /\ ProfilesInv /\ DropsOutdated /\ TokensInv

-----------------------------------------------------------------------------
(* Nothing has happened yet. *)
LEMMA InitIInv == Init => IInv
<1> SUFFICES ASSUME Init
             PROVE  IInv
  OBVIOUS
<1>1. DOMAIN cache = {} /\ IsFiniteSet(DOMAIN cache) /\ Cardinality(DOMAIN cache) = 0
  BY FS_EmptySet DEF Init
<1>2. TypeOK
  BY <1>1, ApiAssumption DEF Init, TypeOK, Token
<1>3. LockInv /\ CallsInv /\ ProfilesInv /\ DropsOutdated /\ TokensInv
  BY <1>1 DEF Init, LockInv, CallsInv, ProfilesInv, DropsOutdated, TokensInv
<1> QED BY <1>1, <1>2, <1>3 DEF IInv

(* What the types say of a call, its user and the client. *)
LEMMA CallFacts ==
  ASSUME IInv, NEW t \in Tasks, task[t] # None
  PROVE  /\ task[t] \in Calls /\ Entitled(task[t])
         /\ task[t].floor \in Nat /\ task[t].ver \in Nat /\ held \in Nat /\ held <= MaxHold
         /\ \A u \in Users: seen[u] \in Nat /\ profile[u] \in Nat /\ told[u] \in Nat
         /\ token.real \in Nat /\ token.left \in Nat
BY ApiAssumption DEF IInv, TypeOK, CallsInv, Calls, Token

(* The one whose turn it is in the client is the first in the queue. *)
LEMMA HolderFacts ==
  ASSUME IInv, NEW t \in Tasks, task[t] # None, task[t].pc \in InClient
  PROVE  /\ mutex # <<>> /\ mutex[1] = t /\ Holds(t)
         /\ \A s \in Tasks: s # t /\ task[s] # None => task[s].pc \notin InClient
<1>1. mutex \in Seq(Tasks) /\ mutex # <<>> /\ mutex[1] = t
  BY DEF IInv, TypeOK, LockInv
<1>2. \A s \in Tasks: s # t /\ task[s] # None => task[s].pc \notin InClient
  BY <1>1 DEF IInv, LockInv
<1> QED BY <1>1, <1>2 DEF Holds

-----------------------------------------------------------------------------
(* The mutex when a call moves on in the client, ... *)
LEMMA LockMoves ==
  ASSUME IInv, NEW t \in Tasks, NEW c, c # None, c.pc \in InClient,
         Holds(t), task' = [task EXCEPT ![t] = c], UNCHANGED mutex
  PROVE  LockInv'
<1>1. mutex \in Seq(Tasks) /\ mutex # <<>> /\ mutex[1] = t /\ Len(mutex) \in Nat
  BY DEF IInv, TypeOK, Holds
<1>2. task'[t] = c /\ \A s \in Tasks: s # t => task'[s] = task[s]
  BY DEF IInv, TypeOK
<1>3. \A i \in 1..Len(mutex): mutex[i] \in Tasks /\ (mutex[i] = t <=> i = 1)
  BY <1>1 DEF IInv, LockInv
<1>4. \A i \in 1..Len(mutex):
         /\ task'[mutex[i]] # None
         /\ task'[mutex[i]].pc = "wait" \/ (i = 1 /\ task'[mutex[i]].pc \in InClient)
  BY <1>1, <1>2, <1>3 DEF IInv, LockInv
<1>5. \A s \in Tasks: task'[s] # None /\ task'[s].pc \in InClient => mutex # <<>> /\ mutex[1] = s
  BY <1>1, <1>2 DEF IInv, LockInv
<1>6. \A i, j \in 1..Len(mutex): mutex[i] = mutex[j] => i = j
  BY DEF IInv, LockInv
<1> QED BY <1>4, <1>5, <1>6 DEF LockInv

(* ... when a call that does not queue moves, begins or ends outside, ... *)
LEMMA LockOutside ==
  ASSUME IInv, NEW t \in Tasks, NEW c,
         task[t] = None \/ task[t].pc \in {"lookup", "done"},
         c = None \/ c.pc \in {"lookup", "done"},
         task' = [task EXCEPT ![t] = c], UNCHANGED mutex
  PROVE  LockInv'
<1>1. mutex \in Seq(Tasks) /\ Len(mutex) \in Nat
  BY DEF IInv, TypeOK
<1>2. task'[t] = c /\ \A s \in Tasks: s # t => task'[s] = task[s]
  BY DEF IInv, TypeOK
<1>3. \A i \in 1..Len(mutex): mutex[i] \in Tasks /\ mutex[i] # t
  BY <1>1 DEF IInv, LockInv, InClient
<1>4. \A i \in 1..Len(mutex):
         /\ task'[mutex[i]] # None
         /\ task'[mutex[i]].pc = "wait" \/ (i = 1 /\ task'[mutex[i]].pc \in InClient)
  BY <1>2, <1>3 DEF IInv, LockInv
<1>5. \A s \in Tasks: task'[s] # None /\ task'[s].pc \in InClient => mutex # <<>> /\ mutex[1] = s
  BY <1>2 DEF IInv, LockInv, InClient
<1>6. \A i, j \in 1..Len(mutex): mutex[i] = mutex[j] => i = j
  BY DEF IInv, LockInv
<1> QED BY <1>4, <1>5, <1>6 DEF LockInv

(* ... when one queues, ... *)
LEMMA LockQueues ==
  ASSUME IInv, NEW t \in Tasks, NEW c, c # None, c.pc = "wait",
         task[t] = None \/ task[t].pc = "lookup",
         task' = [task EXCEPT ![t] = c], mutex' = Append(mutex, t)
  PROVE  LockInv'
<1> DEFINE n == Len(mutex)
<1>1. /\ mutex \in Seq(Tasks) /\ n \in Nat
      /\ Len(mutex') = n + 1 /\ mutex'[n + 1] = t /\ \A i \in 1..n: mutex'[i] = mutex[i]
  BY DEF IInv, TypeOK
<1>2. task'[t] = c /\ \A s \in Tasks: s # t => task'[s] = task[s]
  BY DEF IInv, TypeOK
<1>3. \A i \in 1..n: mutex[i] \in Tasks /\ mutex[i] # t
  BY <1>1 DEF IInv, LockInv, InClient
<1>4. \A i \in 1..(n + 1):
         /\ task'[mutex'[i]] # None
         /\ task'[mutex'[i]].pc = "wait" \/ (i = 1 /\ task'[mutex'[i]].pc \in InClient)
  <2> TAKE i \in 1..(n + 1)
  <2>1. CASE i = n + 1
    BY <1>1, <1>2, <2>1
  <2>2. CASE i \in 1..n
    BY <1>1, <1>2, <1>3, <2>2 DEF IInv, LockInv
  <2> QED BY <1>1, <2>1, <2>2
<1>5. ASSUME NEW s \in Tasks, task'[s] # None, task'[s].pc \in InClient
      PROVE  mutex' # <<>> /\ mutex'[1] = s
  <2>1. s # t /\ task[s] # None /\ task[s].pc \in InClient
    BY <1>2, <1>5 DEF InClient
  <2>2. mutex # <<>> /\ mutex[1] = s
    BY <2>1 DEF IInv, LockInv
  <2> QED BY <1>1, <2>2
<1>6. \A i, j \in 1..(n + 1): mutex'[i] = mutex'[j] => i = j
  <2> SUFFICES ASSUME NEW i \in 1..(n + 1), NEW j \in 1..(n + 1), mutex'[i] = mutex'[j]
               PROVE  i = j
    OBVIOUS
  <2>1. CASE i \in 1..n /\ j \in 1..n
    BY <1>1, <2>1 DEF IInv, LockInv
  <2>2. CASE i = n + 1 \/ j = n + 1
    BY <1>1, <1>3, <2>2
  <2> QED BY <1>1, <2>1, <2>2
<1> QED BY <1>1, <1>4, <1>5, <1>6 DEF LockInv

(* ... and when the one in the client drops it. *)
LEMMA LockReleases ==
  ASSUME IInv, NEW t \in Tasks, NEW c, c = None \/ c.pc = "done",
         task[t] # None, task[t].pc \in InClient,
         task' = [task EXCEPT ![t] = c], mutex' = Tail(mutex)
  PROVE  LockInv'
<1> DEFINE n == Len(mutex) - 1
<1>1. mutex \in Seq(Tasks) /\ mutex # <<>> /\ mutex[1] = t
  BY HolderFacts DEF IInv, TypeOK
<1>2. /\ n \in Nat /\ Len(mutex') = n /\ \A i \in 1..n: mutex'[i] = mutex[i + 1]
      /\ \A i \in 1..n: i + 1 \in 1..Len(mutex) /\ i + 1 # 1
  BY <1>1
<1>3. task'[t] = c /\ \A s \in Tasks: s # t => task'[s] = task[s]
  BY DEF IInv, TypeOK
<1>4. \A i \in 1..n: mutex'[i] \in Tasks /\ mutex'[i] # t
  <2> TAKE i \in 1..n
  <2>1. mutex[i + 1] \in Tasks /\ 1 \in 1..Len(mutex)
    BY <1>1, <1>2
  <2> QED BY <1>1, <1>2, <2>1 DEF IInv, LockInv
<1>5. \A i \in 1..n: task'[mutex'[i]] # None /\ task'[mutex'[i]].pc = "wait"
  BY <1>2, <1>3, <1>4 DEF IInv, LockInv
<1>6. \A s \in Tasks: task'[s] # None => task'[s].pc \notin InClient
  BY <1>3, HolderFacts DEF InClient
<1>7. \A i, j \in 1..n: mutex'[i] = mutex'[j] => i = j
  <2> SUFFICES ASSUME NEW i \in 1..n, NEW j \in 1..n, mutex'[i] = mutex'[j]
               PROVE  i = j
    OBVIOUS
  <2>1. i + 1 = j + 1
    BY <1>2 DEF IInv, LockInv
  <2> QED BY <2>1
<1> QED BY <1>2, <1>5, <1>6, <1>7 DEF LockInv

-----------------------------------------------------------------------------
(* A step of one call that touches neither cache nor token.                 *)
LEMMA CallMoves ==
  ASSUME IInv, NEW t \in Tasks, NEW c, c = None \/ (c \in Calls /\ Entitled(c)),
         task' = [task EXCEPT ![t] = c],
         task[t] = None \/ task[t].pc # "grant",
         UNCHANGED <<profile, cache, held, token, granted, seen, told, overtaken>>,
         LockInv', mutex' \in Seq(Tasks)
  PROVE  IInv'
<1>1. task'[t] = c /\ \A s \in Tasks: s # t => task'[s] = task[s]
  BY DEF IInv, TypeOK
<1>2. TypeOK' /\ IsFiniteSet(DOMAIN cache)'
  BY DEF IInv, TypeOK
<1>3. CallsInv'
  BY <1>1 DEF IInv, CallsInv, Entitled
<1>4. ProfilesInv' /\ DropsOutdated'
  BY DEF IInv, ProfilesInv, DropsOutdated
<1>5. TokensInv'
  BY <1>1 DEF IInv, TokensInv, At
<1> QED BY <1>2, <1>3, <1>4, <1>5 DEF IInv

(* The one in the client ends its call and drops the mutex.                 *)
LEMMA CallEnds ==
  ASSUME IInv, NEW t \in Tasks, task[t] # None, task[t].pc \in InClient \ {"grant"},
         Fails(t), UNCHANGED <<profile, cache, token, granted, seen, told, overtaken>>
  PROVE  IInv'
<1>1. task' = [task EXCEPT ![t] = None] /\ mutex' = Tail(mutex) /\ held' = 0
  BY DEF Fails, Release
<1>2. task'[t] = None /\ \A s \in Tasks: s # t => task'[s] = task[s]
  BY <1>1 DEF IInv, TypeOK
<1>3. mutex' \in Seq(Tasks)
  BY <1>1, HolderFacts DEF IInv, TypeOK
<1>4. TypeOK' /\ IsFiniteSet(DOMAIN cache)'
  BY <1>1, <1>3, ApiAssumption DEF IInv, TypeOK
<1>5. LockInv'
  BY <1>1, LockReleases
<1>6. CallsInv'
  <2> SUFFICES ASSUME NEW s \in Tasks, s # t, task[s] # None
               PROVE  Entitled(task[s])'
    BY <1>2 DEF CallsInv
  <2>1. Entitled(task[s]) /\ task[s].pc \notin InClient
    BY HolderFacts DEF IInv, CallsInv
  <2> QED BY <1>2, <2>1 DEF Entitled, InClient
<1>7. ProfilesInv' /\ DropsOutdated'
  BY DEF IInv, ProfilesInv, DropsOutdated
<1>8. TokensInv'
  <2>1. \A s \in Tasks: ~ At(s, "grant")
    BY HolderFacts DEF At, InClient
  <2> QED BY <2>1 DEF IInv, TokensInv
<1> QED BY <1>4, <1>5, <1>6, <1>7, <1>8 DEF IInv

-----------------------------------------------------------------------------
(* A call begins. *)
LEMMA BeginIInv ==
  ASSUME IInv, NEW t \in Tasks, Begin(t) \/ BeginLookup(t)
  PROVE  IInv'
<1>1. CASE Begin(t)
  <2>1. PICK kind \in Kinds \ {"profile"}:
          task' = [task EXCEPT ![t] = [kind |-> kind, user |-> None, pc |-> "wait",
                                       floor |-> 0, ver |-> 0, tries |-> 0]]
    BY <1>1 DEF Begin
  <2> DEFINE c == [kind |-> kind, user |-> None, pc |-> "wait", floor |-> 0, ver |-> 0, tries |-> 0]
  <2>2. c \in Calls /\ Entitled(c) /\ c.pc = "wait"
    BY ApiAssumption DEF Calls, Kinds, Direct, Retried, Steps, Entitled
  <2>3. c # None
    BY <2>2, NoneAssumption
  <2> HIDE DEF c
  <2>4. LockInv'
    BY <1>1, <2>1, <2>2, <2>3, LockQueues DEF Begin, c
  <2>5. mutex' \in Seq(Tasks)
    BY <1>1 DEF Begin, IInv, TypeOK
  <2> QED BY <1>1, <2>1, <2>2, <2>4, <2>5, CallMoves DEF Begin, Environment, Tokens, c
<1>2. CASE BeginLookup(t)
  <2>1. PICK u \in Users:
          task' = [task EXCEPT ![t] = [kind |-> "profile", user |-> u, pc |-> "lookup",
                                       floor |-> Known(u), ver |-> 0, tries |-> 0]]
    BY <1>2 DEF BeginLookup
  <2>2. PICK c: c = [kind |-> "profile", user |-> u, pc |-> "lookup",
                     floor |-> Known(u), ver |-> 0, tries |-> 0]
    OBVIOUS
  <2>3. Known(u) \in Nat
    BY DEF Known, Newer, IInv, TypeOK
  <2>4. c \in Calls /\ Entitled(c) /\ c.pc = "lookup"
    BY <2>2, <2>3, ApiAssumption DEF Calls, Kinds, Direct, Retried, Steps, Entitled
  <2>5. task' = [task EXCEPT ![t] = c] /\ UNCHANGED mutex /\ task[t] = None
    BY <1>2, <2>1, <2>2 DEF BeginLookup
  <2>6. LockInv'
    BY <2>4, <2>5, LockOutside
  <2>7. mutex' \in Seq(Tasks)
    BY <2>5 DEF IInv, TypeOK
  <2>8. UNCHANGED <<profile, cache, held, token, granted, seen, told, overtaken>>
    BY <1>2 DEF BeginLookup, Environment, Tokens
  <2> QED BY <2>4, <2>5, <2>6, <2>7, <2>8, CallMoves
<1> QED BY <1>1, <1>2

(* A hit answers the newest profile answered so far. *)
LEMMA HitIInv ==
  ASSUME IInv, NEW t \in Tasks, Hit(t)
  PROVE  IInv'
<1> DEFINE u == task[t].user
<1>1. /\ task[t] # None /\ task[t].pc = "lookup" /\ u \in DOMAIN cache
      /\ task' = [task EXCEPT ![t] = [task[t] EXCEPT !.pc = "done", !.ver = cache[u].ver]]
      /\ seen' = [seen EXCEPT ![u] = Newer(@, cache[u].ver)]
      /\ UNCHANGED <<cache, mutex, held, Environment, Tokens>>
  BY DEF Hit, At, Live
<1>2. task[t] \in Calls /\ Entitled(task[t]) /\ u \in Users
  BY <1>1, CallFacts DEF Entitled
<1>3. cache[u].ver = seen[u] /\ seen[u] \in Nat
  BY <1>1, <1>2 DEF IInv, ProfilesInv, TypeOK
<1>4. seen' = seen
  BY <1>1, <1>2, <1>3 DEF IInv, TypeOK, Newer
<1>5. PICK c: c = [task[t] EXCEPT !.pc = "done", !.ver = cache[u].ver]
  OBVIOUS
<1>6. /\ c \in Calls /\ c.pc = "done" /\ c.kind = task[t].kind /\ c.user = u
      /\ c.floor = task[t].floor /\ c.ver = seen[u]
  BY <1>2, <1>3, <1>5 DEF Calls, Steps
<1>7. Entitled(c)
  BY <1>1, <1>2, <1>6 DEF Entitled
<1>8. LockInv'
  BY <1>1, <1>5, <1>6, LockOutside
<1> QED BY <1>1, <1>4, <1>5, <1>6, <1>7, <1>8, CallMoves DEF Environment, Tokens, IInv, TypeOK

(* A miss drops an entry that has expired, and queues. *)
LEMMA MissIInv ==
  ASSUME IInv, NEW t \in Tasks, Miss(t)
  PROVE  IInv'
<1> DEFINE u == task[t].user
<1>1. /\ task[t] # None /\ task[t].pc = "lookup" /\ cache' = Without(u)
      /\ task' = [task EXCEPT ![t] = [task[t] EXCEPT !.pc = "wait"]]
      /\ mutex' = Append(mutex, t)
      /\ UNCHANGED <<held, profile, told, overtaken, token, granted, seen>>
  BY DEF Miss, At, Goto, Environment, Tokens
<1>2. task[t] \in Calls /\ Entitled(task[t])
  BY <1>1, CallFacts
<1>3. PICK c: c = [task[t] EXCEPT !.pc = "wait"]
  OBVIOUS
<1>4. /\ c \in Calls /\ c # None /\ c.pc = "wait" /\ c.kind = task[t].kind
      /\ c.user = u /\ c.floor = task[t].floor
  BY <1>2, <1>3, NoneAssumption DEF Calls, Steps
<1>5. DOMAIN cache' = DOMAIN cache \ {u} /\ \A v \in DOMAIN cache': cache'[v] = cache[v]
  BY <1>1 DEF Without
<1>6. /\ IsFiniteSet(DOMAIN cache') /\ Cardinality(DOMAIN cache') <= Capacity
      /\ cache' \in [DOMAIN cache' -> [ver: Nat, left: 0..Ttl]]
  <2>1. IsFiniteSet(DOMAIN cache) /\ Cardinality(DOMAIN cache) \in Nat
        /\ Cardinality(DOMAIN cache) <= Capacity
    BY FS_CardinalityType DEF IInv, TypeOK
  <2>2. IsFiniteSet(DOMAIN cache') /\ Cardinality(DOMAIN cache') <= Cardinality(DOMAIN cache)
        /\ Cardinality(DOMAIN cache') \in Nat
    BY <1>5, <2>1, FS_Subset, FS_CardinalityType
  <2>3. cache' \in [DOMAIN cache' -> [ver: Nat, left: 0..Ttl]]
    BY <1>1, <1>5 DEF IInv, TypeOK, Without
  <2> QED BY <2>1, <2>2, <2>3, ApiAssumption
<1>7. TypeOK'
  BY <1>1, <1>3, <1>4, <1>5, <1>6 DEF IInv, TypeOK
<1>8. LockInv'
  BY <1>1, <1>3, <1>4, LockQueues
<1>9. task'[t] = c /\ \A s \in Tasks: s # t => task'[s] = task[s]
  BY <1>1, <1>3 DEF IInv, TypeOK
<1>10. CallsInv'
  BY <1>1, <1>2, <1>4, <1>9 DEF IInv, CallsInv, Entitled
<1>11. ProfilesInv' /\ DropsOutdated'
  BY <1>1, <1>5 DEF IInv, ProfilesInv, DropsOutdated
<1>12. TokensInv'
  BY <1>1, <1>9 DEF IInv, TokensInv, At
<1> QED BY <1>6, <1>7, <1>8, <1>10, <1>11, <1>12 DEF IInv

(* The steps of the holder that only move it on. *)
LEMMA InClientIInv ==
  ASSUME IInv, NEW t \in Tasks,
         Lock(t) \/ HasToken(t) \/ ProfileRead(t) \/ RequestRefused(t) \/ Retry(t)
  PROVE  IInv'
<1>1. /\ task[t] # None /\ task[t].pc \in {"wait", "token", "request", "backoff"}
      /\ UNCHANGED <<cache, mutex, held, profile, told, overtaken, token, granted, seen>>
  BY DEF Lock, HasToken, ProfileRead, RequestRefused, Retry, At, Environment, Tokens
<1>2. task[t] \in Calls /\ Entitled(task[t]) /\ held <= MaxHold /\ held \in Nat
      /\ token.real \in Nat /\ token.left \in Nat
  BY <1>1, CallFacts
<1>3. Holds(t)
  BY <1>1, HolderFacts DEF Lock, HasToken, ProfileRead, RequestRefused, Retry, At, InClient
<1>4. ASSUME NEW c, task' = [task EXCEPT ![t] = c], c \in Calls, c.pc \in InClient, Entitled(c)
      PROVE  IInv'
  <2>1. LockInv'
    BY <1>1, <1>3, <1>4, NoneAssumption, LockMoves
  <2> QED BY <1>1, <1>4, <2>1, CallMoves DEF IInv, TypeOK
<1>5. CASE Lock(t)
  <2>1. PICK c: c = [task[t] EXCEPT !.pc = IF task[t].kind = "upload" THEN "token" ELSE "request"]
    OBVIOUS
  <2>2. /\ c \in Calls /\ c.pc \in {"token", "request"} /\ (c.pc = "request" => c.kind # "upload")
        /\ c.kind = task[t].kind /\ c.user = task[t].user /\ c.floor = task[t].floor
    BY <1>2, <2>1 DEF Calls, Steps
  <2>3. Entitled(c)
    BY <1>2, <2>2 DEF Entitled
  <2>4. task' = [task EXCEPT ![t] = c]
    BY <1>5, <2>1 DEF Lock, Goto
  <2> QED BY <1>4, <2>2, <2>3, <2>4 DEF InClient
<1>6. CASE HasToken(t)
  <2>1. PICK c: c = [task[t] EXCEPT !.pc = "request"]
    OBVIOUS
  <2>2. /\ c \in Calls /\ c.pc = "request"
        /\ c.kind = task[t].kind /\ c.user = task[t].user /\ c.floor = task[t].floor
    BY <1>2, <2>1 DEF Calls, Steps
  <2>3. token.real + held > MaxHold
    BY <1>2, <1>6, ApiAssumption DEF HasToken, IInv, TokensInv
  <2>4. Entitled(c)
    BY <1>2, <2>2, <2>3 DEF Entitled
  <2>5. task' = [task EXCEPT ![t] = c]
    BY <1>6, <2>1 DEF HasToken, Goto
  <2> QED BY <1>4, <2>2, <2>4, <2>5 DEF InClient
<1>7. CASE ProfileRead(t)
  <2>1. PICK c: c = [task[t] EXCEPT !.pc = "reply", !.ver = profile[task[t].user]]
    OBVIOUS
  <2>2. /\ task[t].kind = "profile" /\ task[t].user \in Users
        /\ profile[task[t].user] \in Nat /\ seen[task[t].user] <= profile[task[t].user]
        /\ told[task[t].user] <= profile[task[t].user] /\ told[task[t].user] \in Nat
    BY <1>2, <1>7 DEF ProfileRead, Entitled, IInv, TypeOK, ProfilesInv
  <2>3. /\ c \in Calls /\ c.pc = "reply" /\ c.ver = profile[task[t].user]
        /\ c.kind = task[t].kind /\ c.user = task[t].user /\ c.floor = task[t].floor
    BY <1>2, <2>1, <2>2 DEF Calls, Steps
  <2>4. Entitled(c)
    BY <1>2, <2>2, <2>3 DEF Entitled
  <2>5. task' = [task EXCEPT ![t] = c]
    BY <1>7, <2>1 DEF ProfileRead
  <2> QED BY <1>4, <2>3, <2>4, <2>5 DEF InClient
<1>8. CASE RequestRefused(t)
  <2>1. PICK c: c = [task[t] EXCEPT !.pc = "backoff", !.tries = @ + 1]
    OBVIOUS
  <2>2. task[t].pc = "request" /\ task[t].tries + 1 \in 0..MaxRetries
    BY <1>2, <1>8, ApiAssumption DEF RequestRefused, At, MayRetry, Calls
  <2>3. /\ c \in Calls /\ c.pc = "backoff"
        /\ c.kind = task[t].kind /\ c.user = task[t].user /\ c.floor = task[t].floor
    BY <1>2, <2>1, <2>2 DEF Calls, Steps
  <2>4. Entitled(c)
    BY <1>2, <2>2, <2>3 DEF Entitled
  <2>5. task' = [task EXCEPT ![t] = c]
    BY <1>8, <2>1 DEF RequestRefused
  <2> QED BY <1>4, <2>3, <2>4, <2>5 DEF InClient
<1>9. CASE Retry(t)
  <2>1. PICK c: c = [task[t] EXCEPT !.pc = "request"]
    OBVIOUS
  <2>2. /\ task[t].pc = "backoff" /\ c \in Calls /\ c.pc = "request"
        /\ c.kind = task[t].kind /\ c.user = task[t].user /\ c.floor = task[t].floor
    BY <1>2, <1>9, <2>1 DEF Retry, At, Calls, Steps
  <2>3. Entitled(c)
    BY <1>2, <2>2 DEF Entitled
  <2>4. task' = [task EXCEPT ![t] = c]
    BY <1>9, <2>1 DEF Retry, Goto
  <2> QED BY <1>4, <2>2, <2>3, <2>4 DEF InClient
<1> QED BY <1>5, <1>6, <1>7, <1>8, <1>9

(* Ends that are not fills. *)
LEMMA EndIInv ==
  ASSUME IInv, NEW t \in Tasks, RequestFails(t) \/ RequestSucceeds(t) \/ Return(t)
  PROVE  IInv'
<1>1. CASE RequestFails(t) \/ RequestSucceeds(t)
  BY <1>1, CallEnds
  DEF RequestFails, RequestSucceeds, Fails, At, InClient, Environment, Tokens
<1>2. CASE Return(t)
  <2>1. /\ task[t] # None /\ task[t].pc = "done" /\ task' = [task EXCEPT ![t] = None]
        /\ UNCHANGED <<cache, mutex, held, profile, told, overtaken, token, granted, seen>>
    BY <1>2 DEF Return, At, Environment, Tokens
  <2>2. LockInv'
    BY <2>1, LockOutside
  <2> QED BY <2>1, <2>2, CallMoves DEF IInv, TypeOK
<1> QED BY <1>1, <1>2

-----------------------------------------------------------------------------
(* A new token is asked for when the old one is used up. *)
LEMMA AskTokenIInv ==
  ASSUME IInv, NEW t \in Tasks, AskToken(t)
  PROVE  IInv'
<1>1. /\ task[t] # None /\ task[t].pc = "token"
      /\ UNCHANGED <<cache, profile, told, overtaken, token, seen>>
  BY DEF AskToken, At, Environment
<1>2. Goto(t, "grant") /\ UNCHANGED <<mutex, held>>
  BY DEF AskToken
<1>3. ASSUME NEW e \in Lifetimes, granted' = [left |-> e, real |-> e]
      PROVE  IInv'
  <2>1. task[t] \in Calls /\ Entitled(task[t]) /\ held \in Nat /\ Holds(t)
    BY <1>1, CallFacts, HolderFacts DEF InClient
  <2>2. e \in Nat /\ granted' \in Token /\ granted' # None
    BY <1>3, ApiAssumption, NoneAssumption DEF Token
  <2>3. PICK c: c = [task[t] EXCEPT !.pc = "grant"]
    OBVIOUS
  <2>4. /\ c \in Calls /\ c # None /\ c.pc = "grant"
        /\ c.kind = task[t].kind /\ c.user = task[t].user /\ c.floor = task[t].floor
    BY <2>1, <2>3, NoneAssumption DEF Calls, Steps
  <2>5. task' = [task EXCEPT ![t] = c]
    BY <1>2, <2>3 DEF Goto
  <2>6. task'[t] = c /\ \A s \in Tasks: s # t => task'[s] = task[s]
    BY <2>5 DEF IInv, TypeOK
  <2>7. TypeOK' /\ IsFiniteSet(DOMAIN cache)'
    BY <1>1, <1>2, <2>2, <2>4, <2>5 DEF IInv, TypeOK
  <2>8. LockInv'
    BY <1>2, <2>1, <2>4, <2>5, LockMoves DEF InClient
  <2>9. CallsInv'
    BY <1>1, <1>2, <1>3, <2>1, <2>2, <2>4, <2>6 DEF IInv, CallsInv, Entitled
  <2>10. ProfilesInv' /\ DropsOutdated'
    BY <1>1 DEF IInv, ProfilesInv, DropsOutdated
  <2>11. TokensInv'
    BY <1>1, <1>2, <1>3, <2>1, <2>2, <2>4, <2>6 DEF IInv, TokensInv, At
  <2> QED BY <2>7, <2>8, <2>9, <2>10, <2>11 DEF IInv
<1> QED BY <1>3 DEF AskToken

(* A granted token is kept for no longer than leaves room for a call. *)
LEMMA TokenGrantedIInv ==
  ASSUME IInv, NEW t \in Tasks, TokenGranted(t)
  PROVE  IInv'
<1> DEFINE e == granted.left
           left == ValidFor(e)
<1>1. /\ task[t] # None /\ task[t].pc = "grant"
      /\ token' = [left |-> left, real |-> granted.real] /\ granted' = None
      /\ UNCHANGED <<cache, mutex, held, profile, told, overtaken, seen>>
  BY DEF TokenGranted, At, Environment
<1>2. task[t] \in Calls /\ Entitled(task[t]) /\ held \in Nat /\ held <= MaxHold /\ Holds(t)
  BY <1>1, CallFacts, HolderFacts DEF InClient
<1>3. granted # None /\ granted \in Token /\ e \in Lifetimes /\ granted.real + held >= e
  BY <1>1, <1>2 DEF Entitled, IInv, TypeOK, TokensInv
<1>4. e \in Nat /\ granted.real \in Nat /\ e >= Floor + 2 * MaxHold
  BY <1>3, ApiAssumption DEF Token
<1>5. left \in Nat /\ left + 2 * MaxHold <= e /\ left > 0
  BY <1>4, ApiAssumption DEF ValidFor
<1>6. granted.real >= left + MaxHold /\ granted.real + held > MaxHold
  BY <1>2, <1>3, <1>4, <1>5, ApiAssumption
<1> HIDE DEF left
<1>7. /\ token' \in Token /\ token'.left = left /\ token'.real = granted.real
  BY <1>1, <1>4, <1>5 DEF Token
<1>8. PICK c: c = [task[t] EXCEPT !.pc = "request"]
  OBVIOUS
<1>9. /\ c \in Calls /\ c # None /\ c.pc = "request"
      /\ c.kind = task[t].kind /\ c.user = task[t].user /\ c.floor = task[t].floor
  BY <1>2, <1>8, NoneAssumption DEF Calls, Steps
<1>10. task' = [task EXCEPT ![t] = c]
  BY <1>8 DEF TokenGranted, Goto
<1>11. task'[t] = c /\ \A s \in Tasks: s # t => task'[s] = task[s]
  BY <1>10 DEF IInv, TypeOK
<1>12. \A s \in Tasks: s # t /\ task[s] # None => task[s].pc \notin InClient
  BY <1>1, HolderFacts DEF InClient
<1>13. TypeOK' /\ IsFiniteSet(DOMAIN cache)'
  BY <1>1, <1>7, <1>9, <1>10 DEF IInv, TypeOK
<1>14. LockInv'
  BY <1>1, <1>2, <1>9, <1>10, LockMoves DEF InClient
<1>15. CallsInv'
  <2> SUFFICES ASSUME NEW s \in Tasks, task'[s] # None
               PROVE  Entitled(task[s])'
    BY DEF CallsInv
  <2>1. CASE s = t
    BY <1>1, <1>2, <1>6, <1>7, <1>9, <1>11, <2>1 DEF Entitled
  <2>2. CASE s # t
    <3>1. Entitled(task[s]) /\ task[s].pc \notin InClient
      BY <1>11, <1>12, <2>2 DEF IInv, CallsInv
    <3> QED BY <1>1, <1>11, <2>2, <3>1 DEF Entitled, InClient
  <2> QED BY <2>1, <2>2
<1>16. ProfilesInv' /\ DropsOutdated'
  BY <1>1 DEF IInv, ProfilesInv, DropsOutdated
<1>17. TokensInv'
  BY <1>1, <1>6, <1>7 DEF TokensInv
<1> QED BY <1>13, <1>14, <1>15, <1>16, <1>17 DEF IInv

-----------------------------------------------------------------------------
(* TtlCache::insert keeps the cache within its capacity, adds one entry and *)
(* leaves the others as they are.                                           *)
LEMMA InsertFits ==
  ASSUME IInv, NEW u \in Users, NEW ver \in Nat, Insert(u, ver)
  PROVE  /\ u \in DOMAIN cache' /\ cache'[u] = [ver |-> ver, left |-> Ttl]
         /\ \A v \in DOMAIN cache': v # u => v \in DOMAIN cache /\ cache'[v] = cache[v]
         /\ DOMAIN cache' \subseteq Users
         /\ cache' \in [DOMAIN cache' -> [ver: Nat, left: 0..Ttl]]
         /\ IsFiniteSet(DOMAIN cache') /\ Cardinality(DOMAIN cache') <= Capacity
<1> DEFINE D == DOMAIN cache
<1>1. PICK gone \in Evictable:
        cache' = [v \in (D \ gone) \cup {u} |->
                    IF v = u THEN [ver |-> ver, left |-> Ttl] ELSE cache[v]]
  BY DEF Insert
<1>2. DOMAIN cache' = (D \ gone) \cup {u}
  BY <1>1
<1>3. /\ IsFiniteSet(D) /\ Cardinality(D) \in Nat /\ Cardinality(D) <= Capacity
      /\ D \subseteq Users /\ \A v \in D: cache[v] \in [ver: Nat, left: 0..Ttl]
      /\ Capacity \in Nat \ {0} /\ Ttl \in Nat
  BY FS_CardinalityType, ApiAssumption DEF IInv, TypeOK
<1>4. IsFiniteSet(D \ gone) /\ Cardinality(D \ gone) \in Nat /\ Cardinality(D \ gone) < Capacity
  <2>1. CASE Cardinality(D) < Capacity
    <3>1. gone = {}
      BY <2>1 DEF Evictable
    <3>2. D \ gone = D
      BY <3>1
    <3> QED BY <1>3, <2>1, <3>2
  <2>2. CASE ~ (Cardinality(D) < Capacity)
    <3>1. PICK v \in D: gone = {v}
      BY <2>2 DEF Evictable
    <3>2. IsFiniteSet(D \ {v}) /\ Cardinality(D \ {v}) = Cardinality(D) - 1
      BY <1>3, FS_RemoveElement
    <3>3. D \ gone = D \ {v}
      BY <3>1
    <3>4. Cardinality(D \ {v}) \in Nat
      BY <3>2, FS_CardinalityType
    <3> DEFINE n == Cardinality(D)
               k == Cardinality(D \ {v})
    <3>5. n \in Nat /\ n <= Capacity /\ Capacity \in Nat /\ k = n - 1
      BY <1>3, <3>2
    <3> HIDE DEF n
    <3>6. k < Capacity
      BY <3>5
    <3> QED BY <3>2, <3>3, <3>4, <3>6
  <2> QED BY <2>1, <2>2
<1>5. /\ IsFiniteSet((D \ gone) \cup {u})
      /\ \/ Cardinality((D \ gone) \cup {u}) = Cardinality(D \ gone)
         \/ Cardinality((D \ gone) \cup {u}) = Cardinality(D \ gone) + 1
  BY <1>4, FS_AddElement
<1>6. Cardinality(DOMAIN cache') <= Capacity
  BY <1>2, <1>3, <1>4, <1>5
<1>7. \A v \in DOMAIN cache': cache'[v] \in [ver: Nat, left: 0..Ttl]
  BY <1>1, <1>2, <1>3
<1>8. cache' \in [DOMAIN cache' -> [ver: Nat, left: 0..Ttl]]
  BY <1>1, <1>2, <1>7
<1>9. /\ u \in DOMAIN cache' /\ cache'[u] = [ver |-> ver, left |-> Ttl]
      /\ \A v \in DOMAIN cache': v # u => v \in D /\ cache'[v] = cache[v]
  BY <1>1, <1>2
<1> QED BY <1>2, <1>3, <1>5, <1>6, <1>8, <1>9

(* A fetched profile goes into the cache with the mutex still held: nothing *)
(* newer can have been answered in between.                                 *)
LEMMA FillIInv ==
  ASSUME IInv, NEW t \in Tasks, Fill(t)
  PROVE  IInv'
<1> DEFINE u == task[t].user
           ver == task[t].ver
<1>1. /\ task[t] # None /\ task[t].pc = "reply" /\ Insert(u, ver)
      /\ seen' = [seen EXCEPT ![u] = Newer(@, ver)]
      /\ task' = [task EXCEPT ![t] = [task[t] EXCEPT !.pc = "done"]]
      /\ mutex' = Tail(mutex) /\ held' = 0
      /\ UNCHANGED <<profile, told, overtaken, token, granted>>
  BY DEF Fill, At, Goto, Release, Environment, Tokens
<1>2. /\ task[t] \in Calls /\ Entitled(task[t]) /\ ver \in Nat /\ u \in Users
      /\ task[t].floor \in Nat /\ seen[u] <= ver /\ ver <= profile[u]
      /\ ver < told[u] => u \in overtaken
  BY <1>1, CallFacts DEF Entitled
<1>3. /\ u \in DOMAIN cache' /\ cache'[u] = [ver |-> ver, left |-> Ttl]
      /\ \A v \in DOMAIN cache': v # u => v \in DOMAIN cache /\ cache'[v] = cache[v]
      /\ DOMAIN cache' \subseteq Users
      /\ cache' \in [DOMAIN cache' -> [ver: Nat, left: 0..Ttl]]
      /\ IsFiniteSet(DOMAIN cache') /\ Cardinality(DOMAIN cache') <= Capacity
  BY <1>1, <1>2, InsertFits
<1>4. /\ seen' \in [Users -> Nat] /\ seen'[u] = ver
      /\ \A v \in Users: v # u => seen'[v] = seen[v]
      /\ \A v \in Users: seen[v] \in Nat /\ profile[v] \in Nat
  <2>1. seen \in [Users -> Nat] /\ profile \in [Users -> Nat]
    BY DEF IInv, TypeOK
  <2>2. Newer(seen[u], ver) = ver
    BY <1>2, <2>1 DEF Newer
  <2> QED BY <1>1, <1>2, <2>1, <2>2
<1>5. PICK c: c = [task[t] EXCEPT !.pc = "done"]
  OBVIOUS
<1>6. /\ c \in Calls /\ c.pc = "done" /\ c.kind = task[t].kind /\ c.user = u
      /\ c.floor = task[t].floor /\ c.ver = ver
  BY <1>2, <1>5 DEF Calls, Steps
<1>7. task' = [task EXCEPT ![t] = c]
  BY <1>1, <1>5
<1>8. task'[t] = c /\ \A s \in Tasks: s # t => task'[s] = task[s]
  BY <1>7 DEF IInv, TypeOK
<1>9. mutex' \in Seq(Tasks) /\ \A s \in Tasks: s # t /\ task[s] # None => task[s].pc \notin InClient
  BY <1>1, HolderFacts DEF InClient, IInv, TypeOK
<1>10. TypeOK'
  <2>1. task' \in [Tasks -> Calls \cup {None}]
    BY <1>6, <1>7 DEF IInv, TypeOK
  <2>2. held' \in 0..MaxHold
    BY <1>1, ApiAssumption
  <2> QED BY <1>1, <1>3, <1>4, <1>9, <2>1, <2>2 DEF IInv, TypeOK
<1>11. LockInv'
  BY <1>1, <1>6, <1>7, LockReleases DEF InClient
<1>12. CallsInv'
  <2> SUFFICES ASSUME NEW s \in Tasks, task'[s] # None
               PROVE  Entitled(task[s])'
    BY DEF CallsInv
  <2>1. CASE s = t
    BY <1>1, <1>2, <1>4, <1>6, <1>8, <2>1 DEF Entitled
  <2>2. CASE s # t
    <3>1. Entitled(task[s]) /\ task[s].pc \notin InClient /\ task[s] \in Calls /\ task[s].floor \in Nat
      BY <1>8, <1>9, <2>2, CallFacts
    <3> QED BY <1>8, <2>2, <3>1 DEF Entitled, InClient
  <2> QED BY <2>1, <2>2
<1>13. ProfilesInv'
  BY <1>1, <1>2, <1>3, <1>4 DEF IInv, ProfilesInv
<1>14. DropsOutdated'
  BY <1>1, <1>2, <1>3 DEF IInv, DropsOutdated
<1>15. TokensInv'
  <2>1. \A s \in Tasks: ~ At(s, "grant")
    BY <1>1, <1>9 DEF At, InClient
  <2> QED BY <1>1, <2>1 DEF IInv, TokensInv
<1> QED BY <1>3, <1>10, <1>11, <1>12, <1>13, <1>14, <1>15 DEF IInv

-----------------------------------------------------------------------------
(* A profile changes: what has been answered is only older. *)
LEMMA ChangeIInv ==
  ASSUME IInv, NEW u \in Users, Change(u)
  PROVE  IInv'
<1>1. /\ UNCHANGED <<cache, task, mutex, held, token, granted, seen, told, overtaken>>
      /\ profile[u] < MaxVersion[u] /\ profile' = [profile EXCEPT ![u] = @ + 1]
  BY DEF Change, Tokens
<1>2. profile \in [Users -> Nat] /\ seen \in [Users -> Nat] /\ told \in [Users -> Nat]
  BY DEF IInv, TypeOK
<1>3. /\ profile' \in [Users -> Nat] /\ \A v \in Users: profile[v] <= profile'[v]
      /\ \A v \in Users: profile'[v] <= MaxVersion[v]
  <2>1. profile'[u] = profile[u] + 1 /\ \A v \in Users: v # u => profile'[v] = profile[v]
    BY <1>1, <1>2
  <2>2. \A v \in Users: profile[v] <= MaxVersion[v] /\ MaxVersion[v] \in Nat
    BY ApiAssumption DEF IInv, TypeOK
  <2>3. profile[u] \in Nat /\ MaxVersion[u] \in Nat /\ profile[u] + 1 <= MaxVersion[u]
    BY <1>1, <1>2, <2>2
  <2> QED BY <1>1, <1>2, <2>1, <2>2, <2>3
<1>4. TypeOK' /\ IsFiniteSet(DOMAIN cache)' /\ LockInv'
  BY <1>1, <1>3 DEF IInv, TypeOK, LockInv
<1>5. CallsInv'
  <2> SUFFICES ASSUME NEW t \in Tasks, task[t] # None
               PROVE  Entitled(task[t])'
    BY <1>1 DEF CallsInv
  <2>1. Entitled(task[t]) /\ task[t].ver \in Nat
    BY CallFacts
  <2> QED BY <1>1, <1>2, <1>3, <2>1 DEF Entitled
<1>6. ProfilesInv' /\ DropsOutdated' /\ TokensInv'
  BY <1>1, <1>2, <1>3 DEF IInv, ProfilesInv, DropsOutdated, TokensInv, At
<1> QED BY <1>4, <1>5, <1>6 DEF IInv

(* An event drops a profile: an answer on its way is noted as overtaken. *)
LEMMA InvalidateIInv ==
  ASSUME IInv, NEW u \in Users, Invalidate(u)
  PROVE  IInv'
<1>1. /\ UNCHANGED <<profile, task, mutex, held, token, granted, seen>>
      /\ cache' = Without(u) /\ told' = [told EXCEPT ![u] = profile[u]]
      /\ overtaken' = IF Outdated(u) THEN overtaken \cup {u} ELSE overtaken \ {u}
  BY DEF Invalidate, Tokens
<1>2. profile \in [Users -> Nat] /\ told \in [Users -> Nat] /\ overtaken \subseteq Users
  BY DEF IInv, TypeOK
<1>3. /\ told' \in [Users -> Nat] /\ told'[u] = profile[u]
      /\ \A v \in Users: v # u => told'[v] = told[v] /\ (v \in overtaken' <=> v \in overtaken)
      /\ overtaken' \subseteq Users
  BY <1>1, <1>2
<1>4. DOMAIN cache' = DOMAIN cache \ {u} /\ \A v \in DOMAIN cache': cache'[v] = cache[v]
  BY <1>1 DEF Without
<1>5. /\ IsFiniteSet(DOMAIN cache') /\ Cardinality(DOMAIN cache') <= Capacity
      /\ cache' \in [DOMAIN cache' -> [ver: Nat, left: 0..Ttl]]
  <2>1. IsFiniteSet(DOMAIN cache) /\ Cardinality(DOMAIN cache) \in Nat
        /\ Cardinality(DOMAIN cache) <= Capacity
    BY FS_CardinalityType DEF IInv, TypeOK
  <2>2. IsFiniteSet(DOMAIN cache') /\ Cardinality(DOMAIN cache') <= Cardinality(DOMAIN cache)
        /\ Cardinality(DOMAIN cache') \in Nat
    BY <1>4, <2>1, FS_Subset, FS_CardinalityType
  <2>3. cache' \in [DOMAIN cache' -> [ver: Nat, left: 0..Ttl]]
    BY <1>1, <1>4 DEF IInv, TypeOK, Without
  <2> QED BY <2>1, <2>2, <2>3, ApiAssumption
<1>6. TypeOK' /\ LockInv'
  BY <1>1, <1>3, <1>4, <1>5 DEF IInv, TypeOK, LockInv
<1>7. CallsInv'
  <2> SUFFICES ASSUME NEW t \in Tasks, task[t] # None
               PROVE  Entitled(task[t])'
    BY <1>1 DEF CallsInv
  <2>1. Entitled(task[t]) /\ task[t].ver \in Nat
    BY CallFacts
  <2>2. ASSUME task[t].pc = "reply"
        PROVE  task[t].ver < told'[task[t].user] => task[t].user \in overtaken'
    <3>1. task[t].user \in Users
      BY <2>1, <2>2 DEF Entitled
    <3>2. CASE task[t].user = u
      BY <1>1, <1>3, <2>2, <3>2 DEF Outdated, At
    <3>3. CASE task[t].user # u
      BY <1>3, <2>1, <2>2, <3>1, <3>3 DEF Entitled
    <3> QED BY <3>2, <3>3
  <2> QED BY <1>1, <2>1, <2>2 DEF Entitled
<1>8. ProfilesInv'
  BY <1>1, <1>2, <1>3, <1>4 DEF IInv, ProfilesInv
<1>9. DropsOutdated'
  BY <1>3, <1>4 DEF IInv, TypeOK, DropsOutdated
<1>10. TokensInv'
  BY <1>1 DEF IInv, TokensInv, At
<1> QED BY <1>5, <1>6, <1>7, <1>8, <1>9, <1>10 DEF IInv

(* Time passes for the cache, the token and the one in the client alike. *)
LEMMA TickIInv ==
  ASSUME IInv, Tick
  PROVE  IInv'
<1>1. /\ UNCHANGED <<task, mutex, profile, told, overtaken, seen>>
      /\ cache' = [u \in DOMAIN cache |-> [cache[u] EXCEPT !.left = Less(@)]]
      /\ token' = [left |-> Less(token.left), real |-> Less(token.real)]
      /\ granted' = IF granted = None THEN None ELSE [granted EXCEPT !.real = Less(@)]
      /\ mutex # <<>> => held' = held + 1 /\ held < MaxHold
      /\ mutex = <<>> => held' = 0
  BY DEF Tick, Environment
<1>2. held \in Nat /\ held' \in 0..MaxHold /\ MaxHold \in Nat
  BY <1>1, ApiAssumption DEF IInv, TypeOK
<1>3. \A n \in Nat: Less(n) \in Nat /\ Less(n) <= n /\ (n > 0 => Less(n) = n - 1)
  BY DEF Less
<1>4. /\ DOMAIN cache' = DOMAIN cache
      /\ \A u \in DOMAIN cache: cache'[u].ver = cache[u].ver
      /\ cache' \in [DOMAIN cache' -> [ver: Nat, left: 0..Ttl]]
  <2>1. \A u \in DOMAIN cache: cache[u] \in [ver: Nat, left: 0..Ttl]
    BY DEF IInv, TypeOK
  <2>2. \A n \in 0..Ttl: Less(n) \in 0..Ttl
    BY ApiAssumption DEF Less
  <2> QED BY <1>1, <2>1, <2>2
<1>5. /\ token \in Token /\ token' \in Token
      /\ token.left \in Nat /\ token.real \in Nat
      /\ token'.left = Less(token.left) /\ token'.real = Less(token.real)
  BY <1>1, <1>3 DEF IInv, TypeOK, Token
<1>6. ASSUME granted # None
      PROVE  /\ granted' \in Token /\ granted' # None /\ granted.real \in Nat
             /\ granted'.left = granted.left /\ granted'.real = Less(granted.real)
  <2>1. granted \in Token
    BY <1>6 DEF IInv, TypeOK
  <2> QED BY <1>1, <1>3, <1>6, <2>1, NoneAssumption DEF Token
<1>7. TypeOK' /\ IsFiniteSet(DOMAIN cache)'
  BY <1>1, <1>2, <1>4, <1>5, <1>6 DEF IInv, TypeOK
<1>8. LockInv'
  BY <1>1 DEF IInv, LockInv
<1>9. CallsInv'
  <2> SUFFICES ASSUME NEW t \in Tasks, task[t] # None
               PROVE  Entitled(task[t])'
    BY <1>1 DEF CallsInv
  <2>1. Entitled(task[t])
    BY CallFacts
  <2>2. ASSUME task[t].kind = "upload", task[t].pc \in {"request", "backoff"}
        PROVE  token'.real + held' > MaxHold
    <3>1. mutex # <<>>
      BY <2>2, HolderFacts DEF InClient
    <3>2. token.real + held > MaxHold
      BY <2>1, <2>2 DEF Entitled
    <3>3. held' = held + 1 /\ held < MaxHold
      BY <1>1, <3>1
    <3>4. token'.real = token.real - 1
      BY <1>2, <1>3, <1>5, <3>2, <3>3
    <3> QED BY <1>2, <1>5, <3>2, <3>3, <3>4
  <2> QED BY <1>1, <1>6, <2>1, <2>2 DEF Entitled
<1>10. ProfilesInv' /\ DropsOutdated'
  BY <1>1, <1>4 DEF IInv, ProfilesInv, DropsOutdated
<1>11. TokensInv'
  <2>1. token'.left > 0 => token'.real >= token'.left + MaxHold
    BY <1>2, <1>3, <1>5 DEF IInv, TokensInv
  <2>2. ASSUME granted' # None
        PROVE  /\ granted'.left \in Lifetimes /\ granted'.real + held' >= granted'.left
               /\ \E t \in Tasks: At(t, "grant")'
    <3>1. granted # None
      BY <1>1, <2>2
    <3>2. PICK t \in Tasks: At(t, "grant")
      BY <3>1 DEF IInv, TokensInv
    <3>3. held' = held + 1
      BY <1>1, <3>2, HolderFacts DEF At, InClient
    <3>4. granted.left \in Lifetimes /\ granted.left \in Nat /\ granted.real + held >= granted.left
      BY <3>1, ApiAssumption DEF IInv, TokensInv
    <3>5. Less(granted.real) + (held + 1) >= granted.left
      BY <1>2, <1>6, <3>1, <3>4 DEF Less
    <3> QED BY <1>1, <1>6, <3>1, <3>2, <3>3, <3>4, <3>5 DEF At
  <2> QED BY <2>1, <2>2 DEF TokensInv
<1> QED BY <1>7, <1>8, <1>9, <1>10, <1>11 DEF IInv

-----------------------------------------------------------------------------
(* Every step preserves the invariant. *)
LEMMA StepIInv == IInv /\ [Next]_vars => IInv'
<1> SUFFICES ASSUME IInv, [Next]_vars
             PROVE  IInv'
  OBVIOUS
<1>1. ASSUME NEW t \in Tasks, Begin(t) \/ BeginLookup(t)
      PROVE  IInv'
  BY <1>1, BeginIInv
<1>2. ASSUME NEW t \in Tasks, Step(t)
      PROVE  IInv'
  BY <1>2, HitIInv, MissIInv, InClientIInv, EndIInv, AskTokenIInv, TokenGrantedIInv, FillIInv
  DEF Step
<1>3. ASSUME NEW u \in Users, Change(u) \/ Invalidate(u)
      PROVE  IInv'
  BY <1>3, ChangeIInv, InvalidateIInv
<1>4. CASE Tick
  BY <1>4, TickIInv
<1>5. CASE UNCHANGED vars
  <2>1. TypeOK' /\ IsFiniteSet(DOMAIN cache)' /\ LockInv'
    BY <1>5 DEF vars, IInv, TypeOK, LockInv
  <2>2. CallsInv'
    BY <1>5 DEF vars, IInv, CallsInv, Entitled
  <2>3. ProfilesInv' /\ DropsOutdated' /\ TokensInv'
    BY <1>5 DEF vars, IInv, ProfilesInv, DropsOutdated, TokensInv, At
  <2> QED BY <2>1, <2>2, <2>3 DEF IInv
<1> QED BY <1>1, <1>2, <1>3, <1>4, <1>5 DEF Next

LEMMA Invariance == Spec => []IInv
BY InitIInv, StepIInv, PTL DEF Spec

-----------------------------------------------------------------------------
(* The cache stays within its capacity, a call within its retries, and      *)
(* everything has its type.                                                 *)
THEOREM TypeCorrect == Spec => []TypeOK
<1>1. IInv => TypeOK
  BY DEF IInv
<1> QED BY <1>1, Invariance, PTL

(* Nothing older than version n can be answered for the user any more.      *)
Sure(n, u) ==
  /\ n <= profile[u]
  /\ u \in DOMAIN cache => n <= cache[u].ver
  /\ \A t \in Tasks: At(t, "reply") /\ task[t].user = u => n <= task[t].ver

(* A call may count on what was known when it began.                        *)
FloorInv ==
  \A t \in Tasks: task[t] # None /\ task[t].kind = "profile" =>
    IF task[t].pc = "done" THEN task[t].floor <= task[t].ver
    ELSE Sure(task[t].floor, task[t].user)

(* What is known of a user is sure.                                         *)
LEMMA KnownIsSure ==
  ASSUME IInv, NEW u \in Users
  PROVE  Known(u) \in Nat /\ Sure(Known(u), u)
<1>1. /\ seen[u] \in Nat /\ told[u] \in Nat /\ profile[u] \in Nat
      /\ seen[u] <= profile[u] /\ told[u] <= profile[u]
      /\ u \in DOMAIN cache => /\ cache[u].ver = seen[u]
                               /\ cache[u].ver < told[u] => u \in overtaken
  BY DEF IInv, TypeOK, ProfilesInv, DropsOutdated
<1>2. ASSUME NEW t \in Tasks, At(t, "reply"), task[t].user = u
      PROVE  /\ task[t].ver \in Nat /\ seen[u] <= task[t].ver
             /\ task[t].ver < told[u] => u \in overtaken
  BY <1>2, CallFacts DEF At, Entitled
<1> QED BY <1>1, <1>2 DEF Known, Newer, Sure

(* What is sure stays so in a step that ages nothing and takes no answer    *)
(* from Feishu.                                                             *)
LEMMA SureKept ==
  ASSUME NEW n \in Nat, NEW u \in Users, Sure(n, u), profile' = profile,
         u \in DOMAIN cache' => u \in DOMAIN cache /\ cache'[u].ver = cache[u].ver,
         \A t \in Tasks: At(t, "reply")' => task'[t] = task[t]
  PROVE  Sure(n, u)'
BY DEF Sure, At

(* Most steps are like that.                                                *)
LEMMA QuietStepsKeepSure ==
  ASSUME IInv, NEW n \in Nat, NEW u \in Users, Sure(n, u),
         NEW t \in Tasks,
         \/ Begin(t) \/ BeginLookup(t) \/ Hit(t) \/ Miss(t) \/ Lock(t)
         \/ HasToken(t) \/ AskToken(t) \/ TokenGranted(t)
         \/ RequestFails(t) \/ RequestSucceeds(t) \/ RequestRefused(t) \/ Retry(t) \/ Return(t)
  PROVE  Sure(n, u)'
<1>1. profile' = profile
  BY DEF Begin, BeginLookup, Hit, Miss, Lock, HasToken, AskToken, TokenGranted, RequestFails,
         RequestSucceeds, RequestRefused, Retry, Return, Environment
<1>2. u \in DOMAIN cache' => u \in DOMAIN cache /\ cache'[u].ver = cache[u].ver
  <2>1. CASE Miss(t)
    BY <2>1 DEF Miss, Without
  <2>2. CASE UNCHANGED cache
    BY <2>2
  <2> QED BY <2>1, <2>2 DEF Begin, BeginLookup, Hit, Lock, HasToken, AskToken, TokenGranted,
             RequestFails, RequestSucceeds, RequestRefused, Retry, Return
<1>3. /\ \A s \in Tasks: s # t => task'[s] = task[s]
      /\ task'[t] = None \/ task'[t].pc # "reply"
  <2>1. task \in [Tasks -> Calls \cup {None}]
    BY DEF IInv, TypeOK
  <2>2. CASE Begin(t) \/ BeginLookup(t)
    BY <2>1, <2>2 DEF Begin, BeginLookup
  <2>3. CASE RequestFails(t) \/ RequestSucceeds(t) \/ Return(t)
    BY <2>1, <2>3 DEF RequestFails, RequestSucceeds, Return, Fails
  <2>4. CASE \/ Hit(t) \/ Miss(t) \/ Lock(t) \/ HasToken(t) \/ AskToken(t) \/ TokenGranted(t)
             \/ RequestRefused(t) \/ Retry(t)
    <3>1. task[t] \in Calls
      BY <2>1, <2>4 DEF Hit, Miss, Lock, HasToken, AskToken, TokenGranted, RequestRefused, Retry, At
    <3> QED BY <2>1, <2>4, <3>1 DEF Calls, Hit, Miss, Lock, HasToken, AskToken, TokenGranted,
               RequestRefused, Retry, Goto
  <2> QED BY <2>2, <2>3, <2>4
<1>4. \A s \in Tasks: At(s, "reply")' => task'[s] = task[s]
  BY <1>3 DEF At
<1> QED BY <1>1, <1>2, <1>4, SureKept

(* Feishu answers with the profile of the moment.                           *)
LEMMA ProfileReadKeepsSure ==
  ASSUME IInv, NEW n \in Nat, NEW u \in Users, Sure(n, u), NEW t \in Tasks, ProfileRead(t)
  PROVE  Sure(n, u)'
<1>1. /\ task[t] \in Calls /\ UNCHANGED <<profile, cache>>
      /\ task' = [task EXCEPT ![t].pc = "reply", ![t].ver = profile[task[t].user]]
  BY CallFacts DEF ProfileRead, At, Environment
<1>2. /\ \A s \in Tasks: s # t => task'[s] = task[s]
      /\ task'[t].user = task[t].user /\ task'[t].ver = profile[task[t].user]
  BY <1>1 DEF Calls, IInv, TypeOK
<1> QED BY <1>1, <1>2 DEF Sure, At

(* The cache gets an answer that was on its way.                            *)
LEMMA FillKeepsSure ==
  ASSUME IInv, NEW n \in Nat, NEW u \in Users, Sure(n, u), NEW t \in Tasks, Fill(t)
  PROVE  Sure(n, u)'
<1>1. /\ At(t, "reply") /\ task[t] \in Calls /\ Entitled(task[t]) /\ profile' = profile
      /\ task' = [task EXCEPT ![t].pc = "done"] /\ Insert(task[t].user, task[t].ver)
  BY CallFacts DEF Fill, At, Goto, Environment
<1>2. /\ \A s \in Tasks: s # t => task'[s] = task[s]
      /\ task'[t].pc = "done"
  BY <1>1 DEF Calls, IInv, TypeOK
<1>3. task[t].user \in Users /\ task[t].ver \in Nat
  BY <1>1, CallFacts DEF Entitled, At
<1>4. /\ cache'[task[t].user] = [ver |-> task[t].ver, left |-> Ttl]
      /\ \A v \in DOMAIN cache': v # task[t].user => v \in DOMAIN cache /\ cache'[v] = cache[v]
  BY <1>1, <1>3, InsertFits
<1>5. u \in DOMAIN cache' => n <= cache'[u].ver
  BY <1>1, <1>4 DEF Sure
<1> QED BY <1>1, <1>2, <1>5 DEF Sure, At

(* Nothing makes what is sure unsure.                                       *)
LEMMA NextKeepsSure ==
  ASSUME IInv, [Next]_vars, NEW n \in Nat, NEW u \in Users, Sure(n, u)
  PROVE  Sure(n, u)'
<1>1. ASSUME NEW v \in Users, Change(v)
      PROVE  Sure(n, u)'
  <2>1. /\ UNCHANGED <<cache, task>> /\ profile \in [Users -> Nat]
        /\ profile' = [profile EXCEPT ![v] = @ + 1]
    BY <1>1 DEF Change, IInv, TypeOK
  <2>2. profile[u] \in Nat /\ profile'[u] \in {profile[u], profile[u] + 1}
    BY <2>1
  <2> QED BY <2>1, <2>2 DEF Sure, At
<1>2. ASSUME NEW v \in Users, Invalidate(v)
      PROVE  Sure(n, u)'
  BY <1>2, SureKept DEF Invalidate, Without
<1>3. CASE Tick
  <2>1. /\ UNCHANGED <<task, profile>>
        /\ cache' = [w \in DOMAIN cache |-> [cache[w] EXCEPT !.left = Less(@)]]
    BY <1>3 DEF Tick, Environment
  <2>2. \A w \in DOMAIN cache: cache[w] \in [ver: Nat, left: 0..Ttl]
    BY DEF IInv, TypeOK
  <2>3. DOMAIN cache' = DOMAIN cache /\ \A w \in DOMAIN cache: cache'[w].ver = cache[w].ver
    BY <2>1, <2>2
  <2> QED BY <2>1, <2>3, SureKept
<1>4. CASE UNCHANGED vars
  BY <1>4 DEF vars, Sure, At
<1> QED BY <1>1, <1>2, <1>3, <1>4, QuietStepsKeepSure, ProfileReadKeepsSure, FillKeepsSure
        DEF Next, Step

(* A call that goes on, and is not done yet, keeps its user and its floor;  *)
(* one that is done answers no less than what is sure.                      *)
LEMMA CallGoesOn ==
  ASSUME IInv, [Next]_vars, NEW t \in Tasks, task'[t] # None, task'[t].kind = "profile"
  PROVE  \/ task'[t] = task[t]
         \/ /\ task[t] = None /\ task'[t].pc = "lookup"
            /\ \E u \in Users: task'[t].user = u /\ task'[t].floor = Known(u)
         \/ /\ task[t] # None /\ task[t].kind = "profile" /\ task[t].pc # "done"
            /\ task'[t].user = task[t].user /\ task'[t].floor = task[t].floor
            /\ task'[t].pc = "done" => \/ /\ task[t].user \in DOMAIN cache
                                          /\ task'[t].ver = cache[task[t].user].ver
                                       \/ At(t, "reply") /\ task'[t].ver = task[t].ver
<1>1. task \in [Tasks -> Calls \cup {None}]
  BY DEF IInv, TypeOK
<1>2. CASE task' = task
  BY <1>2
<1>3. ASSUME NEW s \in Tasks, s # t, Begin(s) \/ BeginLookup(s) \/ Step(s)
      PROVE  task'[t] = task[t]
  BY <1>1, <1>3 DEF Begin, BeginLookup, Step, Hit, Miss, Lock, HasToken, AskToken, TokenGranted,
         ProfileRead, Fill, RequestFails, RequestSucceeds, RequestRefused, Retry, Return, Goto, Fails
<1>4. CASE Begin(t)
  BY <1>1, <1>4 DEF Begin
<1>5. CASE BeginLookup(t)
  <2>1. PICK u \in Users:
          task' = [task EXCEPT ![t] = [kind |-> "profile", user |-> u, pc |-> "lookup",
                                       floor |-> Known(u), ver |-> 0, tries |-> 0]]
    BY <1>5 DEF BeginLookup
  <2> QED BY <1>1, <1>5, <2>1 DEF BeginLookup
<1>6. CASE RequestFails(t) \/ RequestSucceeds(t) \/ Return(t)
  BY <1>1, <1>6 DEF RequestFails, RequestSucceeds, Return, Fails
<1>7. CASE \/ Hit(t) \/ Miss(t) \/ Lock(t) \/ HasToken(t) \/ AskToken(t) \/ TokenGranted(t)
           \/ ProfileRead(t) \/ Fill(t) \/ RequestRefused(t) \/ Retry(t)
  <2>1. /\ task[t] # None /\ task[t].pc # "done" /\ task[t] \in Calls
    BY <1>1, <1>7 DEF Hit, Miss, Lock, HasToken, AskToken, TokenGranted, ProfileRead, Fill,
                      RequestRefused, Retry, At
  <2>2. CASE Hit(t)
    BY <1>1, <2>1, <2>2 DEF Hit, Live, Calls
  <2>3. CASE Fill(t)
    BY <1>1, <2>1, <2>3 DEF Fill, Goto, Calls
  <2>4. CASE \/ Miss(t) \/ Lock(t) \/ HasToken(t) \/ AskToken(t) \/ TokenGranted(t)
             \/ ProfileRead(t) \/ RequestRefused(t) \/ Retry(t)
    <3>1. task'[t].user = task[t].user /\ task'[t].floor = task[t].floor
          /\ task'[t].pc # "done" /\ task'[t].kind = task[t].kind
      <4>1. CASE Miss(t)
        BY <1>1, <2>1, <4>1 DEF Miss, Goto, Calls
      <4>2. CASE Lock(t) \/ HasToken(t) \/ AskToken(t) \/ TokenGranted(t) \/ Retry(t)
        BY <1>1, <2>1, <4>2 DEF Lock, HasToken, AskToken, TokenGranted, Retry, Goto, Calls
      <4>3. CASE ProfileRead(t)
        BY <1>1, <2>1, <4>3 DEF ProfileRead, Calls
      <4>4. CASE RequestRefused(t)
        BY <1>1, <2>1, <4>4 DEF RequestRefused, Calls
      <4> QED BY <2>4, <4>1, <4>2, <4>3, <4>4
    <3> QED BY <2>1, <3>1
  <2> QED BY <1>7, <2>2, <2>3, <2>4
<1> QED BY <1>2, <1>3, <1>4, <1>5, <1>6, <1>7 DEF Next, Step, Change, Invalidate, Tick, vars

(* So every call keeps to its floor.                                        *)
LEMMA NextFloorInv ==
  ASSUME IInv, FloorInv, [Next]_vars
  PROVE  FloorInv'
<1>1. ASSUME NEW t \in Tasks, task'[t] # None, task'[t].kind = "profile"
      PROVE  \/ task'[t].pc = "done" /\ task'[t].floor <= task'[t].ver
             \/ task'[t].pc # "done" /\ \E n \in Nat, u \in Users:
                  task'[t].floor = n /\ task'[t].user = u /\ Sure(n, u)'
  <2>1. CASE task'[t] = task[t]
    <3>1. task[t].floor \in Nat /\ task[t].user \in Users
      BY <1>1, <2>1, CallFacts DEF Entitled
    <3>2. CASE task[t].pc = "done"
      BY <1>1, <2>1, <3>2 DEF FloorInv
    <3>3. CASE task[t].pc # "done"
      <4>1. PICK n \in Nat, u \in Users: n = task[t].floor /\ u = task[t].user
        BY <3>1
      <4>2. Sure(n, u)
        BY <1>1, <2>1, <3>3, <4>1 DEF FloorInv
      <4>3. Sure(n, u)'
        BY <4>2, NextKeepsSure
      <4> QED BY <2>1, <3>3, <4>1, <4>3
    <3> QED BY <3>2, <3>3
  <2>2. ASSUME task'[t].pc = "lookup",
               NEW u \in Users, task'[t].user = u, task'[t].floor = Known(u)
        PROVE  \E n \in Nat: task'[t].floor = n /\ Sure(n, u)'
    <3>1. PICK n \in Nat: n = Known(u)
      BY KnownIsSure
    <3>2. Sure(n, u)
      BY <3>1, KnownIsSure
    <3>3. Sure(n, u)'
      BY <3>2, NextKeepsSure
    <3> QED BY <2>2, <3>1, <3>3
  <2>3. CASE /\ task[t] # None /\ task[t].kind = "profile" /\ task[t].pc # "done"
             /\ task'[t].user = task[t].user /\ task'[t].floor = task[t].floor
             /\ task'[t].pc = "done" => \/ /\ task[t].user \in DOMAIN cache
                                           /\ task'[t].ver = cache[task[t].user].ver
                                        \/ At(t, "reply") /\ task'[t].ver = task[t].ver
    <3>1. task[t].floor \in Nat /\ task[t].user \in Users
      BY <2>3, CallFacts DEF Entitled
    <3>2. PICK n \in Nat, u \in Users: n = task[t].floor /\ u = task[t].user
      BY <3>1
    <3>3. Sure(n, u)
      BY <2>3, <3>2 DEF FloorInv
    <3>4. Sure(n, u)'
      BY <3>3, NextKeepsSure
    <3>5. CASE task'[t].pc = "done"
      BY <2>3, <3>2, <3>3, <3>5 DEF Sure
    <3> QED BY <2>3, <3>2, <3>4, <3>5
  <2>4. CASE /\ task[t] = None /\ task'[t].pc = "lookup"
             /\ \E u \in Users: task'[t].user = u /\ task'[t].floor = Known(u)
    <3>1. PICK u \in Users: task'[t].user = u /\ task'[t].floor = Known(u)
      BY <2>4
    <3>2. PICK n \in Nat: task'[t].floor = n /\ Sure(n, u)'
      BY <2>2, <2>4, <3>1
    <3> QED BY <2>4, <3>1, <3>2
  <2>5. \/ task'[t] = task[t]
        \/ /\ task[t] = None /\ task'[t].pc = "lookup"
           /\ \E u \in Users: task'[t].user = u /\ task'[t].floor = Known(u)
        \/ /\ task[t] # None /\ task[t].kind = "profile" /\ task[t].pc # "done"
           /\ task'[t].user = task[t].user /\ task'[t].floor = task[t].floor
           /\ task'[t].pc = "done" => \/ /\ task[t].user \in DOMAIN cache
                                         /\ task'[t].ver = cache[task[t].user].ver
                                      \/ At(t, "reply") /\ task'[t].ver = task[t].ver
    BY <1>1, CallGoesOn
  <2> QED BY Zenon, <2>1, <2>3, <2>4, <2>5
<1>2. ASSUME NEW t \in Tasks, task'[t] # None, task'[t].kind = "profile", task'[t].pc # "done"
      PROVE  Sure(task[t].floor, task[t].user)'
  <2>1. PICK n \in Nat, u \in Users: task'[t].floor = n /\ task'[t].user = u /\ Sure(n, u)'
    BY <1>1, <1>2
  <2> QED BY <2>1 DEF Sure
<1>3. \A t \in Tasks: task'[t] # None /\ task'[t].kind = "profile" =>
        IF task'[t].pc = "done" THEN task'[t].floor <= task'[t].ver
        ELSE Sure(task[t].floor, task[t].user)'
  BY <1>1, <1>2
<1> QED BY <1>3 DEF FloorInv

(* get_user never answers a profile older than one that was answered before *)
(* it was asked, or that an event had told of by then.                      *)
THEOREM ForwardOnly == Spec => []AnswersForward
<1>1. Init => FloorInv
  BY DEF Init, FloorInv
<1>2. IInv /\ FloorInv => AnswersForward
  <2>1. ASSUME IInv, FloorInv, NEW t \in Tasks, At(t, "done")
        PROVE  task[t].ver >= task[t].floor
    BY <2>1, CallFacts DEF FloorInv, At, Entitled
  <2> QED BY <2>1 DEF AnswersForward
<1> QED BY <1>1, <1>2, NextFloorInv, Invariance, PTL DEF Spec

(* invalidate_user_cache is overtaken by a fetch under way and nothing else. *)
THEOREM DropsHold == Spec => []DropsOutdated
<1>1. IInv => DropsOutdated
  BY DEF IInv
<1> QED BY <1>1, Invariance, PTL

(* The margin of get_tenant_access_token is enough for calls that hold the  *)
(* client for up to half of it.                                             *)
THEOREM TokensAreValid == Spec => []TokenIsValid
<1>1. ASSUME IInv, NEW t \in Tasks, task[t] # None, task[t].kind = "upload",
             task[t].pc \in {"request", "backoff"}
      PROVE  token.real > 0
  <2>1. token.real + held > MaxHold /\ held \in Nat /\ held <= MaxHold /\ token.real \in Nat
    BY <1>1, CallFacts DEF Entitled
  <2> QED BY <2>1, ApiAssumption
<1>2. IInv => TokenIsValid
  BY <1>1 DEF TokenIsValid
<1> QED BY <1>2, Invariance, PTL
=============================================================================
