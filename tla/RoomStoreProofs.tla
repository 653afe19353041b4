-------------------------- MODULE RoomStoreProofs --------------------------
(***************************************************************************)
(* Proofs about RoomStore for any rooms, chats, handlers and events.       *)
(***************************************************************************)
EXTENDS RoomStore, TLAPS

(* The identities handed out so far are distinct and below the counter. *)
EverInv ==
  /\ \A l \in ever: l.id < nextId
  /\ \A k, l \in ever: k.id = l.id => k = l

(* Every row was inserted, and the table is one-to-one. *)
RowsInv ==
  /\ \A m \in rows: Identity(m) \in ever
  /\ \A m, n \in rows: m.id = n.id \/ m.room = n.room \/ m.chat = n.chat => m = n

CacheInv ==
  \A k \in Keys: cache[k] # None => Identity(cache[k]) \in ever /\ Keyed(cache[k], k)

(* What a handler relies on at each of its steps, when E are the links ever *)
(* made, R the rows and n the next id.                                      *)
Entitled(t, E, R, n) ==
  /\ t \in Task
  /\ t.op \in {"bridge", "handle_bridge_request"} => t.room \in Rooms /\ t.chat \in Chats
  /\ t.pc = "insert" => t.op = "handle_bridge_request"
  /\ t.pc \in {"put", "write"} => t.held # None
  /\ t.held # None => Identity(t.held) \in E /\ Keyed(t.held, t.key)
  /\ \A i \in t.live: i < n
  /\ t.pc = "got" /\ t.held = None => ~ \E m \in R: m.id \in t.live /\ Keyed(m, t.key)

TasksInv == \A p \in Tasks: task[p] # None => Entitled(task[p], ever, rows, nextId)

IInv == TypeOK /\ EverInv /\ RowsInv /\ CacheInv /\ TasksInv

-----------------------------------------------------------------------------
(* A step that only moves one handler on is harmless if the handler is     *)
(* still entitled to what it holds.                                        *)
LEMMA OneTaskMoves ==
  ASSUME IInv, NEW p \in Tasks, NEW t, t = None \/ Entitled(t, ever, rows, nextId),
         task' = [task EXCEPT ![p] = t], UNCHANGED <<rows, nextId, cache, ever>>
  PROVE  IInv'
<1>1. TypeOK'
  BY DEF IInv, TypeOK, Entitled
<1>2. EverInv' /\ RowsInv' /\ CacheInv'
  BY DEF IInv, EverInv, RowsInv, CacheInv
<1>3. TasksInv'
  BY DEF IInv, TypeOK, TasksInv
<1> QED BY <1>1, <1>2, <1>3 DEF IInv

(* The state the program starts in satisfies the invariant. *)
LEMMA InitIInv == Init => IInv
BY ConstantsAssumption DEF Init, IInv, TypeOK, EverInv, RowsInv, CacheInv, TasksInv, Keys, Ids

(* A handler begins with nothing in hand. *)
LEMMA BeginIInv ==
  ASSUME IInv, NEW p \in Tasks, NEW op \in Ops, NEW room \in Rooms \cup {None},
         NEW chat \in Chats \cup {None}, NEW key \in Keys, NEW new \in ChatUpdate,
         op \in {"bridge", "handle_bridge_request"} => room \in Rooms /\ chat \in Chats,
         Begin(p, op, room, chat, key, new)
  PROVE  IInv'
<1> DEFINE live == IdsOf({m \in rows: m.room = room \/ m.chat = chat})
           t == [op |-> op, pc |-> "cache", room |-> room, chat |-> chat, key |-> key,
                 held |-> None, new |-> new, live |-> live]
<1>1. live \subseteq Ids /\ \A i \in live: i < nextId
  BY DEF IInv, TypeOK, RowsInv, EverInv, RoomMapping, Identity, IdsOf
<1> HIDE DEF live
<1>2. Entitled(t, ever, rows, nextId)
  BY <1>1 DEF Entitled, Task
<1>3. task' = [task EXCEPT ![p] = t] /\ UNCHANGED <<rows, nextId, cache, ever>>
  BY DEF Begin, live
<1> QED BY <1>2, <1>3, OneTaskMoves

(* Looking up, in the cache or the table, finds only genuine mappings. *)
LEMMA LookupIInv ==
  ASSUME IInv, NEW p \in Tasks, CacheLookup(p) \/ TableRead(p)
  PROVE  IInv'
<1> DEFINE t == task[p]
           hit == cache[t.key]
<1>1. t # None /\ Entitled(t, ever, rows, nextId) /\ t \in Task /\ t.key \in Keys
  BY DEF CacheLookup, TableRead, At, IInv, TasksInv, Entitled, Task
<1>2. CASE CacheLookup(p) /\ hit # None
  <2> DEFINE u == [t EXCEPT !.held = hit, !.pc = "got"]
  <2>1. hit \in RoomMapping /\ Identity(hit) \in ever /\ Keyed(hit, t.key)
    BY <1>1, <1>2 DEF IInv, TypeOK, CacheInv
  <2>2. Entitled(u, ever, rows, nextId)
    BY <1>1, <1>2, <2>1 DEF Entitled, Task
  <2>3. task' = [task EXCEPT ![p] = u] /\ UNCHANGED <<rows, nextId, cache, ever>>
    BY <1>2 DEF CacheLookup, IInv, TypeOK
  <2> QED BY <2>2, <2>3, OneTaskMoves
<1>3. CASE CacheLookup(p) /\ hit = None
  <2> DEFINE u == [t EXCEPT !.pc = "read"]
  <2>1. Entitled(u, ever, rows, nextId)
    BY <1>1 DEF Entitled, Task
  <2>2. task' = [task EXCEPT ![p] = u] /\ UNCHANGED <<rows, nextId, cache, ever>>
    BY <1>3 DEF CacheLookup, IInv, TypeOK
  <2> QED BY <2>1, <2>2, OneTaskMoves
<1>4. ASSUME NEW m \in rows, Keyed(m, t.key), TableRead(p),
             task' = [task EXCEPT ![p].held = m, ![p].pc = "put"]
      PROVE  IInv'
  <2> DEFINE u == [t EXCEPT !.held = m, !.pc = "put"]
  <2>1. m \in RoomMapping /\ m # None /\ Identity(m) \in ever
    BY ConstantsAssumption DEF IInv, TypeOK, RowsInv, RoomMapping, Ids
  <2>2. Entitled(u, ever, rows, nextId)
    BY <1>1, <1>4, <2>1 DEF Entitled, Task
  <2>3. task' = [task EXCEPT ![p] = u] /\ UNCHANGED <<rows, nextId, cache, ever>>
    BY <1>4 DEF TableRead, IInv, TypeOK
  <2> QED BY <2>2, <2>3, OneTaskMoves
<1>5. ASSUME {m \in rows: Keyed(m, t.key)} = {}, TableRead(p),
             task' = [task EXCEPT ![p].held = None, ![p].pc = "got"]
      PROVE  IInv'
  <2> DEFINE u == [t EXCEPT !.held = None, !.pc = "got"]
  <2>1. Entitled(u, ever, rows, nextId)
    BY <1>1, <1>5 DEF Entitled, Task
  <2>2. task' = [task EXCEPT ![p] = u] /\ UNCHANGED <<rows, nextId, cache, ever>>
    BY <1>5 DEF TableRead, IInv, TypeOK
  <2> QED BY <2>1, <2>2, OneTaskMoves
<1> QED BY <1>2, <1>3, <1>4, <1>5 DEF TableRead

(* What is put in the cache belongs to its key. *)
LEMMA CachePutIInv ==
  ASSUME IInv, NEW p \in Tasks, CachePut(p)
  PROVE  IInv'
<1> DEFINE t == task[p]
           u == [t EXCEPT !.pc = "got"]
<1>1. t # None /\ Entitled(t, ever, rows, nextId) /\ t.held # None /\ t.pc = "put"
  BY DEF CachePut, At, IInv, TasksInv, Entitled
<1>2. t.held \in RoomMapping /\ Identity(t.held) \in ever /\ Keyed(t.held, t.key)
  BY <1>1 DEF Entitled, Task
<1>3. Entitled(u, ever, rows, nextId) /\ u \in Task
  BY <1>1 DEF Entitled, Task
<1>4. task' = [task EXCEPT ![p] = u] /\ UNCHANGED <<rows, nextId, ever>>
  BY DEF CachePut, Goto, IInv, TypeOK
<1>5. TypeOK'
  BY <1>2, <1>3, <1>4 DEF CachePut, IInv, TypeOK
<1>6. EverInv' /\ RowsInv' /\ TasksInv'
  BY <1>3, <1>4 DEF IInv, EverInv, RowsInv, TasksInv, TypeOK
<1>7. CacheInv'
  BY <1>2, <1>4 DEF CachePut, IInv, CacheInv, TypeOK
<1> QED BY <1>5, <1>6, <1>7 DEF IInv

(* A handler that decides what its lookup means, or ends. *)
LEMMA DecideIInv ==
  ASSUME IInv, NEW p \in Tasks,
         \/ CommandAccepted(p) \/ CommandRefused(p) \/ BridgeRequest(p)
         \/ CreateConflict(p) \/ CompareChat(p) \/ Finish(p) \/ DatabaseError(p)
  PROVE  IInv'
<1> DEFINE t == task[p]
<1>1. t # None /\ Entitled(t, ever, rows, nextId) /\ t \in Task
  BY DEF CommandAccepted, CommandRefused, BridgeRequest, CreateConflict, CompareChat,
         Finish, DatabaseError, Running, At, IInv, TasksInv, Entitled
<1>2. ASSUME End(p), UNCHANGED <<rows, nextId, cache, ever>> PROVE IInv'
  BY <1>2, OneTaskMoves DEF End
<1>3. CASE CommandAccepted(p) /\ t.op = "bridge"
  <2> DEFINE u == [t EXCEPT !.op = "handle_bridge_request", !.pc = "cache", !.key = t.chat]
  <2>1. Entitled(u, ever, rows, nextId)
    BY <1>1, <1>3 DEF Entitled, Task, CommandAccepted, Running, At, Ops, Keys
  <2>2. task' = [task EXCEPT ![p] = u] /\ UNCHANGED <<rows, nextId, cache, ever>>
    BY <1>3 DEF CommandAccepted, Running, At, IInv, TypeOK
  <2> QED BY <2>1, <2>2, OneTaskMoves
<1>4. CASE CommandAccepted(p) /\ t.op = "unbridge"
  <2> DEFINE u == [t EXCEPT !.op = "remove", !.pc = "cache", !.held = None]
  <2>1. Entitled(u, ever, rows, nextId)
    BY <1>1, <1>4 DEF Entitled, Task, Ops
  <2>2. task' = [task EXCEPT ![p] = u] /\ UNCHANGED <<rows, nextId, cache, ever>>
    BY <1>4 DEF CommandAccepted, Running, At, IInv, TypeOK
  <2> QED BY <2>1, <2>2, OneTaskMoves
<1>5. CASE BridgeRequest(p) /\ t.held = None
  <2> DEFINE u == [t EXCEPT !.pc = "insert"]
  <2>1. Entitled(u, ever, rows, nextId)
    BY <1>1, <1>5 DEF Entitled, Task, BridgeRequest, Running
  <2>2. task' = [task EXCEPT ![p] = u] /\ UNCHANGED <<rows, nextId, cache, ever>>
    BY <1>5 DEF BridgeRequest, Goto, IInv, TypeOK
  <2> QED BY <2>1, <2>2, OneTaskMoves
<1>6. CASE CompareChat(p)
  <2> DEFINE h == Revise(t.held, t.new)
             u == [t EXCEPT !.held = h, !.pc = IF h # t.held THEN "write" ELSE "notice"]
  <2>1. t.held \in RoomMapping /\ t.new \in ChatUpdate /\ Identity(t.held) \in ever
        /\ Keyed(t.held, t.key)
    BY <1>1, <1>6 DEF CompareChat, Entitled, Task
  <2>2. h \in RoomMapping /\ h # None /\ Identity(h) = Identity(t.held) /\ Keyed(h, t.key)
    <3> DEFINE n == IF t.new.name = None THEN t.held.name ELSE t.new.name
               md == IF t.new.mode = None THEN t.held.mode ELSE t.new.mode
    <3>1. n \in Names /\ md \in Modes
      BY <2>1 DEF RoomMapping, ChatUpdate
    <3>2. h = [t.held EXCEPT !.name = n, !.mode = md]
      BY <2>1 DEF Revise, RoomMapping
    <3> HIDE DEF n, md, h
    <3>3. h \in RoomMapping /\ h.id = t.held.id /\ h.room = t.held.room /\ h.chat = t.held.chat
      BY <2>1, <3>1, <3>2 DEF RoomMapping
    <3>4. h # None
      BY <3>3, ConstantsAssumption DEF RoomMapping, Ids
    <3> QED
      BY <2>1, <3>3, <3>4 DEF Identity, Keyed
  <2> HIDE DEF h
  <2>3. Entitled(u, ever, rows, nextId)
    BY <1>1, <1>6, <2>1, <2>2 DEF Entitled, Task, CompareChat, Running, At
  <2>4. task' = [task EXCEPT ![p] = u] /\ UNCHANGED <<rows, nextId, cache, ever>>
    BY <1>6 DEF CompareChat, IInv, TypeOK, h
  <2> QED BY <2>3, <2>4, OneTaskMoves
<1>7. CASE CommandAccepted(p)
  BY <1>3, <1>4, <1>7 DEF CommandAccepted, Running
<1>8. CASE BridgeRequest(p)
  BY <1>2, <1>5, <1>8 DEF BridgeRequest
<1>9. CASE CommandRefused(p) \/ CreateConflict(p) \/ Finish(p) \/ DatabaseError(p)
  BY <1>2, <1>9 DEF CommandRefused, CreateConflict, Finish, DatabaseError
<1> QED BY <1>6, <1>7, <1>8, <1>9

(* What is inserted is a mapping under the next id. *)
LEMMA CreateTypes ==
  ASSUME IInv, NEW p \in Tasks, CreateRoomMapping(p)
  PROVE  /\ NewMapping(p) \in RoomMapping /\ NewMapping(p).id = nextId
         /\ nextId \in Ids /\ nextId \in Nat /\ nextId' = nextId + 1
<1>1. /\ task[p] # None /\ Entitled(task[p], ever, rows, nextId)
      /\ task[p].room \in Rooms /\ task[p].chat \in Chats
  BY DEF CreateRoomMapping, At, IInv, TasksInv, Entitled
<1>2. nextId \in Ids /\ nextId \in Nat /\ nextId' = nextId + 1
  BY ConstantsAssumption DEF CreateRoomMapping, IInv, TypeOK, Ids
<1> QED BY <1>1, <1>2, ConstantsAssumption DEF NewMapping, RoomMapping

(* The insert: a fresh id, a free room and a free chat. *)
LEMMA CreateIInv ==
  ASSUME IInv, NEW p \in Tasks, CreateRoomMapping(p)
  PROVE  IInv'
<1> DEFINE m == NewMapping(p)
<1>2. nextId \in Ids /\ nextId \in Nat /\ nextId' = nextId + 1
  BY CreateTypes
<1>3. m \in RoomMapping /\ m.id = nextId
  BY CreateTypes
<1>4. Identity(m) \in [id: Ids, room: Rooms, chat: Chats] /\ Identity(m).id = nextId
  BY <1>3 DEF Identity, RoomMapping
<1>5. /\ rows' = rows \cup {m} /\ ever' = ever \cup {Identity(m)}
      /\ \A r \in rows: r.room # m.room /\ r.chat # m.chat
      /\ task' = [task EXCEPT ![p] = None] /\ cache' = cache
  BY DEF CreateRoomMapping, Conflict, End
<1> HIDE DEF m
<1>6. TypeOK'
  BY <1>2, <1>3, <1>4, <1>5, ConstantsAssumption DEF IInv, TypeOK, Ids
<1>7. EverInv'
  BY <1>2, <1>4, <1>5 DEF IInv, TypeOK, EverInv, Ids
<1>8. RowsInv'
  <2>1. \A r \in rows: r.id # m.id
    <3>1. \A r \in rows: Identity(r) \in ever /\ Identity(r).id = r.id
      BY DEF IInv, RowsInv, Identity
    <3>2. \A r \in rows: r.id < nextId /\ r.id \in Nat
      BY <3>1 DEF IInv, EverInv, TypeOK, RoomMapping, Ids
    <3> QED BY <1>2, <1>3, <3>2
  <2> QED BY <1>5, <2>1 DEF IInv, RowsInv
<1>9. CacheInv'
  BY <1>5 DEF IInv, CacheInv
<1>10. TasksInv'
  <2> SUFFICES ASSUME NEW q \in Tasks, task'[q] # None
               PROVE  Entitled(task'[q], ever', rows', nextId')
    BY DEF TasksInv
  <2>1. task'[q] = task[q] /\ task[q] # None /\ Entitled(task[q], ever, rows, nextId)
    BY <1>5 DEF IInv, TypeOK, TasksInv
  <2>2. \A i \in task[q].live: i \in Nat /\ i < nextId
    BY <2>1 DEF Entitled, Task, Ids
  <2>3. \A i \in task[q].live: i < nextId' /\ i # m.id
    BY <1>2, <1>3, <2>2
  <2> QED BY <1>5, <2>1, <2>3 DEF Entitled
<1> QED BY <1>6, <1>7, <1>8, <1>9, <1>10 DEF IInv

(* A handler that has told the table what to do only has its reply left. *)
LEMMA NoticeEntitled ==
  ASSUME NEW t, NEW E, NEW R, NEW n, Entitled(t, E, R, n)
  PROVE  \A Q: Entitled([t EXCEPT !.pc = "notice"], E, Q, n)
BY DEF Entitled, Task

(* What is held by id is the row of that id, if the row is still there. *)
LEMMA HeldNamesItsRow ==
  ASSUME IInv, NEW p \in Tasks, task[p] # None, task[p].held # None,
         NEW m \in rows, m.id = task[p].held.id
  PROVE  Identity(m) = Identity(task[p].held) /\ Keyed(m, task[p].key)
<1>1. /\ Identity(task[p].held) \in ever /\ Identity(m) \in ever
      /\ Keyed(task[p].held, task[p].key)
  BY DEF IInv, TasksInv, Entitled, RowsInv
<1>2. Identity(m) = Identity(task[p].held)
  BY <1>1 DEF IInv, EverInv, Identity
<1> QED BY <1>1, <1>2 DEF Identity, Keyed

(* A deletion only takes rows away. *)
LEMMA DeleteIInv ==
  ASSUME IInv, NEW p \in Tasks, DeleteRoomMapping(p)
  PROVE  IInv'
<1>1. /\ rows' \subseteq rows /\ UNCHANGED <<nextId, cache, ever>>
      /\ task[p] # None
      /\ task' = [task EXCEPT ![p] = [task[p] EXCEPT !.pc = "notice"]]
  BY DEF DeleteRoomMapping, Goto, At, IInv, TypeOK
<1>2. Entitled([task[p] EXCEPT !.pc = "notice"], ever, rows', nextId)
  BY <1>1, NoticeEntitled DEF IInv, TasksInv
<1>3. TypeOK'
  BY <1>1, <1>2 DEF IInv, TypeOK, Entitled
<1>4. EverInv' /\ RowsInv' /\ CacheInv'
  BY <1>1 DEF IInv, EverInv, RowsInv, CacheInv
<1>5. ASSUME NEW q \in Tasks, task[q] # None PROVE Entitled(task[q], ever, rows', nextId)
  BY <1>1, <1>5 DEF IInv, TasksInv, Entitled
<1>6. TasksInv'
  BY <1>1, <1>2, <1>5 DEF IInv, TypeOK, TasksInv
<1> QED BY <1>3, <1>4, <1>6 DEF IInv

(* The update leaves every identity as it was. *)
LEMMA UpdateKeepsIdentities ==
  ASSUME IInv, NEW p \in Tasks, UpdateRoomMapping(p)
  PROVE  /\ task[p] # None /\ task[p].held # None /\ task[p].held \in RoomMapping
         /\ \A m \in rows': m \in RoomMapping /\ \E r \in rows: Identity(m) = Identity(r)
         /\ \A r \in rows: \E m \in rows': Identity(m) = Identity(r)
         /\ \A m \in rows' \ rows: m = task[p].held
         /\ \A m, n \in rows': m.id = n.id => m = n
<1> DEFINE h == task[p].held
           New(m) == IF m.id = h.id THEN h ELSE m
<1>1. task[p] # None /\ h # None /\ h \in RoomMapping
  BY DEF UpdateRoomMapping, At, IInv, TasksInv, Entitled, Task
<1>2. rows' = {New(m): m \in rows}
  BY DEF UpdateRoomMapping
<1>3. \A m \in rows: /\ Identity(New(m)) = Identity(m)
                     /\ New(m) \in RoomMapping
                     /\ New(m) \in rows \/ New(m) = h
                     /\ New(m).id = m.id
  BY <1>1, HeldNamesItsRow DEF IInv, TypeOK
<1> HIDE DEF h
<1>4. ASSUME NEW m \in rows', NEW n \in rows', m.id = n.id PROVE m = n
  <2>1. PICK a \in rows, b \in rows: m = New(a) /\ n = New(b)
    BY <1>2
  <2>2. a = b
    BY <1>3, <1>4, <2>1 DEF IInv, RowsInv
  <2> QED BY <2>1, <2>2
<1> QED BY <1>1, <1>2, <1>3, <1>4 DEF h

(* An update leaves every row with its id, its room and its chat. *)
LEMMA UpdateIInv ==
  ASSUME IInv, NEW p \in Tasks, UpdateRoomMapping(p)
  PROVE  IInv'
<1>1. /\ UNCHANGED <<nextId, cache, ever>> /\ task[p] # None
      /\ task' = [task EXCEPT ![p] = [task[p] EXCEPT !.pc = "notice"]]
  BY DEF UpdateRoomMapping, Goto, At, IInv, TypeOK
<1>2. /\ \A m \in rows': m \in RoomMapping /\ \E r \in rows: Identity(m) = Identity(r)
      /\ \A m, n \in rows': m.id = n.id => m = n
  BY UpdateKeepsIdentities
<1>3. \A m, r: Identity(m) = Identity(r) => m.id = r.id /\ m.room = r.room /\ m.chat = r.chat
  BY DEF Identity
<1>4. Entitled([task[p] EXCEPT !.pc = "notice"], ever, rows', nextId)
  BY <1>1, NoticeEntitled DEF IInv, TasksInv
<1>5. TypeOK'
  BY <1>1, <1>2, <1>4 DEF IInv, TypeOK, Entitled
<1>6. EverInv' /\ CacheInv'
  BY <1>1 DEF IInv, EverInv, CacheInv
<1>7. RowsInv'
  <2>1. \A m \in rows': Identity(m) \in ever'
    BY <1>1, <1>2 DEF IInv, RowsInv
  <2>2. ASSUME NEW m \in rows', NEW n \in rows', m.id = n.id \/ m.room = n.room \/ m.chat = n.chat
        PROVE  m = n
    <3>1. PICK r \in rows, s \in rows: Identity(m) = Identity(r) /\ Identity(n) = Identity(s)
      BY <1>2
    <3>2. r = s
      BY <1>3, <2>2, <3>1 DEF IInv, RowsInv
    <3> QED BY <1>2, <1>3, <3>1, <3>2
  <2> QED BY <2>1, <2>2 DEF RowsInv
<1>8. ASSUME NEW q \in Tasks, task[q] # None PROVE Entitled(task[q], ever, rows', nextId)
  <2>1. \A m \in rows': \E r \in rows: m.id = r.id /\ m.room = r.room /\ m.chat = r.chat
    BY <1>2, <1>3
  <2> QED BY <1>8, <2>1 DEF IInv, TasksInv, Entitled, Keyed
<1>9. TasksInv'
  BY <1>1, <1>4, <1>8 DEF IInv, TypeOK, TasksInv
<1> QED BY <1>5, <1>6, <1>7, <1>9 DEF IInv

(* Every step keeps the invariant. *)
LEMMA StepIInv == IInv /\ [Next]_vars => IInv'
<1> SUFFICES ASSUME IInv, [Next]_vars PROVE IInv'
  OBVIOUS
<1>1. CASE UNCHANGED vars
  BY <1>1 DEF vars, IInv, TypeOK, EverInv, RowsInv, CacheInv, TasksInv
<1>2. ASSUME NEW p \in Tasks, Step(p) PROVE IInv'
  <2>1. CASE BeginBridge(p) \/ BeginByRoom(p) \/ BeginByChat(p) \/ BeginUpdated(p)
    <3>1. Rooms \subseteq Keys /\ Chats \subseteq Keys
      BY DEF Keys
    <3>2. NoUpdate \in ChatUpdate /\ Updates \subseteq ChatUpdate
      BY ConstantsAssumption DEF NoUpdate, ChatUpdate
    <3> QED
      BY <2>1, <3>1, <3>2, BeginIInv
         DEF BeginBridge, BeginByRoom, BeginByChat, BeginUpdated, Ops
  <2>2. CASE CacheLookup(p) \/ TableRead(p)
    BY <2>2, LookupIInv
  <2>3. CASE CachePut(p)
    BY <2>3, CachePutIInv
  <2>4. CASE \/ CommandAccepted(p) \/ CommandRefused(p) \/ BridgeRequest(p)
             \/ CreateConflict(p) \/ CompareChat(p) \/ Finish(p) \/ DatabaseError(p)
    BY <2>4, DecideIInv
  <2>5. CASE CreateRoomMapping(p)
    BY <2>5, CreateIInv
  <2>6. CASE DeleteRoomMapping(p)
    BY <2>6, DeleteIInv
  <2>7. CASE UpdateRoomMapping(p)
    BY <2>7, UpdateIInv
  <2> QED BY <1>2, <2>1, <2>2, <2>3, <2>4, <2>5, <2>6, <2>7 DEF Step
<1>3. ASSUME NEW k \in Keys, Evict(k) PROVE IInv'
  BY <1>3 DEF Evict, IInv, TypeOK, EverInv, RowsInv, CacheInv, TasksInv
<1>4. CASE Restart
  BY <1>4 DEF Restart, IInv, TypeOK, EverInv, RowsInv, CacheInv, TasksInv
<1> QED BY <1>1, <1>2, <1>3, <1>4 DEF Next

-----------------------------------------------------------------------------
(* The inductive invariant holds in every reachable state: the table is     *)
(* one-to-one and everything cached or held was really inserted.            *)
THEOREM Invariance == Spec => []IInv
<1>1. Init => IInv
  BY InitIInv
<1>2. IInv /\ [Next]_vars => IInv'
  BY StepIInv
<1> QED BY <1>1, <1>2, PTL DEF Spec

(* Every variable of the store keeps a value of its kind. *)
THEOREM TypeCorrect == Spec => []TypeOK
<1>1. IInv => TypeOK
  BY DEF IInv
<1> QED BY <1>1, Invariance, PTL

(* However old a cached or held mapping is, it was inserted under its id    *)
(* for the key it was looked up with (the deletes and updates by id of      *)
(* sqlite_stores.rs rest on it).                                            *)
THEOREM HeldGenuine == Spec => []HeldIsGenuine
<1>1. IInv => HeldIsGenuine
  BY DEF IInv, HeldIsGenuine, CacheInv, TasksInv, Entitled
<1> QED BY <1>1, Invariance, PTL

(* A lookup never misses a mapping that existed when its handler began. *)
THEOREM LinkSeen == Spec => []LinkIsSeen
<1>1. IInv => LinkIsSeen
  BY DEF IInv, LinkIsSeen, TasksInv, Entitled, At
<1> QED BY <1>1, Invariance, PTL

(* Which steps change the table, and how: the only one that drops a row is  *)
(* a removal asked for with a key of that row, the only one that adds an    *)
(* identity is the insert of a conflict-free mapping.                       *)
LEMMA RowsSteps ==
  ASSUME IInv, [Next]_vars
  PROVE  \/ UNCHANGED <<rows, ever>>
         \/ \E p \in Tasks: CreateRoomMapping(p)
         \/ \E p \in Tasks: DeleteRoomMapping(p)
         \/ \E p \in Tasks: UpdateRoomMapping(p)
BY DEF Next, Step, vars, BeginBridge, BeginByRoom, BeginByChat, BeginUpdated, Begin, CacheLookup,
       TableRead, CachePut, CommandAccepted, CommandRefused, BridgeRequest, CreateConflict,
       CompareChat, Finish, DatabaseError, Evict, Restart

(* A row disappears only by a removal asked for with its own room or chat,  *)
(* even when the handler works from a mapping that is long gone.            *)
THEOREM RemovalsAreOwn == Spec => RemovesOnlyItsOwn
<1> DEFINE Own == \A m \in rows: m.id \notin IdsOf(rows') =>
                    \E p \in Tasks: At(p, "got") /\ task[p].op \in Deleters /\ Keyed(m, task[p].key)
<1>1. IInv /\ [Next]_vars => [Own]_vars
  <2> SUFFICES ASSUME IInv, [Next]_vars, NEW m \in rows, m.id \notin IdsOf(rows')
               PROVE  \E p \in Tasks: At(p, "got") /\ task[p].op \in Deleters /\ Keyed(m, task[p].key)
    OBVIOUS
  <2>1. CASE UNCHANGED <<rows, ever>>
    BY <2>1 DEF IdsOf
  <2>2. CASE \E p \in Tasks: CreateRoomMapping(p)
    BY <2>2 DEF CreateRoomMapping, IdsOf
  <2>3. ASSUME NEW p \in Tasks, DeleteRoomMapping(p)
        PROVE  At(p, "got") /\ task[p].op \in Deleters /\ Keyed(m, task[p].key)
    <3>1. /\ At(p, "got") /\ task[p].op \in Deleters /\ task[p].held # None /\ task[p] # None
          /\ rows' = {r \in rows: r.id # task[p].held.id}
      BY <2>3 DEF DeleteRoomMapping, At
    <3>2. m.id = task[p].held.id
      BY <3>1 DEF IdsOf
    <3> QED BY <3>1, <3>2, HeldNamesItsRow
  <2>4. ASSUME NEW p \in Tasks, UpdateRoomMapping(p) PROVE FALSE
    <3>1. \E n \in rows': Identity(n) = Identity(m)
      BY <2>4, UpdateKeepsIdentities
    <3> QED BY <3>1 DEF Identity, IdsOf
  <2> QED BY <2>1, <2>2, <2>3, <2>4, RowsSteps
<1>2. Spec => [][Own]_vars
  BY <1>1, Invariance, PTL DEF Spec
<1> QED BY <1>2 DEF RemovesOnlyItsOwn

(* The table implements the one-to-one relation of RoomLinks: what an       *)
(* insert, a delete by id and an update by id do to the table is what       *)
(* connecting, disconnecting and nothing at all do to the links.            *)
THEOREM ImplementsLinks == Spec => LinksSpec
<1> DEFINE links == {Identity(m): m \in rows}
<1>1. Init => L!Init
  BY DEF Init, L!Init
<1>2. IInv /\ [Next]_vars => [L!Next]_<<links, ever>>
  <2> SUFFICES ASSUME IInv, [Next]_vars PROVE L!Next \/ UNCHANGED <<links, ever>>
    OBVIOUS
  <2>1. CASE UNCHANGED <<rows, ever>>
    BY <2>1
  <2>2. ASSUME NEW p \in Tasks, CreateRoomMapping(p) PROVE L!Next
    <3> DEFINE m == NewMapping(p)
               l == Identity(m)
    <3>1. m \in RoomMapping /\ m.id = nextId
      BY <2>2, CreateTypes
    <3>2. /\ rows' = rows \cup {m} /\ ever' = ever \cup {l}
          /\ \A r \in rows: r.room # m.room /\ r.chat # m.chat
      BY <2>2 DEF CreateRoomMapping, Conflict
    <3> HIDE DEF m
    <3>3. l \in L!Link
      BY <3>1 DEF L!Link, Identity, RoomMapping
    <3>4. L!Free(l)
      BY <3>2 DEF L!Free, Identity
    <3>5. L!Fresh(l)
      BY <3>1 DEF L!Fresh, Identity, IInv, EverInv, TypeOK, RoomMapping, Ids
    <3>6. links' = links \cup {l}
      BY <3>2
    <3> HIDE DEF l
    <3> QED BY <3>2, <3>3, <3>4, <3>5, <3>6 DEF L!Next, L!Connect
  <2>3. ASSUME NEW p \in Tasks, DeleteRoomMapping(p) PROVE L!Next \/ UNCHANGED <<links, ever>>
    <3>1. rows' = {r \in rows: r.id # task[p].held.id} /\ ever' = ever
      BY <2>3 DEF DeleteRoomMapping
    <3>2. CASE \A r \in rows: r.id # task[p].held.id
      BY <3>1, <3>2
    <3>3. ASSUME NEW m \in rows, m.id = task[p].held.id PROVE L!Next
      <4>1. \A r \in rows: r.id = m.id => r = m
        BY DEF IInv, RowsInv
      <4>2. \A r \in rows: Identity(r) = Identity(m) => r.id = m.id
        BY DEF Identity
      <4>3. rows' = rows \ {m}
        BY <3>1, <3>3, <4>1
      <4>5. links' = links \ {Identity(m)}
        BY <4>1, <4>2, <4>3
      <4>4. Identity(m) \in links
        OBVIOUS
      <4> QED BY <3>1, <4>4, <4>5 DEF L!Next, L!Disconnect
    <3> QED BY <3>2, <3>3
  <2>4. ASSUME NEW p \in Tasks, UpdateRoomMapping(p) PROVE UNCHANGED <<links, ever>>
    BY <2>4, UpdateKeepsIdentities DEF UpdateRoomMapping
  <2> QED BY <2>1, <2>2, <2>3, <2>4, RowsSteps
<1> QED BY <1>1, <1>2, Invariance, PTL DEF Spec, LinksSpec, L!Spec

-----------------------------------------------------------------------------
(* Only a chat update writes, and it looked its mapping up by its chat. *)
Writes(t) ==
  /\ t.pc = "write" => t.op = "updated"
  /\ t.op = "updated" => t.chat \in Chats /\ t.key = t.chat

WritersInv == \A p \in Tasks: task[p] # None => Writes(task[p])

(* A handler that goes on keeps its kind and its key, but for one that     *)
(* turns into a request, and only a chat update goes on to write.          *)
LEMMA WritersKept ==
  ASSUME IInv, WritersInv, [Next]_vars
  PROVE  WritersInv'
<1> SUFFICES ASSUME NEW q \in Tasks, task'[q] # None, task'[q] # task[q]
             PROVE  Writes(task'[q])
  BY DEF WritersInv
<1>1. PICK p \in Tasks: Step(p)
  BY DEF Next, Evict, Restart, vars
<1>2. ASSUME NEW t, task' = [task EXCEPT ![p] = t] PROVE q = p /\ task'[q] = t
  BY <1>2 DEF IInv, TypeOK
<1>3. ASSUME task[p] # None PROVE task[p] \in Task /\ Writes(task[p])
  BY <1>3 DEF IInv, TypeOK, WritersInv
<1>4. ASSUME NEW op, NEW room, NEW chat, NEW key, NEW new, Begin(p, op, room, chat, key, new),
             op = "updated" => chat \in Chats /\ key = chat
      PROVE  Writes(task'[q])
  <2> PICK t: t = [op |-> op, pc |-> "cache", room |-> room, chat |-> chat, key |-> key,
                   held |-> None, new |-> new,
                   live |-> IdsOf({m \in rows: m.room = room \/ m.chat = chat})]
    OBVIOUS
  <2>1. task' = [task EXCEPT ![p] = t]
    BY <1>4 DEF Begin
  <2>2. t.op = op /\ t.pc = "cache" /\ t.chat = chat /\ t.key = key
    OBVIOUS
  <2> QED BY <1>2, <1>4, <2>1, <2>2 DEF Writes
<1>5. CASE BeginBridge(p) \/ BeginByRoom(p) \/ BeginByChat(p) \/ BeginUpdated(p)
  BY <1>4, <1>5 DEF BeginBridge, BeginByRoom, BeginByChat, BeginUpdated
<1>6. ASSUME NEW t \in Task, task[p] # None, task' = [task EXCEPT ![p] = t], t.pc # "write",
             t.op = task[p].op, t.chat = task[p].chat, t.key = task[p].key
      PROVE  Writes(task'[q])
  BY <1>2, <1>3, <1>6 DEF Writes
<1>7. ASSUME NEW pc \in {"got", "insert", "notice"}, Goto(p, pc), task[p] # None
      PROVE  Writes(task'[q])
  <2> PICK t: t = [task[p] EXCEPT !.pc = pc]
    OBVIOUS
  <2>1. /\ t \in Task /\ t.pc = pc /\ t.op = task[p].op /\ t.chat = task[p].chat
        /\ t.key = task[p].key
    BY <1>3, <1>7 DEF Task
  <2>2. task' = [task EXCEPT ![p] = t]
    BY <1>7 DEF Goto
  <2> QED BY <1>6, <1>7, <2>1, <2>2
<1>8. ~ End(p)
  BY DEF End, IInv, TypeOK
<1>9. ASSUME NEW m \in RoomMapping \cup {None}, NEW pc \in {"put", "got"}, task[p] # None,
             task' = [task EXCEPT ![p].held = m, ![p].pc = pc]
      PROVE  Writes(task'[q])
  <2> PICK t: t = [task[p] EXCEPT !.held = m, !.pc = pc]
    OBVIOUS
  <2>1. /\ t \in Task /\ t.pc = pc /\ t.op = task[p].op /\ t.chat = task[p].chat
        /\ t.key = task[p].key
    BY <1>3, <1>9 DEF Task
  <2>2. task' = [task EXCEPT ![p] = t]
    BY <1>9 DEF IInv, TypeOK
  <2> QED BY <1>6, <1>9, <2>1, <2>2
<1>10. CASE CacheLookup(p)
  <2>1. CASE task' = [task EXCEPT ![p].pc = "read"]
    <3> PICK t: t = [task[p] EXCEPT !.pc = "read"]
      OBVIOUS
    <3>1. /\ task[p] # None /\ t \in Task /\ t.pc = "read" /\ t.op = task[p].op
          /\ t.chat = task[p].chat /\ t.key = task[p].key
      BY <1>3, <1>10 DEF Task, CacheLookup, At
    <3> QED BY <1>6, <2>1, <3>1
  <2>2. CASE task' = [task EXCEPT ![p].held = cache[task[p].key], ![p].pc = "got"]
    <3>1. task[p] # None /\ cache[task[p].key] \in RoomMapping \cup {None}
      BY <1>3, <1>10 DEF Task, CacheLookup, At, IInv, TypeOK
    <3> QED BY <1>9, <2>2, <3>1
  <2> QED BY <1>10, <2>1, <2>2 DEF CacheLookup
<1>11. CASE TableRead(p)
  <2>1. task[p] # None /\ rows \subseteq RoomMapping
    BY <1>11 DEF TableRead, At, IInv, TypeOK
  <2> QED BY <1>9, <1>11, <2>1 DEF TableRead
<1>12. CASE CommandAccepted(p)
  <2>1. CASE /\ Running(p, "got", "bridge")
             /\ task' = [task EXCEPT ![p].op = "handle_bridge_request", ![p].pc = "cache",
                                     ![p].key = task[p].chat]
    <3> PICK t: t = [task[p] EXCEPT !.op = "handle_bridge_request", !.pc = "cache",
                                    !.key = task[p].chat]
      OBVIOUS
    <3>1. task' = [task EXCEPT ![p] = t] /\ t.op = "handle_bridge_request" /\ t.pc = "cache"
      BY <1>3, <2>1 DEF Running, At, Task, IInv, TypeOK
    <3> QED BY <1>2, <3>1 DEF Writes
  <2>2. CASE /\ Running(p, "got", "unbridge")
             /\ task' = [task EXCEPT ![p].op = "remove", ![p].pc = "cache", ![p].held = None]
    <3> PICK t: t = [task[p] EXCEPT !.op = "remove", !.pc = "cache", !.held = None]
      OBVIOUS
    <3>1. task' = [task EXCEPT ![p] = t] /\ t.op = "remove" /\ t.pc = "cache"
      BY <1>3, <2>2 DEF Running, At, Task, IInv, TypeOK
    <3> QED BY <1>2, <3>1 DEF Writes
  <2> QED BY <1>12, <2>1, <2>2 DEF CommandAccepted
<1>13. CASE CompareChat(p)
  <2> PICK h: h = Revise(task[p].held, task[p].new)
    OBVIOUS
  <2> PICK pc: pc = IF h # task[p].held THEN "write" ELSE "notice"
    OBVIOUS
  <2> PICK t: t = [task[p] EXCEPT !.held = h, !.pc = pc]
    OBVIOUS
  <2>1. task' = [task EXCEPT ![p] = t] /\ task[p] # None /\ task[p].op = "updated"
    BY <1>13 DEF CompareChat, Running, At, IInv, TypeOK
  <2>2. t.op = task[p].op /\ t.chat = task[p].chat /\ t.key = task[p].key
    BY <1>3, <2>1 DEF Task
  <2> QED BY <1>2, <1>3, <2>1, <2>2 DEF Writes
<1>14. CASE \/ CommandRefused(p) \/ CreateConflict(p) \/ Finish(p) \/ DatabaseError(p)
            \/ CreateRoomMapping(p)
  BY <1>8, <1>14 DEF CommandRefused, CreateConflict, Finish, DatabaseError, CreateRoomMapping
<1>15. CASE CachePut(p) \/ BridgeRequest(p) \/ DeleteRoomMapping(p) \/ UpdateRoomMapping(p)
  BY <1>7, <1>8, <1>15 DEF CachePut, BridgeRequest, DeleteRoomMapping, UpdateRoomMapping, Running, At
<1> QED BY <1>1, <1>5, <1>10, <1>11, <1>12, <1>13, <1>14, <1>15 DEF Step

(* What a handler does at "write", unless it ends, is the update. *)
LEMMA WriteIsUpdate ==
  ASSUME IInv, [Next]_vars, NEW q \in Tasks, At(q, "write"), task'[q] # None, task'[q] # task[q]
  PROVE  UpdateRoomMapping(q)
<1>1. PICK p \in Tasks: Step(p)
  BY DEF Next, Evict, Restart, vars
<1>2. q = p
  <2>1. ASSUME NEW t, task' = [task EXCEPT ![p] = t] PROVE q = p
    BY <2>1 DEF IInv, TypeOK
  <2>2. \E t: task' = [task EXCEPT ![p] = t]
    BY <1>1 DEF Step, BeginBridge, BeginByRoom, BeginByChat, BeginUpdated, Begin, CacheLookup,
       TableRead, CachePut, CommandAccepted, CommandRefused, BridgeRequest, CreateRoomMapping,
       CreateConflict, DeleteRoomMapping, CompareChat, UpdateRoomMapping, Finish, DatabaseError,
       Goto, End, IInv, TypeOK
  <2> QED BY <2>1, <2>2
<1>3. ~ End(q)
  BY DEF End, IInv, TypeOK
<1>4. task[q] # None /\ task[q].pc = "write"
  BY DEF At
<1> QED BY <1>1, <1>2, <1>3, <1>4
        DEF Step, BeginBridge, BeginByRoom, BeginByChat, BeginUpdated, Begin, CacheLookup,
       TableRead, CachePut, CommandAccepted, CommandRefused, BridgeRequest, CreateRoomMapping,
       CreateConflict, DeleteRoomMapping, CompareChat, Finish, DatabaseError, At, Running

(* An update that works from an old mapping brings none back, moves none,  *)
(* and touches no chat but its own: update_room_mapping, which writes every *)
(* column where the id still is.                                           *)
THEOREM UpdatesAreOwn == Spec => UpdatesOnlyItsOwn
<1> DEFINE Own == \A p \in Tasks: At(p, "write") /\ task'[p] # None /\ task'[p] # task[p] =>
                    /\ {Identity(m): m \in rows'} = {Identity(m): m \in rows}
                    /\ \A m \in rows' \ rows: m.chat = task[p].chat
<1>1. Init => WritersInv
  BY DEF Init, WritersInv
<1>2. IInv /\ WritersInv /\ [Next]_vars => WritersInv'
  BY WritersKept
<1>3. IInv /\ WritersInv /\ [Next]_vars => [Own]_vars
  <2> SUFFICES ASSUME IInv, WritersInv, [Next]_vars, NEW p \in Tasks, At(p, "write"),
                      task'[p] # None, task'[p] # task[p]
               PROVE  /\ {Identity(m): m \in rows'} = {Identity(m): m \in rows}
                      /\ \A m \in rows' \ rows: m.chat = task[p].chat
    OBVIOUS
  <2>1. UpdateRoomMapping(p)
    BY WriteIsUpdate
  <2>2. {Identity(m): m \in rows'} = {Identity(m): m \in rows}
    BY <2>1, UpdateKeepsIdentities
  <2>3. /\ task[p] \in Task /\ task[p].held \in RoomMapping /\ Keyed(task[p].held, task[p].key)
        /\ task[p].key = task[p].chat /\ task[p].chat \in Chats
    BY <2>1, UpdateKeepsIdentities DEF IInv, TypeOK, TasksInv, Entitled, WritersInv, Writes, At
  <2>4. task[p].held.chat = task[p].chat
    BY <2>3, ConstantsAssumption DEF Keyed, RoomMapping
  <2> QED BY <2>1, <2>2, <2>4, UpdateKeepsIdentities
<1>4. Spec => [][Own]_vars
  BY <1>1, <1>2, <1>3, Invariance, PTL DEF Spec
<1> QED BY <1>4 DEF UpdatesOnlyItsOwn
=============================================================================
