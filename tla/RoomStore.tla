----------------------------- MODULE RoomStore -----------------------------
(***************************************************************************)
(* The room_mappings table, the read-through LRU cache in front of it and  *)
(* the handlers that look mappings up and write them, interleaved at every *)
(* await.  The table survives a restart, the cache and the handlers do     *)
(* not.  Handlers for one Feishu chat normally run under that chat's lock, *)
(* but a replayed dead letter takes no lock, so no lock is assumed here.   *)
(***************************************************************************)
EXTENDS Naturals, FiniteSets

CONSTANTS Rooms,    \* Matrix room ids, the "mx:" cache keys
          Chats,    \* Feishu chat ids, the "fs:" cache keys
          Names,    \* Feishu chat names
          Modes,    \* values of feishu_chat_type
          BridgedRoom, \* the name a new mapping gets
          Group,    \* the chat type a new mapping gets
          Updates,  \* the im.chat.updated_v1 events that may arrive
          Tasks,    \* handlers that may run at the same time
          MaxId,    \* bound: how many mappings a behaviour may create
          None

(* What an im.chat.updated_v1 event says: an absent or blank name or mode  *)
(* is None; "told" is whether chat_mode (and not chat_type) gave the mode. *)
ChatUpdate == [name: Names \cup {None}, mode: Modes \cup {None}, told: BOOLEAN]

NoUpdate == [name |-> None, mode |-> None, told |-> FALSE]

ASSUME ConstantsAssumption ==
  /\ Rooms \cap Chats = {}
  /\ BridgedRoom \in Names /\ Group \in Modes
  /\ MaxId \in Nat
  /\ Updates \subseteq ChatUpdate
  /\ None \notin [id: Nat, room: Rooms, chat: Chats, name: Names, mode: Modes]

VARIABLES rows,    \* the table
          nextId,  \* sqlite_sequence: AUTOINCREMENT never hands out an id twice
          cache,   \* room_cache
          task,    \* the handlers in progress
          ever     \* history: identity of every mapping ever inserted

vars == <<rows, nextId, cache, task, ever>>

Keys == Rooms \cup Chats
Ids  == 1..MaxId

RoomMapping == [id: Ids, room: Rooms, chat: Chats, name: Names, mode: Modes]

(* What a handler is doing.  handle_command looks its room up and goes on  *)
(* as handle_bridge_request or handle_unbridge_request ("remove"), which   *)
(* look up again; the provisioning API's delete_bridge starts at "remove". *)
(* "forward" carries a Matrix message and "deliver" a Feishu one.          *)
Ops == {"bridge", "unbridge", "handle_bridge_request", "remove",
        "disbanded", "updated", "forward", "deliver"}

Deleters == {"remove", "disbanded"}

(* "live" is history: the mappings of its room or chat that existed when   *)
(* the handler began.                                                      *)
Task == [op: Ops, pc: {"cache", "read", "put", "got", "insert", "write", "notice"},
         room: Rooms \cup {None}, chat: Chats \cup {None}, key: Keys,
         held: RoomMapping \cup {None}, new: ChatUpdate, live: SUBSET Ids]

Identity(m) == [id |-> m.id, room |-> m.room, chat |-> m.chat]

IdsOf(ms) == {m.id: m \in ms}

Keyed(m, k) == m.room = k \/ m.chat = k

(* Every variable holds a value of its kind. *)
TypeOK ==
  /\ rows \subseteq RoomMapping
  /\ nextId \in 1..(MaxId + 1)
  /\ cache \in [Keys -> RoomMapping \cup {None}]
  /\ task \in [Tasks -> Task \cup {None}]
  /\ ever \subseteq [id: Ids, room: Rooms, chat: Chats]

Init ==
  /\ rows = {}
  /\ nextId = 1
  /\ cache = [k \in Keys |-> None]
  /\ task = [p \in Tasks |-> None]
  /\ ever = {}

-----------------------------------------------------------------------------
At(p, pc) == task[p] # None /\ task[p].pc = pc

Running(p, pc, op) == At(p, pc) /\ task[p].op = op

Goto(p, pc) == task' = [task EXCEPT ![p].pc = pc]

End(p) == task' = [task EXCEPT ![p] = None]

Begin(p, op, room, chat, key, new) ==
  /\ task[p] = None
  /\ task' = [task EXCEPT ![p] =
       [op |-> op, pc |-> "cache", room |-> room, chat |-> chat, key |-> key,
        held |-> None, new |-> new, live |-> IdsOf({m \in rows: m.room = room \/ m.chat = chat})]]
  /\ UNCHANGED <<rows, nextId, cache, ever>>

BeginBridge(p) == \E r \in Rooms, c \in Chats: Begin(p, "bridge", r, c, r, NoUpdate)

BeginByRoom(p) == \E op \in {"unbridge", "remove", "forward"}, r \in Rooms:
  Begin(p, op, r, None, r, NoUpdate)

BeginByChat(p) == \E op \in {"disbanded", "deliver"}, c \in Chats:
  Begin(p, op, None, c, c, NoUpdate)

BeginUpdated(p) == \E c \in Chats, u \in Updates: Begin(p, "updated", None, c, c, u)

-----------------------------------------------------------------------------
(* get_room_by_matrix_id and get_room_by_feishu_id: the cache, else the    *)
(* table on a blocking thread, then the cache is filled if a row was found.*)
CacheLookup_CacheOnly(p) ==  \* mutant: a miss is answered without the table
  /\ At(p, "cache")
  /\ task' = [task EXCEPT ![p].held = cache[task[p].key], ![p].pc = "got"]
  /\ UNCHANGED <<rows, nextId, cache, ever>>

CacheLookup(p) ==
  /\ At(p, "cache")
  /\ LET hit == cache[task[p].key] IN
       task' = IF hit # None
               THEN [task EXCEPT ![p].held = hit, ![p].pc = "got"]
               ELSE [task EXCEPT ![p].pc = "read"]
  /\ UNCHANGED <<rows, nextId, cache, ever>>

TableRead_Unfiltered(p) ==  \* mutant: the filter on the key is forgotten
  /\ At(p, "read")
  /\ \/ \E m \in rows: task' = [task EXCEPT ![p].held = m, ![p].pc = "put"]
     \/ rows = {} /\ task' = [task EXCEPT ![p].held = None, ![p].pc = "got"]
  /\ UNCHANGED <<rows, nextId, cache, ever>>

TableRead(p) ==
  /\ At(p, "read")
  /\ LET found == {m \in rows: Keyed(m, task[p].key)} IN
       \/ \E m \in found: task' = [task EXCEPT ![p].held = m, ![p].pc = "put"]
       \/ found = {} /\ task' = [task EXCEPT ![p].held = None, ![p].pc = "got"]
  /\ UNCHANGED <<rows, nextId, cache, ever>>

CachePut(p) ==
  /\ At(p, "put")
  /\ cache' = [cache EXCEPT ![task[p].key] = task[p].held]
  /\ Goto(p, "got")
  /\ UNCHANGED <<rows, nextId, ever>>

-----------------------------------------------------------------------------
(* handle_command goes on only if the room has no mapping (bridge) or has  *)
(* one (unbridge); the request then does its own lookup.                   *)
CommandAccepted(p) ==
  /\ \/ Running(p, "got", "bridge") /\ task[p].held = None
        /\ task' = [task EXCEPT ![p].op = "handle_bridge_request", ![p].pc = "cache",
                                ![p].key = task[p].chat]
     \/ Running(p, "got", "unbridge") /\ task[p].held # None
        /\ task' = [task EXCEPT ![p].op = "remove", ![p].pc = "cache",
                                ![p].held = None]
  /\ UNCHANGED <<rows, nextId, cache, ever>>

CommandRefused(p) ==
  /\ \/ Running(p, "got", "bridge") /\ task[p].held # None
     \/ Running(p, "got", "unbridge") /\ task[p].held = None
  /\ End(p)
  /\ UNCHANGED <<rows, nextId, cache, ever>>

(* The chat is free as far as the lookup knows. *)
BridgeRequest(p) ==
  /\ Running(p, "got", "handle_bridge_request")
  /\ IF task[p].held = None THEN Goto(p, "insert") ELSE End(p)
  /\ UNCHANGED <<rows, nextId, cache, ever>>

NewMapping_IdZero(p) ==  \* mutant: the id RoomMapping::new gives is inserted
  [id |-> 0, room |-> task[p].room, chat |-> task[p].chat, name |-> BridgedRoom, mode |-> Group]

NewMapping_IdReused(p) ==  \* mutant: a primary key without AUTOINCREMENT
  [id |-> Cardinality(rows) + 1, room |-> task[p].room, chat |-> task[p].chat,
   name |-> BridgedRoom, mode |-> Group]

NewMapping(p) == [id |-> nextId, room |-> task[p].room, chat |-> task[p].chat,
                  name |-> BridgedRoom, mode |-> Group]

Conflict_RoomOnly(m) == \E r \in rows: r.room = m.room  \* mutant: feishu_chat_id not UNIQUE

(* The UNIQUE columns of the table. *)
Conflict(m) == \E r \in rows: r.room = m.room \/ r.chat = m.chat

CreateRoomMapping(p) ==
  /\ At(p, "insert")
  /\ nextId <= MaxId
  /\ LET m == NewMapping(p) IN
       /\ ~ Conflict(m)
       /\ rows' = rows \cup {m}
       /\ ever' = ever \cup {Identity(m)}
  /\ nextId' = nextId + 1
  /\ End(p)
  /\ UNCHANGED cache

CreateConflict(p) ==
  /\ At(p, "insert")
  /\ Conflict(NewMapping(p))
  /\ End(p)
  /\ UNCHANGED <<rows, nextId, cache, ever>>

(* delete_room_mapping deletes by the id of the mapping that was looked    *)
(* up, and leaves room_cache alone; the reply or notice comes afterwards.  *)
DeleteRoomMapping(p) ==
  /\ At(p, "got") /\ task[p].op \in Deleters /\ task[p].held # None
  /\ rows' = {m \in rows: m.id # task[p].held.id}
  /\ Goto(p, "notice")
  /\ UNCHANGED <<nextId, cache, ever>>

-----------------------------------------------------------------------------
Revise(m, u) == [m EXCEPT !.name = IF u.name = None THEN @ ELSE u.name,
                          !.mode = IF u.mode = None THEN @ ELSE u.mode]

(* The event is compared with the mapping looked up, not with the row, and *)
(* nothing is written when they agree.                                     *)
CompareChat(p) ==
  /\ Running(p, "got", "updated") /\ task[p].held # None
  /\ LET m == Revise(task[p].held, task[p].new) IN
       task' = [task EXCEPT ![p].held = m,
                            ![p].pc = IF m # task[p].held THEN "write" ELSE "notice"]
  /\ UNCHANGED <<rows, nextId, cache, ever>>

(* update_room_mapping: every column is set from the mapping in hand, where *)
(* the row still exists.                                                    *)
UpdateRoomMapping_Upsert(p) ==  \* mutant: REPLACE INTO instead of UPDATE
  /\ At(p, "write")
  /\ rows' = {m \in rows: m.id # task[p].held.id} \cup {task[p].held}
  /\ Goto(p, "notice")
  /\ UNCHANGED <<nextId, cache, ever>>

UpdateRoomMapping(p) ==
  /\ At(p, "write")
  /\ rows' = {IF m.id = task[p].held.id THEN task[p].held ELSE m: m \in rows}
  /\ Goto(p, "notice")
  /\ UNCHANGED <<nextId, cache, ever>>

(* The reply or notice, if any, is sent; a message is forwarded or         *)
(* delivered with the mapping in hand; or there was no mapping to act on.  *)
Finish(p) ==
  /\ \/ At(p, "notice")
     \/ At(p, "got") /\ task[p].op \in {"forward", "deliver"}
     \/ At(p, "got") /\ task[p].op \in Deleters \cup {"updated"} /\ task[p].held = None
  /\ End(p)
  /\ UNCHANGED <<rows, nextId, cache, ever>>

(* A query or a statement fails and the handler returns the error. *)
DatabaseError(p) ==
  /\ \/ At(p, "read") \/ At(p, "insert") \/ At(p, "write")
     \/ At(p, "got") /\ task[p].op \in Deleters /\ task[p].held # None
  /\ End(p)
  /\ UNCHANGED <<rows, nextId, cache, ever>>

(* The LRU drops an entry to make room for another. *)
Evict(k) ==
  /\ cache' = [cache EXCEPT ![k] = None]
  /\ UNCHANGED <<rows, nextId, task, ever>>

(* Only the database survives the process. *)
Restart ==
  /\ cache' = [k \in Keys |-> None]
  /\ task' = [p \in Tasks |-> None]
  /\ UNCHANGED <<rows, nextId, ever>>

Step(p) ==
  \/ BeginBridge(p) \/ BeginByRoom(p) \/ BeginByChat(p) \/ BeginUpdated(p)
  \/ CacheLookup(p) \/ TableRead(p) \/ CachePut(p)
  \/ CommandAccepted(p) \/ CommandRefused(p)
  \/ BridgeRequest(p) \/ CreateRoomMapping(p) \/ CreateConflict(p)
  \/ DeleteRoomMapping(p) \/ CompareChat(p) \/ UpdateRoomMapping(p)
  \/ Finish(p) \/ DatabaseError(p)

Next == (\E p \in Tasks: Step(p)) \/ (\E k \in Keys: Evict(k)) \/ Restart

Spec == Init /\ [][Next]_vars

-----------------------------------------------------------------------------
(* Whatever is in the cache or in a handler's hands, and however old it is, *)
(* is a mapping that was inserted under that id, for the key it was looked  *)
(* up with.  Deleting and updating by id (delete_room_mapping,              *)
(* update_room_mapping) are right only because of this.                     *)
HeldIsGenuine ==
  /\ \A k \in Keys: cache[k] # None => Identity(cache[k]) \in ever /\ Keyed(cache[k], k)
  /\ \A p \in Tasks: task[p] # None /\ task[p].held # None =>
       Identity(task[p].held) \in ever /\ Keyed(task[p].held, task[p].key)

(* A mapping that has existed since before a handler began is never missed  *)
(* by its lookup: stale answers are possible, false "not bridged" ones not. *)
LinkIsSeen ==
  \A p \in Tasks: At(p, "got") /\ task[p].held = None =>
    ~ \E m \in rows: m.id \in task[p].live /\ Keyed(m, task[p].key)

(* A row only ever disappears by a removal asked for in its own Matrix room *)
(* or for its own Feishu chat, even if the handler works from a mapping     *)
(* that was removed, and the room bridged anew, long ago.                   *)
RemovesOnlyItsOwn ==
  [][\A m \in rows: m.id \notin IdsOf(rows') =>
       \E p \in Tasks: At(p, "got") /\ task[p].op \in Deleters /\ Keyed(m, task[p].key)]_vars

(* A chat update never brings a removed mapping back, never moves a mapping *)
(* to another room or chat, and touches no chat but the one it is about.    *)
UpdatesOnlyItsOwn ==
  [][\A p \in Tasks: At(p, "write") /\ task'[p] # None /\ task'[p] # task[p] =>
       /\ {Identity(m): m \in rows'} = {Identity(m): m \in rows}
       /\ \A m \in rows' \ rows: m.chat = task[p].chat]_vars

(* What the next lookup of a key would answer. *)
Answer(k) == IF cache[k] # None THEN {cache[k]} ELSE {m \in rows: Keyed(m, k)}

(* "Bridge removed" (event_processor.rs) and "To remove mapping later:      *)
(* !feishu unbridge" (README.md): once the reply is due, the removed        *)
(* mapping is not what the next Matrix message of the room is sent by.      *)
RemovedIsGone ==
  \A p \in Tasks: Running(p, "notice", "remove") =>
    \A m \in Answer(task[p].room): m.id # task[p].held.id

-----------------------------------------------------------------------------
(* The table implements the one-to-one relation of links. *)
L == INSTANCE RoomLinks WITH links <- {Identity(m): m \in rows}

LinksSpec == L!Spec
=============================================================================
