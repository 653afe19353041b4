------------------------------ MODULE UserSync ------------------------------
(***************************************************************************)
(* sync_feishu_user_mapping, run for the sender of every Feishu message    *)
(* and the members named by an event: it keeps a row of user_mappings for  *)
(* the user and finds the Matrix user the message is sent as.  The LRU     *)
(* cache of the store is not told when rows change or go, and the          *)
(* maintenance loop deletes the rows that have not changed for             *)
(* user_mapping_stale_ttl_hours.                                           *)
(*                                                                         *)
(* The profile comes from Feishu, or from FeishuService's cache of earlier *)
(* answers: either way it says something the user's profile said, which    *)
(* the model leaves open.                                                  *)
(***************************************************************************)
EXTENDS Naturals

CONSTANTS Users,      \* canonical Feishu user ids
          Ids,        \* ids by which events name users
          UserOf,     \* id -> the user it belongs to
          Names,      \* what a profile may say: name and avatar
          Workers,    \* handlers that may be syncing at the same time
          MaxFaults,  \* bound: failures, cleanups and restarts
          None

ASSUME ConstantsAssumption ==
  /\ UserOf \in [Ids -> Users] /\ \A i \in Ids \cap Users: UserOf[i] = i
  /\ MaxFaults \in Nat
  /\ None \notin Names

VARIABLES cooling,  \* user_last_synced_at: ids refreshed within the interval
          table,    \* user_mappings
          nextId,   \* AUTOINCREMENT
          cache,    \* SqliteStores.user_cache: row by "fs:<id>"
          work,     \* what each worker is doing
          faults

vars == <<cooling, table, nextId, cache, work, faults>>

(* matrix_user_id is a function of the Feishu user (format_username), so a  *)
(* row is known by its user.                                                *)
Row == [id: Nat \ {0}, user: Users, name: Names]

Lookups == {"direct", "find", "look"}

Steps == Lookups \cup {"profile", "save", "create", "done"}

(* "name" is the profile in hand, "row" the mapping; "hurt" is history: the *)
(* sync failed, or lost its user's row to another actor.                    *)
Work == [id: Ids, pc: Steps, name: Names \cup {None}, row: Row \cup {None}, hurt: BOOLEAN]

ASSUME NoneAssumption == None \notin Row /\ None \notin Work

(* Every variable holds a value of its kind. *)
TypeOK ==
  /\ cooling \subseteq Ids
  /\ table \subseteq Row
  /\ nextId \in Nat \ {0} /\ \A r \in table: r.id < nextId
  /\ cache \in [Ids \cup Users -> Row \cup {None}]
  /\ work \in [Workers -> Work \cup {None}]
  /\ faults \in 0..MaxFaults

Empty(S) == [x \in S |-> None]

Init ==
  /\ cooling = {}
  /\ table = {} /\ nextId = 1 /\ cache = Empty(Ids \cup Users)
  /\ work = Empty(Workers)
  /\ faults = 0

-----------------------------------------------------------------------------
At(w, pc) == work[w] # None /\ work[w].pc = pc

User(w) == UserOf[work[w].id]

Fault == faults < MaxFaults /\ faults' = faults + 1

Goto(w, pc) == work' = [work EXCEPT ![w].pc = pc]

Database == <<table, nextId>>

(* handle_feishu_message, or a member event, starts the sync of an id with  *)
(* reserve_user_sync_slot, which runs under one lock: the slot is taken     *)
(* before it is known whether the refresh succeeds.                         *)
Start(w, i) ==
  /\ work[w] = None
  /\ work' = [work EXCEPT ![w] =
                [id |-> i, pc |-> IF i \in cooling THEN "direct" ELSE "profile",
                 name |-> None, row |-> None, hurt |-> FALSE]]
  /\ cooling' = cooling \cup {i}
  /\ UNCHANGED <<Database, cache, faults>>

-----------------------------------------------------------------------------
(* get_user_by_feishu_id.  While the slot is cooling down the user is       *)
(* looked up under the id the event names, later under the canonical one.   *)
Key(w) == IF At(w, "direct") THEN work[w].id ELSE User(w)

TableRead_Unfiltered(k) == table  \* mutant: first() without a filter

TableRead(k) == {r \in table: r.user = k}

NextStep_GivesUp(pc, row, name) ==  \* mutant: a cooling id without a mapping ends the sync
  CASE pc = "look"                        -> "done"
    [] pc = "direct"                      -> IF row = None THEN "done" ELSE "look"
    [] pc = "find" /\ row = None          -> "create"
    [] pc = "find" /\ row # None          -> IF row.name = name THEN "look" ELSE "save"

(* Where the answer of a lookup leads: a cooling id without a mapping is    *)
(* resolved through the profile; a mapping that says what the profile says  *)
(* is left as it is.                                                        *)
NextStep(pc, row, name) ==
  CASE pc = "look"                        -> "done"
    [] pc = "direct"                      -> IF row = None THEN "profile" ELSE "look"
    [] pc = "find" /\ row = None          -> "create"
    [] pc = "find" /\ row # None          -> IF row.name = name THEN "look" ELSE "save"

(* Only what is needed later is kept: the mapping to change, or the answer. *)
Answered(w, row) ==
  LET next == NextStep(work[w].pc, row, work[w].name)
  IN work' = [work EXCEPT ![w].pc = next,
                          ![w].row = IF next \in {"save", "done"} THEN row ELSE None,
                          ![w].name = IF next = "done" THEN None ELSE @]

LookupHit(w) ==
  /\ work[w] # None /\ work[w].pc \in Lookups
  /\ cache[Key(w)] # None
  /\ Answered(w, cache[Key(w)])
  /\ UNCHANGED <<cooling, Database, cache, faults>>

(* A row that is found goes into the cache.  That nothing comes between the *)
(* query and the insertion loses nothing: no statement reads the cache.     *)
LookupQuery(w) ==
  /\ work[w] # None /\ work[w].pc \in Lookups
  /\ cache[Key(w)] = None
  /\ \/ TableRead(Key(w)) = {} /\ Answered(w, None) /\ UNCHANGED cache
     \/ \E r \in TableRead(Key(w)): /\ Answered(w, r)
                                   /\ cache' = [cache EXCEPT ![Key(w)] = r]
  /\ UNCHANGED <<cooling, Database, faults>>

-----------------------------------------------------------------------------
(* FeishuService.get_user answers from its cache, or asks Feishu. *)
GetUser(w) ==
  /\ At(w, "profile")
  /\ \E n \in Names: work' = [work EXCEPT ![w].name = n, ![w].pc = "find"]
  /\ UNCHANGED <<cooling, Database, cache, faults>>

Failed(w) == [work[w] EXCEPT !.pc = "done", !.name = None, !.row = None, !.hurt = TRUE]

(* The whole mapping in hand is written over the row of its id, if there    *)
(* still is one; the store's cache keeps what it has.                       *)
Save(w) ==
  /\ At(w, "save")
  /\ table' = {IF r.id = work[w].row.id
               THEN [work[w].row EXCEPT !.name = work[w].name] ELSE r: r \in table}
  /\ work' = [work EXCEPT ![w].pc = "look", ![w].row = None]
  /\ UNCHANGED <<cooling, nextId, cache, faults>>

NewId_Reused == CHOOSE n \in 1..nextId: \A r \in table: r.id # n  \* mutant: no AUTOINCREMENT

NewId_Ahead == nextId + 1  \* mutant: an id that is not taken from the sequence

NewId == nextId

(* The insertion fails, and the sync with it, when another worker has made  *)
(* the user's row meanwhile.                                                *)
Create(w) ==
  /\ At(w, "create")
  /\ IF TableRead(User(w)) = {}
     THEN /\ table' = table \cup
                  {[id |-> NewId, user |-> User(w), name |-> work[w].name]}
          /\ nextId' = IF NewId = nextId THEN nextId + 1 ELSE nextId
          /\ Goto(w, "look")
     ELSE /\ work' = [work EXCEPT ![w] = Failed(w)]
          /\ UNCHANGED Database
  /\ UNCHANGED <<cooling, cache, faults>>

(* A request, a query or a statement fails: the message is sent as the bot. *)
Fails(w) ==
  /\ work[w] # None /\ Fault
  /\ work[w].pc \in Lookups \cup {"profile", "save", "create"}
  /\ work' = [work EXCEPT ![w] = Failed(w)]
  /\ UNCHANGED <<cooling, Database, cache>>

(* The message goes to Matrix as the mapped user, or as the bot. *)
Done(w) ==
  /\ At(w, "done")
  /\ work' = [work EXCEPT ![w] = None]
  /\ UNCHANGED <<cooling, Database, cache, faults>>

-----------------------------------------------------------------------------
(* should_refresh says so again: the interval is over.  Retention in the    *)
(* maintenance loop is longer than the interval and changes nothing here.   *)
CoolDown(i) ==
  /\ i \in cooling
  /\ cooling' = cooling \ {i}
  /\ UNCHANGED <<Database, cache, work, faults>>

(* Something takes mappings away from the syncs of these users. *)
Hurt(users) ==
  work' = [w \in Workers |-> IF work[w] # None /\ User(w) \in users
                             THEN [work[w] EXCEPT !.hurt = TRUE] ELSE work[w]]

(* The store's LRU cache drops an entry, maybe the last trace of a row. *)
Evict(u) ==
  /\ cache[u] # None
  /\ cache' = [cache EXCEPT ![u] = None]
  /\ Hurt({u})
  /\ UNCHANGED <<cooling, Database, faults>>

(* cleanup_stale_user_mappings: one statement deletes the rows that have    *)
(* not changed for the TTL of mappings, however busy their users are, and   *)
(* leaves the cache alone.  Which rows these are is open.                   *)
Cleanup ==
  /\ \E stale \in SUBSET table: /\ stale # {}
                              /\ table' = table \ stale
                              /\ Hurt({r.user: r \in stale})
  /\ Fault
  /\ UNCHANGED <<cooling, nextId, cache>>

(* The process stops and starts: only the database is left. *)
Restart ==
  /\ Fault
  /\ cooling' = {} /\ cache' = Empty(Ids \cup Users)
  /\ work' = Empty(Workers)
  /\ UNCHANGED Database

-----------------------------------------------------------------------------
Step(w) ==
  \/ LookupHit(w) \/ LookupQuery(w)
  \/ GetUser(w) \/ Save(w) \/ Create(w) \/ Done(w)

Next ==
  \/ \E w \in Workers: Step(w) \/ Fails(w) \/ \E i \in Ids: Start(w, i)
  \/ \E i \in Ids: CoolDown(i)
  \/ \E u \in Users: Evict(u)
  \/ Cleanup \/ Restart

Spec == Init /\ [][Next]_vars

-----------------------------------------------------------------------------
(* A message is sent as the bot or as its sender's own Matrix user, even    *)
(* when the mapping comes from a cache and the row was deleted, made anew   *)
(* or changed meanwhile (handle_feishu_message, get_user_by_feishu_id).     *)
SentAsSender ==
  \A w \in Workers: At(w, "done") /\ work[w].row # None => work[w].row.user = User(w)

(* A row stays its user's: a mapping kept in the cache after its row was    *)
(* cleaned up is never written over the row of another (update_user_mapping *)
(* by id).                                                                  *)
RowStaysOwn ==
  [][\A r \in table: \A s \in table': r.id = s.id => r.user = s.user]_vars

Entry(r) == [id |-> r.id, user |-> r.user]

D == INSTANCE Directory WITH
       Askers <- Workers,
       entries <- {Entry(r): r \in table},
       fresh <- nextId,
       replies <- [w \in Workers |->
                     IF At(w, "done")
                     THEN [for |-> User(w),
                           entry |-> IF work[w].row = None THEN None ELSE Entry(work[w].row)]
                     ELSE None]

(* The table, its stale cache and the syncs beside each other make up a     *)
(* directory: one entry per user, ids that stay their users', and answers   *)
(* that were the sender's own and are nobody else's since                   *)
(* (sync_feishu_user_mapping, user_mappings).                               *)
DirectorySpec == D!Spec

(* A message goes out as the bot only if its own sync met a failure, lost   *)
(* its user's mapping to a cleanup or the cache, or lost a race to make the *)
(* row: neither an alias nor a slot spent on a refresh that failed keeps a  *)
(* user from being mapped (sync_feishu_user_mapping goes on without one).   *)
BotOnlyWhenHurt ==
  \A w \in Workers: At(w, "done") /\ work[w].row = None => work[w].hurt
=============================================================================
