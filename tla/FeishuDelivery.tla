--------------------------- MODULE FeishuDelivery ---------------------------
(***************************************************************************)
(* From a Feishu event to Matrix: dispatch_event_payload acknowledges an   *)
(* event it has not seen processed and queues a task, tasks of one chat    *)
(* run under that chat's lock, a task that fails leaves a dead letter, and *)
(* operators replay dead letters, without the lock, and clean them up.     *)
(* Feishu may deliver an event again at any time, requests to Matrix may   *)
(* fail or be answered too late, statements may fail, and the process may  *)
(* stop at any step; what survives is in the database and in the room.     *)
(*                                                                         *)
(* Events are about a message, or about the chat: members that joined or   *)
(* left, a change of its profile, its end.  What the handlers of the last  *)
(* two do to room mappings is in RoomStore.                                *)
(***************************************************************************)
EXTENDS Naturals, FiniteSets

CONSTANTS Events,      \* events Feishu sends
          Recalls,     \* those that are im.message.recalled_v1
          Legacy,      \* receive events of the type "message"
          Notices,     \* events about the chat
          Identified,  \* events that carry an event id
          SubjectOf,   \* event -> its type with the message or chat it is about
          Messages,    \* Feishu messages
          Text,        \* messages that have text, and not attachments only
          Chats,
          MessageOf,   \* event about a message -> the message
          ChatOf,      \* event -> chat
          Slots,       \* tasks that may be queued or running at the same time
          Replayers,   \* operators replaying dead letters
          MaxDeliveries, \* bound: deliveries of one event
          MaxPosts,      \* bound: posts of one message
          None

ASSUME ConstantsAssumption ==
  /\ Notices \subseteq Events /\ Recalls \subseteq Events \ Notices
  /\ Legacy \subseteq Events \ (Recalls \cup Notices) /\ Identified \subseteq Events
  /\ DOMAIN SubjectOf = Events /\ \A e, f \in Events: SubjectOf[e] # f
  /\ Text \subseteq Messages
  /\ MessageOf \in [Events \ Notices -> Messages] /\ ChatOf \in [Events -> Chats]
  /\ \A e, f \in Events \ Notices: MessageOf[e] = MessageOf[f] => ChatOf[e] = ChatOf[f]
  /\ \A e, f \in Events: SubjectOf[e] = SubjectOf[f] =>
       /\ e \in Notices <=> f \in Notices
       /\ e \in Recalls <=> f \in Recalls
       /\ e \notin Notices => MessageOf[e] = MessageOf[f]
  /\ Slots \cap Replayers = {} /\ None \notin Slots \cup Chats
  /\ MaxDeliveries \in Nat /\ MaxPosts \in Nat

VARIABLES delivered,  \* deliveries of each event so far
          work,       \* what each task and each replay is doing
          lock,       \* chat_queues: the task that holds the chat's lock
          processed,  \* processed_events
          mapping,    \* message_mappings: the post a message is mapped to, 0 if none
          letter,     \* dead_letters: the row by its dedupe_key, None if there is none
          doomed,     \* the rows that a cleanup has selected and not yet deleted
          posts,      \* Matrix: how often a message was posted
          redacted,   \* Matrix: the posts <<message, number>> that were redacted
          recalled,   \* history: messages whose mapping a recall removed
          excused,    \* history: messages that met a fault, or an overlapping replay
          closed      \* history: events that were handled without an error, or met a loss

vars == <<delivered, work, lock, processed, mapping, letter, doomed,
          posts, redacted, recalled, excused, closed>>

Workers == Slots \cup Replayers

Steps == {"queued", "start", "post", "record", "redact", "unmap", "succeeded", "failed"}

Key_NoId(e) == SubjectOf[e]  \* mutant: the event id is left out

(* dedupe_key: the event's type with its id; without an id, the message or *)
(* the chat stands in, and events of one type about it share the key.      *)
Key(e) == IF e \in Identified THEN e ELSE SubjectOf[e]

Keys == {Key(e): e \in Events}

(* A row holds the payload of the last event that failed under its key.    *)
Row == [event: Events, status: {"pending", "failed", "replayed"}]

(* "post" is the number of the post a step is about, 0 if there is none;   *)
(* "row" is whether the dead letter a replay was begun for still exists.   *)
Work == [event: Events, pc: Steps, post: 0..MaxPosts, row: BOOLEAN]

ASSUME NoneAssumption == None \notin Work /\ None \notin Row

(* Every variable holds a value of its kind. *)
TypeOK ==
  /\ delivered \in [Events -> 0..MaxDeliveries]
  /\ work \in [Workers -> Work \cup {None}]
  /\ lock \in [Chats -> Slots \cup {None}]
  /\ processed \subseteq Events
  /\ mapping \in [Messages -> 0..MaxPosts]
  /\ letter \in [Keys -> Row \cup {None}]
  /\ doomed \subseteq Keys
  /\ posts \in [Messages -> 0..MaxPosts]
  /\ redacted \subseteq Messages \X (1..MaxPosts)
  /\ recalled \subseteq Messages /\ excused \subseteq Messages
  /\ closed \subseteq Events

Init ==
  /\ delivered = [e \in Events |-> 0]
  /\ work = [w \in Workers |-> None]
  /\ lock = [c \in Chats |-> None]
  /\ processed = {}
  /\ mapping = [m \in Messages |-> 0]
  /\ letter = [k \in Keys |-> None] /\ doomed = {}
  /\ posts = [m \in Messages |-> 0]
  /\ redacted = {} /\ recalled = {} /\ excused = {} /\ closed = {}

-----------------------------------------------------------------------------
At(w, pc) == work[w] # None /\ work[w].pc = pc

Event(w) == work[w].event

(* The message an event is about, as a set. *)
About(e) == IF e \in Notices THEN {} ELSE {MessageOf[e]}

Message(w) == MessageOf[work[w].event]

Chat(w) == ChatOf[work[w].event]

(* The message of "e", if one of the workers "ws" is at it. *)
Overlapping(ws, e) ==
  {m \in About(e): \E w \in ws: work[w] # None /\ ~ At(w, "queued") /\ m \in About(Event(w))}

Goto(w, pc, n) == work' = [work EXCEPT ![w].pc = pc, ![w].post = n]

History == <<recalled, excused, closed>>
Matrix  == <<posts, redacted>>
Letters == <<letter, doomed>>
Tables  == <<processed, mapping, Letters>>

Dispatch_MarksFirst(s, e) ==  \* mutant: marked processed when it is accepted
  /\ work[s] = None
  /\ delivered[e] < MaxDeliveries
  /\ delivered' = [delivered EXCEPT ![e] = @ + 1]
  /\ work' = IF e \in processed THEN work
             ELSE [work EXCEPT ![s] = [event |-> e, pc |-> "queued", post |-> 0, row |-> FALSE]]
  /\ processed' = processed \cup {e}
  /\ UNCHANGED <<lock, mapping, Letters, Matrix, History>>

(* dispatch_event_payload: is_feishu_event_processed, then queue_chat_task. *)
Dispatch(s, e) ==
  /\ work[s] = None
  /\ delivered[e] < MaxDeliveries
  /\ delivered' = [delivered EXCEPT ![e] = @ + 1]
  /\ work' = IF e \in processed THEN work
             ELSE [work EXCEPT ![s] = [event |-> e, pc |-> "queued", post |-> 0, row |-> FALSE]]
  /\ UNCHANGED <<lock, Tables, Matrix, History>>

Acquire_NoLock(s) ==  \* mutant: tasks of a chat are not serialised
  /\ At(s, "queued")
  /\ Goto(s, "start", 0)
  /\ excused' = excused \cup Overlapping(Replayers, Event(s))
  /\ UNCHANGED <<delivered, lock, Tables, Matrix, recalled, closed>>

(* The spawned task gets the chat's lock.  Which of the waiting tasks gets *)
(* it is open: they reach the mutex in the order the runtime runs them.    *)
Acquire(s) ==
  /\ At(s, "queued")
  /\ lock[Chat(s)] = None
  /\ lock' = [lock EXCEPT ![Chat(s)] = s]
  /\ Goto(s, "start", 0)
  /\ excused' = excused \cup Overlapping(Replayers, Event(s))
  /\ UNCHANGED <<delivered, Tables, Matrix, recalled, closed>>

StartReplay_Claims(r, k) ==  \* mutant: a status the rest of the code does not know
  /\ work[r] = None
  /\ letter[k] # None /\ letter[k].status # "replayed"
  /\ letter' = [letter EXCEPT ![k].status = "replaying"]
  /\ work' = [work EXCEPT ![r] = [event |-> letter[k].event, pc |-> "start", post |-> 0, row |-> TRUE]]
  /\ UNCHANGED <<delivered, lock, processed, mapping, doomed, Matrix, History>>

(* replay_dead_letter takes no lock, skips a row that is replayed already, *)
(* and has no handler for the type "message" that dispatch_event_payload   *)
(* accepts.                                                                *)
StartReplay(r, k) ==
  /\ work[r] = None
  /\ letter[k] # None /\ letter[k].status # "replayed"
  /\ LET e == letter[k].event IN
       /\ work' = [work EXCEPT ![r] = [event |-> e, pc |-> IF e \in Legacy THEN "failed" ELSE "start",
                                       post |-> 0, row |-> TRUE]]
       /\ excused' = excused \cup Overlapping(Workers, e)
  /\ UNCHANGED <<delivered, lock, Tables, Matrix, recalled, closed>>

-----------------------------------------------------------------------------
(* handle_feishu_message: a message that is mapped was bridged already.    *)
FindBridged(w) ==
  /\ At(w, "start") /\ Event(w) \notin Recalls \cup Notices
  /\ Goto(w, IF mapping[Message(w)] # 0 THEN "succeeded" ELSE "post", 0)
  /\ UNCHANGED <<delivered, lock, Tables, Matrix, History>>

Post(w) ==
  /\ At(w, "post")
  /\ posts[Message(w)] < MaxPosts
  /\ posts' = [posts EXCEPT ![Message(w)] = @ + 1]
  /\ Goto(w, "record", posts[Message(w)] + 1)
  /\ UNCHANGED <<delivered, lock, Tables, redacted, History>>

(* The text reaches the room but the answer does not reach the bridge. *)
PostUnconfirmed(w) ==
  /\ At(w, "post") /\ Message(w) \in Text
  /\ posts[Message(w)] < MaxPosts
  /\ posts' = [posts EXCEPT ![Message(w)] = @ + 1]
  /\ Goto(w, "failed", 0)
  /\ excused' = excused \cup {Message(w)}
  /\ UNCHANGED <<delivered, lock, Tables, redacted, recalled, closed>>

(* Attachments that cannot be forwarded are skipped; if nothing is left of *)
(* the message, the event still counts as handled.                         *)
NothingForwarded(w) ==
  /\ At(w, "post") /\ Message(w) \notin Text
  /\ Goto(w, "succeeded", 0)
  /\ UNCHANGED <<delivered, lock, Tables, Matrix, History>>

(* create_message_mapping: feishu_message_id is UNIQUE, and a failure is   *)
(* only logged.                                                            *)
Record(w) ==
  /\ At(w, "record")
  /\ mapping[Message(w)] = 0
  /\ mapping' = [mapping EXCEPT ![Message(w)] = work[w].post]
  /\ Goto(w, "succeeded", 0)
  /\ UNCHANGED <<delivered, lock, processed, Letters, Matrix, History>>

RecordFails(w) ==
  /\ At(w, "record")
  /\ Goto(w, "succeeded", 0)
  /\ excused' = excused \cup {Message(w)}
  /\ UNCHANGED <<delivered, lock, Tables, Matrix, recalled, closed>>

(* A query, the registration of the sender or the request to Matrix fails. *)
HandlerFails(w) ==
  /\ At(w, "start") \/ At(w, "post")
  /\ Goto(w, "failed", 0)
  /\ UNCHANGED <<delivered, lock, Tables, Matrix, History>>

-----------------------------------------------------------------------------
(* handle_feishu_message_recalled *)
FindRecalled(w) ==
  /\ At(w, "start") /\ Event(w) \in Recalls
  /\ IF mapping[Message(w)] = 0 THEN Goto(w, "succeeded", 0)
     ELSE Goto(w, "redact", mapping[Message(w)])
  /\ UNCHANGED <<delivered, lock, Tables, Matrix, History>>

Redact_Forgotten(w) ==  \* mutant: only the mapping is removed
  /\ At(w, "redact")
  /\ Goto(w, "unmap", work[w].post)
  /\ UNCHANGED <<delivered, lock, Tables, Matrix, History>>

Redact(w) ==
  /\ At(w, "redact")
  /\ redacted' = redacted \cup {<<Message(w), work[w].post>>}
  /\ Goto(w, "unmap", work[w].post)
  /\ UNCHANGED <<delivered, lock, Tables, posts, History>>

RedactFails(w) ==
  /\ At(w, "redact")
  /\ Goto(w, "unmap", work[w].post)
  /\ excused' = excused \cup {Message(w)}
  /\ UNCHANGED <<delivered, lock, Tables, Matrix, recalled, closed>>

(* The mapping is deleted by its id. *)
Unmap(w) ==
  /\ At(w, "unmap")
  /\ mapping' = [mapping EXCEPT ![Message(w)] = IF @ = work[w].post THEN 0 ELSE @]
  /\ recalled' = recalled \cup {Message(w)}
  /\ Goto(w, "succeeded", 0)
  /\ UNCHANGED <<delivered, lock, processed, Letters, Matrix, excused, closed>>

UnmapFails(w) ==
  /\ At(w, "unmap")
  /\ Goto(w, "succeeded", 0)
  /\ UNCHANGED <<delivered, lock, Tables, Matrix, History>>

(* The handlers of events about the chat: without a mapping of the room    *)
(* they are done, and a sync or a notice that fails is only logged.        *)
HandleNotice(w) ==
  /\ At(w, "start") /\ Event(w) \in Notices
  /\ Goto(w, "succeeded", 0)
  /\ UNCHANGED <<delivered, lock, Tables, Matrix, History>>

-----------------------------------------------------------------------------
Release_KeepsLock(s) ==  \* mutant: the lock is not released
  /\ work' = [work EXCEPT ![s] = None]
  /\ UNCHANGED lock

(* The end of a queued task, which drops the lock. *)
Release(s) ==
  /\ work' = [work EXCEPT ![s] = None]
  /\ lock' = [lock EXCEPT ![Chat(s)] = None]

(* mark_feishu_event_processed; without an event id there is nothing to mark. *)
Mark(s) ==
  /\ At(s, "succeeded")
  /\ processed' = IF Event(s) \in Identified THEN processed \cup {Event(s)} ELSE processed
  /\ closed' = closed \cup {Event(s)}
  /\ Release(s)
  /\ UNCHANGED <<delivered, mapping, Letters, Matrix, recalled, excused>>

Bury_Forgotten(s) ==  \* mutant: the failure is only logged
  /\ At(s, "failed")
  /\ Release(s)
  /\ UNCHANGED <<delivered, Tables, Matrix, History>>

(* create_dead_letter: a new row, or the row of the key with its payload   *)
(* replaced and made pending again.                                        *)
Recorded(e) == [letter EXCEPT ![Key(e)] = [event |-> e, status |-> "pending"]]

(* record_dead_letter *)
Bury(s) ==
  /\ At(s, "failed")
  /\ letter' = Recorded(Event(s))
  /\ Release(s)
  /\ UNCHANGED <<delivered, processed, mapping, doomed, Matrix, History>>

(* Either statement fails; the failure is only logged. *)
SettleFails(s) ==
  /\ At(s, "succeeded") \/ At(s, "failed")
  /\ Release(s)
  /\ closed' = closed \cup {Event(s)}
  /\ UNCHANGED <<delivered, Tables, Matrix, recalled, excused>>

Closed(r) == closed' = IF At(r, "succeeded") THEN closed \cup {Event(r)} ELSE closed

Outcome(r) == IF At(r, "succeeded") THEN "replayed" ELSE "failed"

(* mark_dead_letter_replayed, mark_dead_letter_failed, by the row's id: no *)
(* effect if the row was cleaned up meanwhile, even if another took its    *)
(* place; if its payload was replaced meanwhile, the status is the new     *)
(* payload's.                                                              *)
ReplayEnds(r) ==
  /\ At(r, "succeeded") \/ At(r, "failed")
  /\ letter' = IF work[r].row THEN [letter EXCEPT ![Key(Event(r))].status = Outcome(r)] ELSE letter
  /\ Closed(r)
  /\ work' = [work EXCEPT ![r] = None]
  /\ UNCHANGED <<delivered, lock, processed, mapping, doomed, Matrix, recalled, excused>>

ReplayEndFails(r) ==
  /\ At(r, "succeeded") \/ At(r, "failed")
  /\ Closed(r)
  /\ work' = [work EXCEPT ![r] = None]
  /\ UNCHANGED <<delivered, lock, Tables, Matrix, recalled, excused>>

(* cleanup_dead_letters, asked for by an operator: one statement selects   *)
(* rows by status, age and limit, another deletes them by id, whatever     *)
(* became of them in between.                                              *)
SelectRow(k) ==
  /\ letter[k] # None /\ k \notin doomed
  /\ doomed' = doomed \cup {k}
  /\ closed' = IF letter[k].status = "replayed" THEN closed ELSE closed \cup {letter[k].event}
  /\ UNCHANGED <<delivered, work, lock, processed, mapping, letter, Matrix, recalled, excused>>

DeleteRows ==
  /\ doomed # {}
  /\ letter' = [k \in Keys |-> IF k \in doomed THEN None ELSE letter[k]]
  /\ doomed' = {}
  /\ work' = [w \in Workers |-> IF work[w] # None /\ Key(Event(w)) \in doomed
                               THEN [work[w] EXCEPT !.row = FALSE] ELSE work[w]]
  /\ UNCHANGED <<delivered, lock, processed, mapping, Matrix, History>>

(* The process stops and starts again: queued tasks, already acknowledged  *)
(* to Feishu, are gone.                                                    *)
Crash ==
  /\ work' = [w \in Workers |-> None]
  /\ lock' = [c \in Chats |-> None]
  /\ excused' = excused \cup {m \in Messages: \E w \in Workers:
                                At(w, "record") /\ Message(w) = m}
  /\ doomed' = {}
  /\ closed' = closed \cup {e \in Events: \E s \in Slots: work[s] # None /\ Event(s) = e}
  /\ UNCHANGED <<delivered, processed, mapping, letter, Matrix, recalled>>

-----------------------------------------------------------------------------
Handle(w) ==
  \/ FindBridged(w) \/ Post(w) \/ PostUnconfirmed(w) \/ NothingForwarded(w)
  \/ Record(w) \/ RecordFails(w) \/ HandlerFails(w)
  \/ FindRecalled(w) \/ Redact(w) \/ RedactFails(w) \/ Unmap(w) \/ UnmapFails(w)
  \/ HandleNotice(w)

Settle(s) == Mark(s) \/ Bury(s) \/ SettleFails(s)

EndReplay(r) == ReplayEnds(r) \/ ReplayEndFails(r)

(* An operator replays letters, one after the other. *)
Replay(r) == (\E k \in Keys: StartReplay(r, k)) \/ EndReplay(r)

Cleanup == (\E k \in Keys: SelectRow(k)) \/ DeleteRows

Next ==
  \/ \E s \in Slots, e \in Events: Dispatch(s, e)
  \/ \E s \in Slots: Acquire(s) \/ Settle(s)
  \/ \E r \in Replayers: Replay(r)
  \/ \E w \in Workers: Handle(w)
  \/ Cleanup
  \/ Crash

Spec == Init /\ [][Next]_vars

(* The runtime keeps polling every task, and its mutex is first come, first *)
(* served.  Nobody has to deliver, to replay or to clean up, and a replay  *)
(* may take for ever.                                                      *)
FairSpec ==
  /\ Spec
  /\ \A s \in Slots: SF_vars(Acquire(s)) /\ WF_vars(Handle(s)) /\ WF_vars(Settle(s))

-----------------------------------------------------------------------------
(* However often an event is delivered, and although the check for a       *)
(* bridged message and the post are far apart, a message is posted once -- *)
(* unless a recall removed its mapping, a request or a statement failed    *)
(* after the post, or a replay ran beside another handler of the message.  *)
PostedOnce == \A m \in Messages \ (excused \cup recalled): posts[m] <= 1

(* Even when a recall slips in between two deliveries of the message, the  *)
(* room never shows it twice.                                              *)
ShownOnce ==
  \A m \in Messages \ excused:
    Cardinality({n \in 1..posts[m]: <<m, n>> \notin redacted}) <= 1

P == INSTANCE PostOffice WITH hidden <- redacted

(* Repeated, replayed and interrupted as they are, the handlers of a        *)
(* message post it only while the room shows nothing of it, and finish a    *)
(* recall only then; every other step leaves the room alone.                *)
OfficeSpec == P!Spec

Q == INSTANCE ChatQueue WITH
       Tasks <- Slots,
       waiting <- [s \in Slots |-> IF At(s, "queued") THEN Chat(s) ELSE None],
       turn <- lock

(* Whatever becomes of a task -- its handler, its mark, its dead letter may *)
(* fail -- it has the chat to itself from its turn to its end, and the lock *)
(* is never left to a task that is gone (queue_chat_task).                  *)
QueueSpec == Q!Spec

Unattended(e) == \A s \in Slots: work[s] # None => Event(s) # e

(* Events without an id that are of one type and about one chat or message. *)
Twins(e) ==
  IF e \in Identified THEN {} ELSE {f \in Events \ Identified: f # e /\ SubjectOf[f] = SubjectOf[e]}

(* An acknowledged event whose handler never came to a good end can still  *)
(* be replayed: no other event takes its row, no replay of something else  *)
(* settles it, and a cleanup of replayed letters does not remove it.  An   *)
(* event without an id has that much only as long as no other of its type  *)
(* about the same chat fails.                                              *)
StillReplayable ==
  \A e \in Events \ closed:
    delivered[e] > 0 /\ Unattended(e) /\ (\A f \in Twins(e): delivered[f] = 0)
      => letter[Key(e)] # None /\ letter[Key(e)].event = e /\ letter[Key(e)].status # "replayed"

(* Neither a processed mark nor a replayed letter stands for a text that    *)
(* never reached the room.                                                  *)
SettledWasPosted ==
  \A e \in Events \ (Recalls \cup Notices):
    /\ MessageOf[e] \in Text
    /\ e \in processed \/ [event |-> e, status |-> "replayed"] \in {letter[k]: k \in Keys}
    => posts[MessageOf[e]] > 0

(* Every acknowledged event gets its turn: the chat's lock is released on   *)
(* every way out of a task.                                                 *)
QueuedIsRun == \A s \in Slots: At(s, "queued") ~> work[s] = None
=============================================================================
