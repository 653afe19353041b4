# A TLA+ model of matrix-bridge-feishu

matrix-bridge-feishu connects Matrix rooms with Feishu (Lark) group chats. It is a Matrix application
service: the homeserver pushes it the events of bridged rooms, and it sends them on through Feishu's API;
Feishu pushes events over a websocket ("long connection") or a webhook, and the bridge posts them to Matrix
as ghost users. Its state is an SQLite database, a few caches in memory, and the tasks in flight.

This directory holds TLA+ modules for the parts where order, failure and concurrency decide whether the
bridge is right, the TLC runs that check them on small instances, and proofs checked by TLAPS.
`PROJECT.json` lists components, runs, the code lines behind every definition (`map`), mutants, findings,
hazards and theorems. Paths below are relative to the repository; `src/src/` is its Rust source.

## 1. The system

| Component (source) | State | Operations | What makes it correct |
|---|---|---|---|
| Room mappings (`database/sqlite_stores.rs`) | table `room_mappings` (UNIQUE room, UNIQUE chat, AUTOINCREMENT id), LRU `room_cache` | cached lookup by room or chat, create, update, delete | one-to-one; a stale cached mapping never acts on another room's row; a mapping is not missed |
| Bridge commands (`bridge/event_processor.rs`, `bridge/command_handler.rs`) | – | `!feishu bridge`, `!feishu unbridge` | what is removed is gone; concurrent requests cannot link twice |
| Chat lifecycle (`bridge/feishu_bridge.rs`) | portals in memory | chat updated, disbanded, members added or deleted | an update patches only what the event says; a disband removes only its own chat |
| Feishu event intake (`feishu/service.rs`) | `chat_queues`: a mutex per chat; `processed_events` | dispatch, queue, run, mark | acknowledged events are run, posted once, or end as a dead letter |
| Message mappings (`database/sqlite_stores.rs`) | table `message_mappings` | create, look up, delete | a message and its counterpart find each other for replies, edits, recalls |
| Dead letters (`bridge/feishu_bridge.rs`, `web/provisioning.rs`) | table `dead_letters` | record, replay, mark, clean up | failures can be found and replayed without doing things twice |
| Matrix transactions (`bridge/feishu_bridge.rs`, `bridge/event_processor.rs`) | `processed_events`, rate limiter | on_transaction, message, redaction, edit, command | every transaction is answered; texts once and in order |
| Delivery to Feishu (`bridge/matrix_to_feishu_dispatcher.rs`) | `media_cache` | send, reply, edit, attachments | repeated sends are recognised by their uuid |
| User sync (`bridge/feishu_bridge.rs`) | `user_mappings`, LRU `user_cache`, time of last sync | sync on use, maintenance loop | one mapping per user; only stale ones are removed |
| Metadata caches (`feishu/service.rs`) | TTL caches of users and chats | get, invalidate | an invalidated entry does not come back |
| Long connection (`feishu/service.rs`) | fragments of payloads, ping timer | session, reassembly, reconnect | whole payloads, each acknowledged only after dispatch |
| Provisioning (`bridge/provisioning.rs`, `web/provisioning.rs`) | pending requests | request, approve, time out, list, delete | an answer that was applied is the answer the requester gets |
| Webhook, Feishu client, formatting, presence, configuration, metrics | – | – | not modelled, see section 7 |

How they interact: `on_transaction` calls `process_event`, which reads `room_mappings` and `user_mappings`,
sends through the dispatcher and writes `message_mappings` and `processed_events`. `dispatch_event_payload`
reads `processed_events` and spawns a task under the chat's mutex, which calls a `handle_feishu_*` method;
these read the same tables and post to Matrix. The provisioning API deletes room mappings and replays dead
letters, and takes no mutex. All of it runs as tasks of one runtime that interleave at every `await`.

Hard behaviour: a cache that no writer invalidates; check and act separated by network requests; tasks that
were acknowledged and exist only in memory; deliveries and pushes that are repeated, also while the first
is still being handled; requests that succeed without the answer arriving; any step failing on its own.
The hazards in `PROJECT.json` name each at its line.

## 2. Modules

    RoomLinks            abstract: a one-to-one relation of rooms and chats
    RoomStore            room_mappings, room_cache and the handlers that use them; implements RoomLinks
    RoomStoreProofs      proofs about RoomStore
    PostOffice           abstract: messages posted, hidden and recalled in a Matrix room
    ChatQueue            abstract: tasks that have their turn at a chat, one at a time
    FeishuDelivery       Feishu event -> queue -> handler -> Matrix, dead letters, replay, cleanup; implements
                         PostOffice and ChatQueue
    FeishuDeliveryProofs proofs about FeishuDelivery
    RoomFeed             abstract: what a Feishu chat gets to see of its Matrix room, and in which order
    MatrixDelivery       Matrix transaction -> process_event -> Feishu; implements RoomFeed
    MatrixDeliveryProofs proofs about MatrixDelivery
    RateLimiter          RoomRateLimiter::allow for one room
    MatrixPolicy         MatrixDelivery composed with RateLimiter; implements both
    MatrixPolicyProofs   proofs about RateLimiter and MatrixPolicy
    Mailbox              abstract: whole copies handled one at a time, acknowledged when accepted
    LongConnection       Feishu's websocket -> fragments -> whole payload -> dispatch -> acknowledgement;
                         implements Mailbox
    LongConnectionProofs proofs about LongConnection
    Directory            abstract: entries of users, with ids that never come back
    UserSync             user_mappings, user_cache, the sync slot and the sender a message gets; implements
                         Directory
    UserSyncProofs       proofs about UserSync
    FeishuApi            the mutex of the Feishu client, its token and retries, the metadata cache
    FeishuApiProofs      proofs about FeishuApi
    ApprovalDesk         abstract: requests, decisions and answers, each in one step
    Provisioning         the coordinator of bridge requests; implements ApprovalDesk
    ProvisioningProofs   proofs about Provisioning
    MC*                  the instances TLC checks

### The abstract specifications

Seven short modules say what the components promise, with no caches, locks, retries or fragments in them. The
detailed module states that it implements the abstract one (`LinksSpec`, `OfficeSpec`, `QueueSpec`, `FeedSpec`,
`MailboxSpec`, `DirectorySpec`, `DeskSpec`); a run checks it as a PROPERTY on a small instance and a
theorem proves it for all (section 5).

| Abstract | Its state, in the detailed module | What becomes one step, or none |
|---|---|---|
| `RoomLinks` | the rows of `room_mappings` | a lookup, a cache access and an insert are three steps of one `Connect`; evictions and restarts none |
| `PostOffice` | posts, redactions, finished recalls, excused messages | deliveries, replays, letters and cleanups are not seen; a handler that posts does so only while nothing shows |
| `ChatQueue` | who waits (the slots at `queued`), who holds the lock | every way out of a handler is an `End`; a replay does not take part |
| `RoomFeed` | `chat`, `removed`, `edits`, `processed`, `unsent`, `next` | mappings, uuids and the places of handlers are gone: what may be posted is said by what was |
| `Mailbox` | `current`, and the answer to it as a verdict | fragments, expiries, connects; a broken session is `Abandon` |
| `Directory` | the rows as pairs of id and user, the next id, the mapping a worker's sync ended with | lookups in the cache, profiles, saves; a cleanup is `Drop` |
| `ApprovalDesk` | the map of requests, the answers, the clocks | reading a status and removing the request are two locks in the code and one `Take` here |

### RoomStore

One action per step between two awaits. A handler (`task`) begins with the key it looks up, goes through
`CacheLookup`, `TableRead` and `CachePut` (the two halves of `get_room_by_matrix_id` /
`get_room_by_feishu_id`), and then does what its kind does with the mapping it holds: `handle_command` goes
on to a second lookup (`CommandAccepted`), `handle_bridge_request` inserts (`CreateRoomMapping`,
`CreateConflict`), the removals delete by id (`DeleteRoomMapping`), `handle_feishu_chat_updated` compares
with the mapping in hand and writes it whole (`CompareChat`, `UpdateRoomMapping`), and forwarding only
reads. `DatabaseError` ends a handler at any query or statement, `Evict` is the LRU, `Restart` loses cache
and handlers. The timestamps of a mapping are left out. No chat lock is assumed, since commands, the
provisioning API and replays take none.

`ever` (every mapping that was inserted) and `live` (the mappings of its room or chat that existed when a
handler began) are history variables: no guard reads them.

### FeishuDelivery

`Dispatch` acknowledges an event unless it is in `processed` and puts a task in a slot; `Acquire` is the
task getting `chat_queues[chat]`, in any order; then the handler's steps, up to `Mark` or `Bury`, which
release the lock. `HandleNotice` is the handler of an event about the chat (members joined or left, its
profile, its end): whatever fails in it is only logged. A message counts as one post whatever its text and
attachments; a message with attachments only may end up posting nothing (`NothingForwarded`).
`PostUnconfirmed` is the request whose answer is lost. Every statement has a failing variant, because each
failure has its own consequence.

`Key` is `dedupe_key`: the event's type and id, or, without an id, its type with the message or chat it is
about, so that events about one chat share a row and the last failure's payload stays in it. `StartReplay`
begins the same handler steps without the chat's lock (a letter of the old type `message` fails at once, since the
replay has no handler for it); `ReplayEnds` writes the status by the row's id, if that row is still there.
The cleanup is two statements, `SelectRow` for each row it picks and `DeleteRows`, between which a row may
become pending again with another payload.

`recalled`, `excused` and `closed` are history variables, so that the invariants can say what holds for the
messages and events that met no fault. `excused` is given only where the code truly lets the message down: an
unconfirmed post, a mapping that could not be stored (or a crash before it), a redaction that failed, and a
replay that overlaps another handler of the message. `closed` are the events that were handled without an error,
were lost in a crash or by a failing statement, or whose letter a cleanup took while it was not yet replayed.

### MatrixDelivery, RateLimiter, MatrixPolicy

A handler of `MatrixDelivery` is a transaction in progress at `pos`; two handlers may hold the same
transaction, since the homeserver pushes it again when an answer is late. The steps follow `process_event`
and `handle_message_event`: `Check` (with the slice `&body[..50]` of a log line, which panics inside a
character, `Splits`), the policies (`Dropped`, `Allowed`), `Dedupe`, the text (`SendText`, `TextFails`,
`TextUnconfirmed`), the attachment (`SendAttachment`, `AttachmentFails`), `Record`, `Mark`. Feishu is a
sequence of accepted messages; a text whose uuid it knows is answered with the message it became. An edit
(`DedupeEdit`, `NothingToEdit`, `UpdateMessage`, `UpdateUnconfirmed`) updates the message its target is
mapped to and has no uuid, so that Feishu applies it as often as it is asked. A redaction recalls the
mapped message and then deletes the mapping.

The content hash covers the event id, the text and the sender's name; the name is constant, because ghosts,
the only users with a mapping, are filtered out when `sender_localpart` is set. So the hash is determined by
the event, and `Dedupe` asks whether the event has a mapping.

`RateLimiter` keeps the log of all instants at which events were let through, `admitted`; the code's queue is
what is left of it from `head` on, which lets the properties speak of events the queue has forgotten.
`MatrixPolicy` says which of the dropped events ask it: those of the bridge itself, commands and blocked types
do not (`Screened`), those without a room mapping have asked it before they are dropped (`Unroutable`), and an
event that is pushed again asks again. It covers one run of the process, as a restart only empties the queue.

### LongConnection

Feishu's gateway is the environment: it cuts a message into fragments (`Push`), sends them in any order, mixed
with those of other messages (`Send`), and pushes a message again, cut anew, until it was answered with 200; a
new push of a message begins when its last one has been sent. The service is one loop, so that while a payload
is `current` nothing is read: `ReceiveFragment` is `handle_long_connection_data_frame` up to the end of
`LongConnectionPayloadReassembler::push` (drop what expired, start an entry anew if it was cut differently, put
the part in its place, take the whole out), `ReceiveWhole` the path around it, `Dispatch` and `DispatchFails`
the call of `dispatch_event_payload` with its answer, `Answer` and `AnswerFails` the frame sent back. `Break` is
any failure at the `select!`, `Restart` the end of the process at any point. `Expire` is time passing beyond the
ttl. `Refused` is a fatal error, after which `session` stays `"halted"`. The module stops where
`FeishuDelivery!Dispatch` starts.

Fragments are well formed: they have a `message_id`, and `seq` is below `sum` (the code hands a fragment with
`seq >= sum` on as it is).

### UserSync

A worker is one handler in `sync_feishu_user_mapping` and, for messages, in the lookup of the sender after it.
`Start` reserves the slot; `LookupHit` and `LookupQuery` are `get_user_by_feishu_id`, which is called in three
places: `"direct"` (the slot is cooling, by the id of the event), `"find"` (by the canonical id of the profile)
and `"look"` (for the sender). `NextStep` says where each answer leads. `GetUser` yields any profile of the
user, since the answer may come from a cache of any age; `Save` writes the mapping in hand, `Create` inserts or
meets the UNIQUE columns. `Fails` ends the sync of a message at any of these. `Cleanup` is the maintenance loop
with any set of rows as stale, `Evict` the LRU, `CoolDown` the end of the interval. A member event, which only
syncs, is a worker whose final lookup nobody uses.

`hurt` is a history variable: it says that a worker met a failure, lost a race, or that a cleanup or an
eviction took a mapping of its user from it.

### FeishuApi

`FeishuService` holds one mutex around the client for the whole of a call, so `mutex` is a queue (tokio's mutex
is fair). A lookup of a profile is `Hit`, or `Miss`, `Lock`, `ProfileRead` and `Fill`: the entry is put in the
cache before the guard is dropped, and this order is what `AnswersForward` rests on. `Insert` is
`TtlCache::insert`, which makes room also when it is about to overwrite an entry. `Invalidate` is an event about
a member, which needs no mutex and may fall between `ProfileRead` and `Fill`. An upload asks for a token
(`HasToken`, `AskToken`, `TokenGranted`), whose age starts when Feishu grants it, not when the answer arrives.
`RequestFails`, `RequestSucceeds`, `RequestRefused` and `Retry` are the ends of a request and the retry loops of
`execute_json` and `get_message_resource`. Instants are kept as ticks left, so that `Tick` needs no clock. A
lookup begins with a floor, `Known`: the newest profile that was answered for the user, or, unless a fetch of an
older one was on its way at that time, the one whose event dropped the cached entry. `seen`, `told` and
`overtaken` are history variables.

### Provisioning

`RequestBridge` is `request_bridge`; `wait_for_approval` takes the lock anew at each read (`ReadStatus`), mark
(`MarkExpired`) and removal (`RemoveRequest`), so others may come in between; `MarkApproval` and
`CleanupExpired` are the operations of the others. A request's clock is fresh, aged (a cleanup counts it as expired)
or overdue (so does its waiter, which began later). At this commit `create_bridge` requests and does not wait,
and nothing calls `wait_for_approval`, `mark_approval` or `cleanup_expired`: the module says what the coordinator
promises to a caller that uses it as it is made to be used.

## 3. Runs

| Run | Question | Result |
|---|---|---|
| `RoomStore` | Is the table one-to-one, are stale mappings harmless, is no mapping missed? | holds, 1.4 million states |
| `UnbridgeReply` | Is a removed mapping out of use when the reply says so? | no: the cache still answers it |
| `FeishuSafety` | Is the bridge a post office, and each chat's tasks a queue? Is nothing that failed lost, nothing settled that was not posted? | holds, 670 000 states |
| `DeadLetters` | Does what failed stay replayable, with shared rows, replays and cleanups? Does every queued task get its turn? | holds, 210 000 states |
| `MatrixSafety` | Is the delivery a feed in the order of the room? Texts once, recalled for good; does one failure cost no other event? | holds, 890 000 states |
| `MatrixPolicy` | Does the window hold under repeated pushes, do edits end up as written, is every transaction answered? | holds, 440 000 states |
| `PreviewPanic` | Is every text dealt with? | no: the preview panics on every push |
| `RedactedImage` | Is everything of a redacted message gone? | no: the image stays |
| `LongConnection` | Are payloads whole, is the connection a mailbox, and is every event accepted in the end? | holds, 260 000 states |
| `UserSync` | Is a message sent as its sender, and as the bot only for a reason? Are the mappings a directory? | holds, 1.4 million states |
| `Provisioning` | Is the coordinator a desk that tells each waiter its own outcome? Is a chat freed, a decision kept? | holds, 27 000 states |
| `FeishuApi` | Do lookups go forward, do dropped profiles stay away, are tokens valid, does every call return? | holds, 170 000 states |

Bounds.

- `RoomStore`: two rooms that compete for one chat, so that every conflict on either column arises with rooms
  exchanged (symmetric); two handlers, because every property speaks of one handler and what others did
  meanwhile; two mappings ever created (`MaxId`), enough for "removed and bridged anew"; one chat update,
  which turns on thread mode. The handlers that begin later play the part of further handlers.
- `FeishuSafety`: one message with its receive and recall events, delivered twice each (`MaxDeliveries`; the
  chat's lock makes messages of other chats independent, and messages of one chat share only the lock), two
  tasks and one replay, two posts (`MaxPosts`; the second is already the violation).
- `DeadLetters`: three events of one type about one chat, one of them with an id, and one event of the old
  type, each delivered once. Two events without id are what it takes for one to overwrite the other's row,
  while it is replayed, selected by a cleanup, or both; the third shows that an id keeps the rows apart. Nothing is posted (`MaxPosts` is 0, so the attachments
  of the old event are never forwarded): posts are the matter of `FeishuSafety`.
- `MatrixSafety`: a text with attachment and a text, the redaction of one and an edit of the other, two handlers,
  three messages in the chat (`MaxSends`: both texts and one attachment, or one of them twice), two applied
  edits (`MaxEdits`), and any number of restarts.
- `MatrixPolicy`: a text and two edits of it; two events a window of one tick, three instants, so that both
  events let through early and events that expire occur; three applied edits, so that one is applied twice.
- `LongConnection`: an event that may be cut into two or three fragments (so that a second push may meet
  left-overs of another cut), an event dispatch refuses for its missing type, which is pushed for ever and
  competes for the wire, and a message that is no event; one frame on the wire, since a longer wire only
  delays what a session's end would lose; two faults, which include expiries, so that a fault can meet the
  recovery from another.
- `UserSync`: two users, one with an alias (an alias differs from a canonical id in the direct lookup only);
  two workers, which race to create and to save; two profiles, one fault: each property asks what one
  failure, cleanup or restart can do to a sync that ran into it, and stale mappings come from evictions and
  updates besides, which are not bounded.
- `Provisioning`: one chat, since chats share nothing but the map, and three callers, so that a third may find
  what two that follow each other left behind.
- `FeishuApi`: a cache of one entry for two users, so that every insertion of the other evicts; two tasks;
  one retry; a token margin of three ticks and a floor of one, with lifetimes on both sides of
  their sum; a call holds the mutex for at most one tick (`MaxHold`), which the code does not enforce: its requests have
  no timeout (section 5).

`CHECK_DEADLOCK FALSE` is set throughout, because at its bounds, or when every event was delivered, an
instance has nothing left to do.

Every passing property has a mutant in its module: an operator next to the one it replaces, marked
`mutant` in a comment, that changes it the way a plausible bug would.

## 4. Fairness

`FeishuDelivery!FairSpec` has weak fairness for the steps of every queued task that runs, since the runtime
polls every task and none of these steps waits for another handler, and strong fairness for `Acquire`, since tokio's
mutex is first come, first served, so a task that waits is not overtaken for ever. Nothing is assumed of
deliveries, replays, cleanups and crashes: `QueuedIsRun` holds beside a replay that never ends.

`MatrixDelivery!FairSpec` is about one run of the process, which a restart ends. It has weak fairness for the
homeserver's pushes (an application service is retried until it answers) and for the steps of the handlers
taken together, since the runtime always polls one that can move, and strong fairness for `Answer`: answers may be
lost, but not every time. `MatrixPolicy!PolicyFairSpec` says the same of the composition; nothing is assumed of
the clock. Failures need no assumption: each failing variant is also a step of the handler, so progress holds
even if everything always fails. `MatrixDelivery!Spec`, under which safety is checked and proved, has any number of
restarts.

`LongConnection!FairSpec` has weak fairness for connecting, receiving, dispatching and answering, since
`start_long_connection` loops until a fatal error and its session reads whatever arrives; and of the gateway that
it pushes what is not acknowledged (weak) and that no message's fragments are passed over for ever when the
wire has room again and again (strong). Faults are bounded, so the property says what holds once they cease.

`FeishuApi!FairSpec` has weak fairness for the steps of a call: the runtime polls it, and Feishu answers or the
connection breaks. The mutex needs none beyond, since it serves in order.

`RoomStore`, `UserSync` and `Provisioning` state safety only and assume no fairness.

## 5. What is proved

`RoomStoreProofs` proves for any rooms, chats, names, handlers and updates (from the module's own
`ConstantsAssumption` only):

- `TypeCorrect`: `[]TypeOK`;
- `HeldGenuine`: `[]HeldIsGenuine`, stale mappings are genuine;
- `LinkSeen`: `[]LinkIsSeen`, no mapping is missed;
- `RemovalsAreOwn`: `RemovesOnlyItsOwn`, a deletion by a stale id never hits another room and chat;
- `UpdatesAreOwn`: `UpdatesOnlyItsOwn`, neither does a chat update that writes back a stale mapping;
- `ImplementsLinks`: `LinksSpec`, every step is a `Connect`, a `Disconnect` or a stutter of `RoomLinks`.

The argument is one inductive invariant, `IInv`. `TypeOK` alone does not even give itself, because a step
writes what a handler holds, and holds what it read. `EverInv` says that ids are handed out once and below
the counter, `RowsInv` that the rows are among the mappings ever made and one-to-one, `CacheInv` and
`TasksInv` that cached and held mappings are too and belong to their key. From these, deleting by id is
harmless: if a row has the id a handler holds, both are the same mapping in `ever`, so the row belongs to
the handler's own room or chat. For `LinkIsSeen`, `TasksInv` adds that a handler whose lookup came back empty
has no row in `live`, which only inserts could break, and these use new ids. The proof has a lemma per kind
of step (`OneTaskMoves` for the steps that touch only one handler). `UpdatesAreOwn` adds that only a chat
update comes to write, and holds a mapping of its own chat (`WritersInv`).

`LongConnectionProofs` proves, for any messages, cuts, wire length and number of faults: `TypeCorrect`,
`AlwaysWhole` (`HandsOnWhole`), `NeverAckedUntaken` (`AckedWasTaken`), `NeverAssembledLate` (`AssembledInTime`)
and `ImplementsMailbox` (`MailboxSpec`). `HandsOnWhole` is not inductive: nothing in it says what is pending.
`IInv` adds that only pieces of messages are on their way (`PiecesOnly`), that each part of a pending message is
missing or is the piece of its place (`PendingInPlace`), and that an answer of 200 is backed by `taken`
(`AnswerJustified`). That an entry with the right number of parts is of the right cut is the arithmetic step of
`PartsInPlace`; that an expired entry cannot complete follows from it starting empty. The mailbox says more than
`AckedWasTaken`: the copy acknowledged is the one on the desk, accepted since it came there. The refinement
needs of the invariant that a payload is whole when it arrives (`ReceiveArrives`) and that an empty desk has no
verdict (`MailboxStutters`).

`UserSyncProofs` proves, for any users, aliases, profiles and workers: `TypeCorrect`, `AlwaysSentAsSender`
(`SentAsSender`), `RowsStayOwn` (`RowStaysOwn`), `AlwaysBotOnlyWhenHurt` (`BotOnlyWhenHurt`) and
`ImplementsDirectory` (`DirectorySpec`). `IInv` says of every mapping in the cache
or in a worker's hands that its id was given out and that no row contradicts its user (`Of`); ids are never
given out twice, so a mapping whose row is gone stays uncontradicted. This is also what makes an answer from a
stale cache an answer the directory may give (`GivenTo`): an entry that was that user's and is nobody else's.

`BotOnlyWhenHurt` needs more (`AssuredInv`): a worker that is not `hurt`, and has seen or made its user's
mapping, will find it, because evictions and cleanups that take it away hurt the worker (`Kept`).

`FeishuDeliveryProofs` proves `TypeCorrect`, `AlwaysPostedOnce` (a message that was not recalled and met no
fault has at most one post), `AlwaysShownOnce` (no more than one of its posts shows), `AlwaysReplayable`
(`StillReplayable`), `NeverSettledUnposted` (`SettledWasPosted`), `ImplementsOffice` (`OfficeSpec`), `LockIsHeld`
and `ImplementsQueue` (`QueueSpec`), for any events, chats, tasks and replays.
From the constants it needs that events with one subject are of one kind and about one message, and that
events about one message are of one chat. `IInv` says that a task past `queued` holds its chat's lock
(`LockInv`); that hence, of a message that is not excused, at most one worker is past its first step
(`OneActive`: a second one is either kept out by the lock or is a replay that overlaps, which excuses the
message); what that worker's step means for mapping, posts and redactions (`MessageInv`: e.g. at `post` the
message is not mapped, and unless it was recalled it has no post); that every row is of its key, that one which was
replayed or is selected by a cleanup has a closed event, and that every handler works on a delivered event
(`LettersInv`, `WorkInv`). The critical step is the
lock: `Acquire_NoLock` breaks `OneActive` first. The post office is not implied by the two invariants about
posts: it also says that a step posts only then and there, that what is hidden stays so and that no fault is forgiven;
each step of a handler maps to its step by what `MessageInv` says of the step before it. For the queue
`LockInv` is half of what is needed; the other half is `HeldInv`, that a held lock is held by a task that
is active and of that chat, so that nobody's turn can outlive it. It needs a proof of its own that each way
out of a handler frees the lock it holds and no other.

`MatrixDeliveryProofs` proves `TypeCorrect`, `AlwaysTextOnce`, `AlwaysRoomOrder`, `AlwaysTextIsRecalled`,
`AlwaysLossIsFailure`, `AlwaysEditIsShown`, `AlwaysLastEditStays` and `ImplementsFeed` (`FeedSpec`), for any
transactions and any number of handlers, sends, edits and restarts. `OrderAssumption` says what the homeserver
promises: each event has one place in the transactions, and a message comes before its edits and redactions.
`IInv` says that whatever comes before a handler's place is done, i.e. processed or given up (in `LossIsFailure`
and lemma `EarlierIsDone`), what each step of a handler relies on (`HandlersInv`), what a processed event has
left behind (`ProcessedInv`), that a mapping stands for a message of its event (`MappingInv`), that a text is in
the chat once (`ChatInv`), and that an edit in the chat had its predecessors before it (`EditsInv`). Overlapping
handlers are harmless for texts because both find the uuid, and for order because each of them does everything
before. The feed puts the single properties together as what one step may do given what is in the chat: `Post`,
`Change`, `Finish` and `Answered` each take their guard from `HandlersInv` at the step that precedes them.

`MatrixPolicyProofs` proves `LimitHolds` (`WithinLimit`) of the limiter alone, from the queue being in order
(`InOrder`), its popped part being older than a window (`PoppedIsOld`) and its length within the limit
(`QueueBounded`); `PolicyImplementsLimiter` and `PolicyImplementsDelivery`, that the composition implements
both of its parts, so that their theorems hold of it (`PolicyShowsEdits` says it for the edits,
`PolicyKeepsFeed` for the feed); and `WindowDecides` (`DecidedByWindow`): dropping and letting through are decided by
the number of events in the window, since what is left of the queue is exactly those (`QueueIsRecent`,
which counts an interval with `FS_Interval`). The instants of the log are any natural numbers up to `MaxTime`, itself any.

`FeishuApiProofs` proves `TypeCorrect` (with the cache within its capacity), `ForwardOnly` (`AnswersForward`),
`DropsHold` (`DropsOutdated`) and `TokensAreValid` (`TokenIsValid`). `LockInv` says that whoever is at a step
inside the client is first in the queue and nobody is in it twice; `CallsInv` that an answer on its way is no
older than what is cached; `ProfilesInv` that no cached profile is older than the newest that was answered, nor
newer than the profile; `TokensInv` that a token that may be used outlives it by `MaxHold`. `AnswersForward`
needs `FloorInv` besides: until a lookup is done, its floor stays `Sure`, i.e. the profile itself, a cached
entry and every answer on its way are at least as new, which `Known` makes true when it begins (`KnownIsSure`)
and no step of anyone ends (`NextKeepsSure`). `TokenIsValid` needs `ApiAssumption`: a call holds the client for
at most half the margin (150 s), and Feishu grants no lifetime shorter than the floor plus that time. The code
enforces neither.

`ProvisioningProofs` proves `OwnOutcome` (`TellsOwnOutcome`), `Freed` (`FreedUnlessTimedOut`), `DecisionsStay`
(`DecisionStays`) and `ImplementsDesk` (`DeskSpec`). `OwnersInv` says that a waiter's request is the one in the
map until the waiter removes it, `EntriesInv` that its status agrees with what was decided and how old it is,
`ReadsInv` that what a waiter has read is still so when it acts on it, which holds since a status other than
pending does not change, with the one exception of its own time-out. By `ReadsInv` the removal under a second
lock takes away the very status that was read, so that the two are one `Take` of the desk.

`AckedWasTaken`, `RowStaysOwn`, `PostedOnce`, `ShownOnce`, `RoomOrder` and `TellsOwnOutcome` are proved and no
longer checked by a run: the abstract specification that took the place of each says more. They are kept because they
say what matters in one line, and the proofs of the refinements rest on the same invariants.

Each constant `None` is assumed to be none of the values it stands for the absence of (`NoneAssumption`),
and the bounds (`MaxSends`, `MaxPosts`, ...) are any numbers.

Model-checked only: the liveness properties `QueuedIsRun`, `EveryTxnAnswered`, `EveryEventTaken` and
`CallsReturn`, since TLAPS does not do fairness here, and the three violations.

## 6. Findings

With a run each:

1. `delete_room_mapping` leaves `room_cache` alone. After `!feishu unbridge`, delete_bridge or a disbanded
   chat, messages of the room are still forwarded, a new `!feishu bridge` is refused as "already bridged",
   until eviction or restart (`UnbridgeReply`).
2. `&body[..50]` panics inside a multi-byte character; the transaction is pushed for ever (`PreviewPanic`).
3. Redacting an image recalls its file name, not the image (`RedactedImage`).

Visible in the actions, without a run of their own:

4. `update_room_mapping` writes all columns from a mapping that may come from the cache, and does not refresh
   the cache: a later rename restores the old chat mode (`RoomStore!UpdateRoomMapping`).
5. Events of the old type `message` are accepted but their dead letters cannot be replayed
   (`FeishuDelivery!StartReplay`).
6. Chat events without an event id share one dead letter per type and chat; the last failure replaces the
   payload of the one before (`FeishuDelivery!Key`, `Bury`; `StillReplayable` excludes exactly these, `Twins`).
7. A bridge request whose wait timed out stays in the map and takes its chat
   (`Provisioning!MarkExpired`; `FreedUnlessTimedOut` names it as the one exception).

## 7. Not modelled

- The webhook's signature check, decryption and challenge are stateless; what passes them enters
  `dispatch_event_payload`, which `FeishuDelivery` models. Authorisation of the provisioning API likewise.
- The Feishu SDK's own token and retries: a request either succeeds, fails, or succeeds without its answer.
- Conversion and formatting of contents; no property tells contents apart.
- The media cache: content-addressed keys, where a race only costs a second upload.
- Presence (never started); portals, puppets and intents in memory, which delivery does not consult when a
  mapping exists; configuration, metrics, health.
- Matrix reactions and member events, which are acknowledged and not bridged.
- Which rows a cleanup selects (status, age, limit), its dry run, and listings: a cleanup selects any.
- Half-open connections of the websocket, which would need the kernel's timeouts.
- `handle_matrix_message` and `handle_command_outcome` of `FeishuBridge`, which have no caller.

What Feishu and the homeserver do is modelled from how the code uses them: Feishu recognises a uuid it has
seen (for as long as a transaction is retried), recalls what it is told to, the homeserver keeps the order of
transactions.

## 8. Plan

1. `Bridge`: composition of `RoomStore` with the two deliveries around one room, to ask what messages do while
   it is bridged and unbridged.
2. An abstract profile service for `FeishuApi`, with lookups as single steps, once its floors are stated for
   profiles of chats as well; and the end-to-end path `LongConnection` -> `FeishuDelivery`, where what the mailbox
   accepts is what the post office is given.
3. The fallback portal of a chat without mapping, and the in-memory puppets it needs.
4. The media cache, if it gets a time to live or is asked to forget.
