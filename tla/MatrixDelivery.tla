--------------------------- MODULE MatrixDelivery ---------------------------
(***************************************************************************)
(* From a Matrix transaction to Feishu: on_transaction hands the events of *)
(* a transaction one by one to process_event and answers when all are      *)
(* done.  The homeserver pushes transactions in order and pushes one again *)
(* until it sees the answer, so two handlers may work on the same events.  *)
(* Feishu drops a message whose uuid it has seen.  Requests and statements *)
(* may fail, an answer of Feishu may get lost after the message was        *)
(* accepted, and the process may stop at any step.                         *)
(***************************************************************************)
EXTENDS Naturals, Sequences, FiniteSets

CONSTANTS Text,       \* m.room.message events with text (a file name, for a file)
          Attached,   \* m.room.message events with an attachment
          Redactions, \* m.room.redaction events
          Edits,      \* m.room.message events that replace the text of another
          Target,     \* redaction or edit -> the message it is about
          Splits,     \* texts and edits whose byte 50 is inside a character
          Txns,       \* the transactions, in order: sequences of events
          Handlers,   \* transactions in progress at the same time
          Degrade,    \* enable_failure_degrade
          MaxSends,   \* bound: messages in the Feishu chat
          MaxEdits,   \* bound: updates of messages in the Feishu chat
          None

Messages == Text \cup Attached
Events == Messages \cup Redactions \cup Edits

ASSUME ConstantsAssumption ==
  /\ Messages \cap Redactions = {} /\ Splits \subseteq Text \cup Edits
  /\ Edits \cap (Messages \cup Redactions) = {}
  /\ Target \in [Redactions \cup Edits -> Messages]
  /\ Txns \in Seq(Seq(Events)) /\ \A i \in 1..Len(Txns): Txns[i] # <<>>
  /\ MaxSends \in Nat /\ MaxEdits \in Nat /\ Degrade \in BOOLEAN

(* "e" comes before "f" in the room. *)
Before(e, f) ==
  \E i, j \in 1..Len(Txns): \E a \in 1..Len(Txns[i]), b \in 1..Len(Txns[j]):
    /\ Txns[i][a] = e /\ Txns[j][b] = f
    /\ i < j \/ (i = j /\ a < b)

(* The homeserver pushes each event once, but for repeated transactions,   *)
(* and a message before its edits and redactions.                          *)
ASSUME OrderAssumption ==
  \A i, j \in 1..Len(Txns): \A a \in 1..Len(Txns[i]), b \in 1..Len(Txns[j]):
    /\ Txns[i][a] = Txns[j][b] => i = j /\ a = b
    /\ Txns[i][a] \in Redactions \cup Edits => Before(Target[Txns[i][a]], Txns[i][a])

VARIABLES next,      \* homeserver: the transaction it is pushing
          work,      \* the transaction handlers
          processed, \* processed_events
          mapping,   \* message_mappings: index in chat of an event's message, 0 if none
          chat,      \* Feishu: the messages accepted
          removed,   \* Feishu: the messages recalled, as indices of chat
          edits,     \* Feishu: the edits applied, in their order
          unsent     \* history: events given up, or sent but not recorded, at least once

vars == <<next, work, processed, mapping, chat, removed, edits, unsent>>

Steps == {"check", "policy", "dedupe", "text", "attachment", "record", "edit", "recall",
          "unmap", "mark", "answer"}

(* "msg" is the Feishu message the event stands for, 0 if there is none. *)
Work == [txn: 1..Len(Txns), pos: Nat, pc: Steps, msg: 0..MaxSends]

ASSUME NoneAssumption == None \notin Work

(* Every variable holds a value of its kind, and no handler is past the    *)
(* end of its transaction.                                                 *)
TypeOK ==
  /\ next \in 1..(Len(Txns) + 1)
  /\ work \in [Handlers -> Work \cup {None}]
  /\ \A h \in Handlers: work[h] # None => work[h].pos \in DOMAIN Txns[work[h].txn]
  /\ processed \subseteq Events
  /\ mapping \in [Messages -> 0..MaxSends]
  /\ \A i \in DOMAIN chat: chat[i] \in [event: Messages, part: {"text", "attachment"}]
  /\ removed \subseteq DOMAIN chat
  /\ edits \in Seq(Edits) /\ Len(edits) <= MaxEdits
  /\ unsent \subseteq Events

Init ==
  /\ next = 1
  /\ work = [h \in Handlers |-> None]
  /\ processed = {}
  /\ mapping = [e \in Messages |-> 0]
  /\ chat = <<>> /\ removed = {} /\ edits = <<>>
  /\ unsent = {}

-----------------------------------------------------------------------------
At(h, pc) == work[h] # None /\ work[h].pc = pc

Current_Popped(h) ==  \* mutant: events are popped off the end of the list
  Txns[work[h].txn][Len(Txns[work[h].txn]) + 1 - work[h].pos]

Current(h) == Txns[work[h].txn][work[h].pos]

Goto(h, pc) == work' = [work EXCEPT ![h].pc = pc]

Advance_PastEnd(h) ==  \* mutant: off by one at the end of the transaction
  work' = IF work[h].pos > Len(Txns[work[h].txn]) THEN [work EXCEPT ![h].pc = "answer"]
          ELSE [work EXCEPT ![h].pos = @ + 1, ![h].pc = "check", ![h].msg = 0]

Advance_FirstOnly(h) ==  \* mutant: on_transaction returns after one event
  work' = [work EXCEPT ![h].pc = "answer"]

(* process_event returns; on_transaction logs an error and goes on. *)
Advance(h) ==
  work' = IF work[h].pos = Len(Txns[work[h].txn]) THEN [work EXCEPT ![h].pc = "answer"]
          ELSE [work EXCEPT ![h].pos = @ + 1, ![h].pc = "check", ![h].msg = 0]

GiveUp(h) == unsent' = unsent \cup {Current(h)}

Bridge == <<processed, mapping>>
Feishu == <<chat, removed, edits>>

(* The homeserver pushes its oldest unanswered transaction, again if need be. *)
Push(h) ==
  /\ work[h] = None /\ next <= Len(Txns)
  /\ work' = [work EXCEPT ![h] = [txn |-> next, pos |-> 1, pc |-> "check", msg |-> 0]]
  /\ UNCHANGED <<Bridge, Feishu, next, unsent>>

Check_Claims(h) ==  \* mutant: an event is marked processed before it is handled
  /\ At(h, "check")
  /\ IF Current(h) \in processed THEN Advance(h)
     ELSE Goto(h, IF Current(h) \in Redactions THEN "recall" ELSE "policy")
  /\ processed' = processed \cup {Current(h)}
  /\ UNCHANGED <<mapping, Feishu, next, unsent>>

(* process_event: a processed event is skipped.  The log line cuts the body *)
(* at byte 50, which panics inside a character; the handler of the          *)
(* transaction dies with it, unanswered.                                    *)
Check(h) ==
  /\ At(h, "check")
  /\ IF Current(h) \in processed THEN Advance(h)
     ELSE IF Current(h) \in Splits THEN work' = [work EXCEPT ![h] = None]
     ELSE Goto(h, IF Current(h) \in Redactions THEN "recall" ELSE "policy")
  /\ UNCHANGED <<Bridge, Feishu, next, unsent>>

(* A message of the bot or of a ghost, a command, a blocked type, the rate *)
(* limit, a room without mapping: the event is done without being sent.    *)
Dropped(h) ==
  /\ At(h, "policy")
  /\ GiveUp(h) /\ Goto(h, "mark")
  /\ UNCHANGED <<Bridge, Feishu, next>>

Allowed(h) ==
  /\ At(h, "policy")
  /\ Goto(h, "dedupe")
  /\ UNCHANGED <<Bridge, Feishu, next, unsent>>

(* get_message_by_content_hash: the hash covers the event id, so only the  *)
(* event's own mapping can have it; an edit is never mapped.               *)
Dedupe(h) ==
  /\ At(h, "dedupe")
  /\ Current(h) \in Messages
  /\ Goto(h, IF mapping[Current(h)] # 0 THEN "mark"
             ELSE IF Current(h) \in Text THEN "text" ELSE "attachment")
  /\ UNCHANGED <<Bridge, Feishu, next, unsent>>

DedupeEdit(h) ==
  /\ At(h, "dedupe")
  /\ Current(h) \in Edits
  /\ Goto(h, "edit")
  /\ UNCHANGED <<Bridge, Feishu, next, unsent>>

-----------------------------------------------------------------------------
Delivered(h, part) ==
  /\ Len(chat) < MaxSends
  /\ chat' = Append(chat, [event |-> Current(h), part |-> part])

SeenByUuid_Fresh(h) == {}  \* mutant: a text gets a fresh uuid too

(* outbound_delivery_uuid of a text is made of its event id and its hash.  *)
SeenByUuid(h) == {i \in DOMAIN chat: chat[i] = [event |-> Current(h), part |-> "text"]}

(* Feishu accepts a text, or knows it already. *)
TextAccepted(h, i) ==
  \/ i \in SeenByUuid(h) /\ UNCHANGED chat
  \/ SeenByUuid(h) = {} /\ i = Len(chat) + 1 /\ Delivered(h, "text")

SendText(h) ==
  /\ At(h, "text")
  /\ \E i \in 1..MaxSends:
       /\ TextAccepted(h, i)
       /\ work' = [work EXCEPT ![h].msg = i,
                               ![h].pc = IF Current(h) \in Attached THEN "attachment" ELSE "record"]
  /\ UNCHANGED <<Bridge, removed, edits, next, unsent>>

(* A text that fails ends in a notice to the chat (Degrade) or in an       *)
(* error, which keeps the event unmarked; its attachments are not tried.   *)
AfterFailure(h) == IF Degrade THEN Goto(h, "mark") ELSE Advance(h)

TextFails(h) ==
  /\ At(h, "text")
  /\ GiveUp(h) /\ AfterFailure(h)
  /\ UNCHANGED <<Bridge, Feishu, next>>

(* Feishu accepts the text and its answer is lost. *)
TextUnconfirmed(h) ==
  /\ At(h, "text")
  /\ \E i \in 1..MaxSends: TextAccepted(h, i)
  /\ GiveUp(h) /\ AfterFailure(h)
  /\ UNCHANGED <<Bridge, removed, edits, next>>

(* Every attachment is sent with a fresh uuid; it stands for the event if  *)
(* no text does.                                                           *)
SendAttachment(h) ==
  /\ At(h, "attachment")
  /\ Delivered(h, "attachment")
  /\ work' = [work EXCEPT ![h].pc = "record", ![h].msg = IF @ = 0 THEN Len(chat) + 1 ELSE @]
  /\ UNCHANGED <<Bridge, removed, edits, next, unsent>>

(* An attachment that fails is skipped with a warning. *)
AttachmentFails(h) ==
  /\ At(h, "attachment")
  /\ GiveUp(h)
  /\ Goto(h, IF work[h].msg = 0 THEN "mark" ELSE "record")
  /\ UNCHANGED <<Bridge, Feishu, next>>

(* create_message_mapping: matrix_event_id is UNIQUE, and a failure is     *)
(* only logged.                                                            *)
Record(h) ==
  /\ At(h, "record")
  /\ mapping' = [mapping EXCEPT ![Current(h)] =
       IF @ = 0 THEN work[h].msg ELSE @]
  /\ Goto(h, "mark")
  /\ UNCHANGED <<processed, Feishu, next, unsent>>

RecordFails(h) ==
  /\ At(h, "record")
  /\ GiveUp(h) /\ Goto(h, "mark")
  /\ UNCHANGED <<Bridge, Feishu, next>>

-----------------------------------------------------------------------------
(* handle_edit_message: the edit of a message without mapping is dropped   *)
(* with a warning.                                                         *)
NothingToEdit(h) ==
  /\ At(h, "edit") /\ mapping[Target[Current(h)]] = 0
  /\ Goto(h, "mark")
  /\ UNCHANGED <<Bridge, Feishu, next, unsent>>

Updated(h) ==
  /\ At(h, "edit") /\ mapping[Target[Current(h)]] # 0
  /\ Len(edits) < MaxEdits
  /\ edits' = Append(edits, Current(h))
  /\ UNCHANGED <<Bridge, chat, removed, next>>

(* update_message has no uuid: Feishu applies an edit as often as asked. *)
UpdateMessage(h) ==
  /\ Updated(h)
  /\ Goto(h, "mark")
  /\ UNCHANGED unsent

(* Feishu applies the edit and its answer is lost. *)
UpdateUnconfirmed(h) ==
  /\ Updated(h)
  /\ GiveUp(h) /\ Advance(h)

-----------------------------------------------------------------------------
(* handle_redaction_event: recall_message, then delete_message_mapping,    *)
(* whose failure is only logged.                                           *)
NothingToRecall(h) ==
  /\ At(h, "recall") /\ mapping[Target[Current(h)]] = 0
  /\ Goto(h, "mark")
  /\ UNCHANGED <<Bridge, Feishu, next, unsent>>

Recall(h) ==
  /\ At(h, "recall") /\ mapping[Target[Current(h)]] # 0
  /\ removed' = removed \cup {mapping[Target[Current(h)]]}
  /\ work' = [work EXCEPT ![h].pc = "unmap", ![h].msg = mapping[Target[Current(h)]]]
  /\ UNCHANGED <<Bridge, chat, edits, next, unsent>>

Unmap(h) ==
  /\ At(h, "unmap")
  /\ \/ UNCHANGED mapping
     \/ mapping' = [mapping EXCEPT ![Target[Current(h)]] =
          IF @ = work[h].msg THEN 0 ELSE @]
  /\ Goto(h, "mark")
  /\ UNCHANGED <<processed, Feishu, next, unsent>>

EventFails_Propagates(h) ==  \* mutant: on_transaction returns the error of an event
  /\ \E pc \in {"check", "policy", "dedupe", "edit", "recall"}: At(h, pc)
  /\ GiveUp(h)
  /\ work' = [work EXCEPT ![h] = None]
  /\ UNCHANGED <<Bridge, Feishu, next>>

(* A query, the update or the recall fails: process_event returns the error. *)
EventFails(h) ==
  /\ \E pc \in {"check", "policy", "dedupe", "edit", "recall"}: At(h, pc)
  /\ GiveUp(h) /\ Advance(h)
  /\ UNCHANGED <<Bridge, Feishu, next>>

(* mark_event_processed; it fails if the event is marked already. *)
Mark(h) ==
  /\ At(h, "mark")
  /\ processed' = processed \cup {Current(h)}
  /\ Advance(h)
  /\ UNCHANGED <<mapping, Feishu, next, unsent>>

MarkFails(h) ==
  /\ At(h, "mark")
  /\ GiveUp(h) /\ Advance(h)
  /\ UNCHANGED <<Bridge, Feishu, next>>

(* The homeserver sees the answer, or has stopped waiting for it. *)
Answer(h) ==
  /\ At(h, "answer")
  /\ next' = IF work[h].txn = next THEN next + 1 ELSE next
  /\ work' = [work EXCEPT ![h] = None]
  /\ UNCHANGED <<Bridge, Feishu, unsent>>

AnswerLost(h) ==
  /\ At(h, "answer")
  /\ work' = [work EXCEPT ![h] = None]
  /\ UNCHANGED <<Bridge, Feishu, next, unsent>>

Crash ==
  /\ work' = [h \in Handlers |-> None]
  /\ UNCHANGED <<next, Bridge, Feishu, unsent>>

-----------------------------------------------------------------------------
Proceed(h) ==
  \/ Check(h) \/ Dedupe(h) \/ DedupeEdit(h)
  \/ SendText(h) \/ TextFails(h) \/ TextUnconfirmed(h)
  \/ SendAttachment(h) \/ AttachmentFails(h) \/ Record(h) \/ RecordFails(h)
  \/ NothingToEdit(h) \/ UpdateMessage(h) \/ UpdateUnconfirmed(h)
  \/ NothingToRecall(h) \/ Recall(h) \/ Unmap(h) \/ Mark(h) \/ MarkFails(h)

Step(h) == Proceed(h) \/ Dropped(h) \/ Allowed(h) \/ EventFails(h)

Handling ==
  \E h \in Handlers: Push(h) \/ Step(h) \/ Answer(h) \/ AnswerLost(h)

Next == Handling \/ Crash

Spec == Init /\ [][Next]_vars

(* One run of the process: the runtime polls the handlers, one or another;  *)
(* the homeserver keeps pushing until it has an answer, and does not miss   *)
(* all of them.                                                             *)
FairSpec ==
  /\ Init /\ [][Handling]_vars
  /\ WF_vars(\E h \in Handlers: Push(h))
  /\ WF_vars(\E h \in Handlers: Step(h))
  /\ SF_vars(\E h \in Handlers: Answer(h))

-----------------------------------------------------------------------------
PostsOf(e) == {i \in DOMAIN chat: chat[i].event = e}

TextsOf(e) == {i \in PostsOf(e): chat[i].part = "text"}

(* However often a transaction is pushed, however many handlers work on it *)
(* and wherever the bridge stops or an answer is lost, a text appears once *)
(* in the Feishu chat.                                                     *)
TextOnce == \A e \in Text: Cardinality(TextsOf(e)) <= 1

(* Messages reach the chat in the order of the room, except one that was   *)
(* given up once and came through at a later push.                         *)
RoomOrder ==
  \A e, f \in Messages: Before(e, f) /\ e \notin unsent /\ PostsOf(f) # {} =>
    \E i \in PostsOf(e): \A j \in PostsOf(f): i < j

Redacted(e) == \E r \in Redactions \cap processed: Target[r] = e /\ {r, e} \cap unsent = {}

(* When a redaction is marked processed, nothing of the text it redacts is *)
(* left in the chat, not even when a slow handler of an older push sends   *)
(* the text after the recall.                                              *)
TextIsRecalled == \A e \in Text: Redacted(e) => TextsOf(e) \subseteq removed

(* A message's edits that are done and have met no failure reached the      *)
(* chat, unless a redaction was there first: an edit never runs into the    *)
(* gap between a message and its mapping, however handlers overlap.         *)
EditIsShown ==
  \A e \in Edits \cap processed:
    /\ {e, Target[e]} \cap unsent = {}
    /\ ~ \E r \in Redactions: Target[r] = Target[e]
    => \E i \in DOMAIN edits: edits[i] = e

(* What a message shows in the end is its last edit: an older one comes     *)
(* after a newer one only when it was applied twice, or when it or the      *)
(* message was given up once or redacted.                                   *)
LastEditStays ==
  \A i, j \in DOMAIN edits:
    /\ i < j /\ Target[edits[i]] = Target[edits[j]]
    /\ {edits[j], Target[edits[j]]} \cap unsent = {}
    /\ ~ \E r \in Redactions: Target[r] = Target[edits[j]]
    /\ \A k \in DOMAIN edits: edits[k] = edits[j] => k = j
    => ~ Before(edits[j], edits[i])

(* An event of an answered transaction that is not marked processed met a  *)
(* failure: one event's failure costs the transaction no other event.      *)
LossIsFailure ==
  \A i \in 1..(next - 1): \A a \in 1..Len(Txns[i]):
    Txns[i][a] \in processed \cup unsent

F == INSTANCE RoomFeed WITH
       shown <- chat, hidden <- removed, changes <- edits,
       done <- processed, failed <- unsent, open <- next

(* With its overlapping handlers, its repeated pushes, lost answers and     *)
(* restarts the delivery is a feed of the room: each step of any handler    *)
(* posts, changes, hides or finishes only what the feed allows just then.   *)
FeedSpec == F!Spec

(* The homeserver gets every transaction answered, whatever fails. *)
EveryTxnAnswered == <>(next > Len(Txns))

(* "m.text -> Feishu text message" (README.md): a text is dealt with in the *)
(* end, sent or given up for a reason the code provides for.                *)
TextIsDealtWith == \A e \in Text: <>(e \in processed \cup unsent)

(* "Matrix reply/edit/redaction: Supported" (README.md): a message that was *)
(* redacted is gone from the chat, its attachment included.                 *)
RedactedIsGone == \A e \in Messages: Redacted(e) => PostsOf(e) \subseteq removed
=============================================================================
