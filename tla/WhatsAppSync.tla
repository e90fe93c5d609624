---------------------------- MODULE WhatsAppSync ----------------------------
(***************************************************************************)
(* The WhatsApp message buffer and its sync: handleEvent, the contacts and  *)
(* the buffer of backend/internal/whatsapp/client.go, and SyncWhatsApp of   *)
(* backend/internal/handlers/sync.go.                                       *)
(*                                                                          *)
(* One action is one SQL statement or one call of Claude; anything may run  *)
(* between two of them, and a sync may be cut short (r.Context() cancelled: *)
(* every later statement fails, so nothing more is written; or the process  *)
(* dies). Messages are known by their wa_message_id, which is UNIQUE. Claude *)
(* may find several tasks in one message, and each element of its list is   *)
(* inserted. Left out: the order of the batches (received_at), and answers  *)
(* about a message that was not asked.                                      *)
(***************************************************************************)
EXTENDS Naturals, Sequences, FiniteSets

CONSTANTS
  Msgs, Jids,   \* messages WhatsApp delivers, and who may send them
  Sender,       \* the JID each message comes from
  Ignored,      \* messages of ours, or without text
  Categories,   \* rows of table categories at first
  Items,        \* tasks Claude may find in one message
  Named,        \* the category it names for each of them, NULL: none that exists
  Handlers,     \* whatsmeow clients alive, each delivering one event at a time
  BatchSize,    \* 20 in the code
  Aborts,       \* may a sync or an event handler be cut short?
  MaxSyncs,     \* bound: POST /sync/whatsapp requests, numbered as they start
  NULL

ASSUME SyncAssumption ==
  /\ Sender \in [Msgs -> Jids] /\ Ignored \subseteq Msgs /\ IsFiniteSet(Msgs)
  /\ Named \in [Items -> Categories \cup {NULL}]
  /\ BatchSize \in Nat \ {0} /\ Aborts \in BOOLEAN /\ MaxSyncs \in Nat
  /\ NULL \notin Msgs \cup Categories

VARIABLES
  contacts,    \* table whatsapp_contacts: the whitelist
  handling,    \* the event each handler is about to store, or NULL
  buffer,      \* table whatsapp_messages: message -> processed
  categories,  \* table categories
  made,        \* rows of table tasks with a message as source_ref
  sync,        \* the locals of each request
  log,         \* table sync_log
  lastSynced,  \* whatsapp_session.last_synced_at, as a position in the log
  started,     \* syncs started so far
  known,       \* history: JIDs that were ever whitelisted
  asked,       \* history: messages handed to ExtractTasksFromMessages
  exposed      \* history: messages read by two syncs, or left behind by one

events == <<contacts, handling, known>>
vars == <<contacts, handling, buffer, categories, made, sync, log, lastSynced,
          started, known, asked, exposed>>

Buffered == DOMAIN buffer
Processed == {m \in Buffered : buffer[m]}

Found == [ref : Msgs, item : Items]        \* an ExtractedTask
Syncs == 1..MaxSyncs
Row == [find : Found, category : Categories \cup {NULL}]  \* about to be inserted
Task == [find : Found, by : Syncs]         \* a row of tasks, and the sync that made it

\* SyncWhatsApp's locals: the messages read, those not sent and not marked yet,
\* what Claude found (`told') and what is left of it to insert, the row about to
\* be inserted.
Idle == [step |-> "idle", read |-> {}, unsent |-> {}, unmarked |-> {},
         told |-> {}, found |-> {}, row |-> NULL, created |-> 0]
Active == {s \in Syncs : sync[s].step # "idle"}
Becomes(s, locals) == sync' = [sync EXCEPT ![s] = locals]

-----------------------------------------------------------------------------
(* Events and contacts.                                                     *)

\* Mutant: the sender is not looked up in the whitelist.
ReceiveAnyone(h, m) ==
  /\ handling[h] = NULL
  /\ m \notin Ignored
  /\ handling' = [handling EXCEPT ![h] = m]
  /\ UNCHANGED <<contacts, known, buffer, categories, made, sync, log, lastSynced,
                 started, asked, exposed>>

\* events.Message up to the COUNT of the sender's contact rows. Ignored messages
\* and those of strangers are dropped. WhatsApp may deliver one again.
Receive(h, m) ==
  /\ handling[h] = NULL
  /\ m \notin Ignored
  /\ Sender[m] \in contacts
  /\ handling' = [handling EXCEPT ![h] = m]
  /\ UNCHANGED <<contacts, known, buffer, categories, made, sync, log, lastSynced,
                 started, asked, exposed>>

\* Mutant: INSERT OR REPLACE.
StoreReplacing(h) ==
  /\ handling[h] # NULL
  /\ buffer' = [m \in Buffered \cup {handling[h]} |->
                  IF m = handling[h] THEN FALSE ELSE buffer[m]]
  /\ handling' = [handling EXCEPT ![h] = NULL]
  /\ UNCHANGED <<contacts, known, categories, made, sync, log, lastSynced, started,
                 asked, exposed>>

\* INSERT OR IGNORE, processed = 0.
Store(h) ==
  /\ handling[h] # NULL
  /\ buffer' = [m \in Buffered \cup {handling[h]} |-> IF m \in Buffered THEN buffer[m] ELSE FALSE]
  /\ handling' = [handling EXCEPT ![h] = NULL]
  /\ UNCHANGED <<contacts, known, categories, made, sync, log, lastSynced, started,
                 asked, exposed>>

\* The INSERT fails (its error is only logged), or the process dies before it.
Drop(h) ==
  /\ Aborts /\ handling[h] # NULL
  /\ handling' = [handling EXCEPT ![h] = NULL]
  /\ UNCHANGED <<contacts, known, buffer, categories, made, sync, log, lastSynced,
                 started, asked, exposed>>

AddContact(j) ==
  /\ j \notin contacts
  /\ contacts' = contacts \cup {j} /\ known' = known \cup {j}
  /\ UNCHANGED <<handling, buffer, categories, made, sync, log, lastSynced, started,
                 asked, exposed>>

RemoveContact(j) ==
  /\ j \in contacts
  /\ contacts' = contacts \ {j}
  /\ UNCHANGED <<handling, known, buffer, categories, made, sync, log, lastSynced,
                 started, asked, exposed>>

\* DELETE /categories/{id}, after the tasks that refer to it if there are any.
RemoveCategory(c) ==
  /\ c \in categories
  /\ categories' = categories \ {c}
  /\ UNCHANGED <<events, buffer, made, sync, log, lastSynced, started, asked, exposed>>

-----------------------------------------------------------------------------
(* SyncWhatsApp.                                                            *)

\* Mutant: the SELECT has no WHERE processed = 0.
SyncStartAll(s) ==
  /\ s = started + 1
  /\ Buffered # {}
  /\ Becomes(s, [Idle EXCEPT !.step = "batch", !.read = Buffered,
                             !.unsent = Buffered, !.unmarked = Buffered])
  /\ exposed' = exposed \cup (Buffered \cap UNION {sync[a].unmarked : a \in Active})
  /\ started' = s
  /\ UNCHANGED <<events, buffer, categories, made, log, lastSynced, asked>>

\* GetUnprocessedMessages. With nothing to read the request ends here.
SyncStart(s) ==
  /\ s = started + 1
  /\ LET msgs == Buffered \ Processed
     IN /\ msgs # {}
        /\ Becomes(s, [Idle EXCEPT !.step = "batch", !.read = msgs,
                                   !.unsent = msgs, !.unmarked = msgs])
        /\ exposed' = exposed \cup (msgs \cap UNION {sync[a].unmarked : a \in Active})
  /\ started' = s
  /\ UNCHANGED <<events, buffer, categories, made, log, lastSynced, asked>>

Batches(unsent) ==
  {b \in SUBSET unsent :
     Cardinality(b) = IF Cardinality(unsent) < BatchSize THEN Cardinality(unsent) ELSE BatchSize}

\* What Claude may answer about a batch: any tasks, several of them or none for
\* each of its messages.
Answers(batch) == SUBSET [ref : batch, item : Items]

\* ExtractTasksFromMessages on the next batch. On an error the loop goes on with
\* the batch after it.
Extract(s) ==
  /\ sync[s].step = "batch" /\ sync[s].found = {} /\ sync[s].unsent # {}
  /\ \E batch \in Batches(sync[s].unsent) :
       /\ asked' = asked \cup batch
       /\ \E answer \in Answers(batch) :  \* {} also when the call fails
            Becomes(s, [sync[s] EXCEPT !.unsent = sync[s].unsent \ batch, !.found = answer,
                                       !.told = sync[s].told \cup answer])
  /\ UNCHANGED <<events, buffer, categories, made, log, lastSynced, started, exposed>>

\* Mutant: the row is not kept for the INSERT.
LookupLosingRow(s) ==
  /\ sync[s].step = "batch"
  /\ \E t \in sync[s].found :
       Becomes(s, [sync[s] EXCEPT !.step = "insert", !.found = sync[s].found \ {t}])
  /\ UNCHANGED <<events, buffer, categories, made, log, lastSynced, started, asked, exposed>>

\* SELECT id FROM categories WHERE name = ?: no such name, no category.
Lookup(s) ==
  /\ sync[s].step = "batch"
  /\ \E t \in sync[s].found :
       LET category == IF Named[t.item] \in categories THEN Named[t.item] ELSE NULL
       IN Becomes(s, [sync[s] EXCEPT !.step = "insert",
                                     !.row = [find |-> t, category |-> category],
                                     !.found = sync[s].found \ {t}])
  /\ UNCHANGED <<events, buffer, categories, made, log, lastSynced, started, asked, exposed>>

\* INSERT INTO tasks; a failure (the category is gone) is passed over.
InsertTask(s) ==
  /\ sync[s].step = "insert"
  /\ LET row == sync[s].row
         fits == row.category \in categories \cup {NULL}
     IN /\ made' = IF fits THEN made \cup {[find |-> row.find, by |-> s]} ELSE made
        /\ Becomes(s, [sync[s] EXCEPT !.step = "batch", !.row = NULL,
                         !.created = sync[s].created + IF fits THEN 1 ELSE 0])
  /\ UNCHANGED <<events, buffer, categories, log, lastSynced, started, asked, exposed>>

\* Mutant: messages are marked once Claude was asked, before the INSERTs.
ExtractedEarly(s) == sync[s].step = "batch" /\ sync[s].unsent = {}

\* Every batch was sent and every find dealt with: both loops are over.
Extracted(s) == sync[s].step = "batch" /\ sync[s].found = {} /\ sync[s].unsent = {}

\* MarkProcessed: one UPDATE per message read.
MarkProcessed(s) ==
  /\ Extracted(s)
  /\ \E m \in sync[s].unmarked :
       /\ buffer' = [buffer EXCEPT ![m] = TRUE]
       /\ Becomes(s, [sync[s] EXCEPT !.unmarked = sync[s].unmarked \ {m}])
  /\ UNCHANGED <<events, categories, made, log, lastSynced, started, asked, exposed>>

\* Mutant: MarkProcessed returns after any of its UPDATEs.
LogSyncEarly(s) ==
  /\ Extracted(s)
  /\ log' = Append(log, [read |-> Cardinality(sync[s].read), created |-> sync[s].created])
  /\ Becomes(s, [sync[s] EXCEPT !.step = "stamp"])
  /\ UNCHANGED <<events, buffer, categories, made, lastSynced, started, asked, exposed>>

LogSync(s) ==
  /\ Extracted(s) /\ sync[s].unmarked = {}
  /\ log' = Append(log, [read |-> Cardinality(sync[s].read), created |-> sync[s].created])
  /\ Becomes(s, [sync[s] EXCEPT !.step = "stamp"])
  /\ UNCHANGED <<events, buffer, categories, made, lastSynced, started, asked, exposed>>

UpdateLastSynced(s) ==
  /\ sync[s].step = "stamp"
  /\ lastSynced' = Len(log)
  /\ Becomes(s, Idle)
  /\ UNCHANGED <<events, buffer, categories, made, log, started, asked, exposed>>

\* The client goes away, the proxy times out, or the process dies.
Abort(s) ==
  /\ Aborts /\ s \in Active
  /\ Becomes(s, Idle)
  /\ exposed' = exposed \cup sync[s].unmarked
  /\ UNCHANGED <<events, buffer, categories, made, log, lastSynced, started, asked>>

-----------------------------------------------------------------------------
Init ==
  /\ contacts = {} /\ known = {}
  /\ handling = [h \in Handlers |-> NULL]
  /\ buffer = [m \in {} |-> FALSE]
  /\ categories = Categories
  /\ made = {}
  /\ sync = [s \in Syncs |-> Idle]
  /\ log = <<>> /\ lastSynced = 0 /\ started = 0
  /\ asked = {} /\ exposed = {}

\* What the server does on its own once a sync is under way.
SyncStep(s) ==
  Extract(s) \/ Lookup(s) \/ InsertTask(s) \/ MarkProcessed(s) \/ LogSync(s) \/ UpdateLastSynced(s)

Next ==
  \/ \E h \in Handlers : Store(h) \/ Drop(h) \/ \E m \in Msgs : Receive(h, m)
  \/ \E j \in Jids : AddContact(j) \/ RemoveContact(j)
  \/ \E c \in Categories : RemoveCategory(c)
  \/ \E s \in Syncs : SyncStart(s) \/ SyncStep(s) \/ Abort(s)

\* A request's goroutine keeps running: SQLite and Claude answer or time out.
Fairness == \A s \in Syncs : WF_vars(SyncStep(s))

Spec == Init /\ [][Next]_vars /\ Fairness

-----------------------------------------------------------------------------
(* Properties.                                                              *)

Request == [step : {"idle", "batch", "insert", "stamp"},
            read : SUBSET Msgs, unsent : SUBSET Msgs, unmarked : SUBSET Msgs,
            told : SUBSET Found, found : SUBSET Found,
            row : Row \cup {NULL}, created : Nat]

\* Every variable holds values of its kind.
TypeOK ==
  /\ contacts \subseteq Jids /\ known \subseteq Jids
  /\ handling \in [Handlers -> Msgs \cup {NULL}]
  /\ Buffered \subseteq Msgs /\ buffer \in [Buffered -> BOOLEAN]
  /\ categories \subseteq Categories
  /\ made \subseteq Task
  /\ sync \in [Syncs -> Request]
  /\ \A s \in Syncs : sync[s].step = "insert" => sync[s].row \in Row
  /\ log \in Seq([read : Nat, created : Nat])
  /\ lastSynced \in Nat /\ started \in 0..MaxSyncs
  /\ asked \subseteq Msgs /\ exposed \subseteq Msgs

\* How far a message has come, as MessagePipeline sees it.
Stage(m) ==
  IF m \notin Buffered THEN "unseen"
  ELSE IF buffer[m] THEN "processed"
  ELSE IF m \in asked THEN "asked" ELSE "buffered"

Pipeline == INSTANCE MessagePipeline WITH
  Tasks <- Task,
  stage <- [m \in Msgs |-> Stage(m)],
  made  <- [m \in Msgs |-> {t \in made : t.find.ref = m}]

\* The buffer keeps the pipeline's promise: redelivery, overlapping syncs and
\* crashes move no message back, and none is marked that was not in a batch for
\* Claude (whether the call succeeds or not): one that arrives during a sync waits
\* for the next.
PipelineSpec == Pipeline!Spec

\* "Only messages from explicitly whitelisted contacts are buffered": no message
\* of ours, none without text, and none of a sender who never was a contact.
WhitelistHeld ==
  \A m \in Buffered : m \notin Ignored /\ Sender[m] \in known

\* A sync marks a message only after it stored all that Claude found in it, unless
\* the category of a find was deleted between its lookup and the INSERT.
MarkedOnlyWhenStored ==
  \A s \in Active : \A t \in sync[s].told :
    t.ref \in sync[s].read \ sync[s].unmarked =>
      [find |-> t, by |-> s] \in made \/ Named[t.item] \in Categories \ categories

\* A message may get several tasks, but from one sync. When two syncs made them, one
\* of the two began before the other had marked the message, or was cut short
\* before marking it.
DuplicatesExplained ==
  \A t, u \in made : t.find.ref = u.find.ref /\ t.by # u.by => t.find.ref \in exposed

\* "source_ref: stores the originating email/message ID for deduplication": a
\* message that has its tasks gets no others from a later sync. The sync never
\* looks at source_ref.
NoDuplicates == \A t, u \in made : t.find.ref = u.find.ref => t.by = u.by

\* A message a sync has read is processed in the end, whatever Claude answers,
\* unless that sync is cut short or another one shares the message. (Ignored ones
\* are never read.)
ReadIsProcessed ==
  \A m \in Msgs \ Ignored :
    (\E s \in Syncs : m \in sync[s].unmarked) ~> m \in Processed \cup exposed
=============================================================================
