# Verification of the household task manager

TLA+ models of the server in `src/backend` (Go, chi, one SQLite file), of its React
page in `src/frontend`, and of the part of the vendored whatsmeow library that the
server's WhatsApp session depends on, checked with TLC and, for the properties that
matter most, proved with TLAPS.

    tlc -workers 2 -config TasksShared.cfg MCTasks.tla     # a run
    tlapm TasksProofs.tla                                  # a proof

## The system

| Part | State | Operations | Talks to |
|---|---|---|---|
| Task store, `handlers/tasks.go` | table `tasks`; per request, what it has read | create, update, done, reopen, snooze, delete, history | the database; called by the page, by any client and, for its rows, by both syncs |
| People, categories, `handlers/people.go`, `categories.go` | tables `people`, `categories` | add, delete | foreign keys from `tasks` |
| Schema and pool, `db/db.go` | the SQLite file; **one** connection | migrate at start | everybody |
| WhatsApp buffer, `whatsapp/client.go` | `whatsapp_messages`, `whatsapp_contacts` | store an event's message, add and remove contacts, read unprocessed, mark processed | called back by whatsmeow's goroutine; read by the sync |
| WhatsApp sync, `handlers/sync.go` | locals of a request; `sync_log` | `POST /sync/whatsapp` | buffer, Claude, `tasks`, `categories` |
| WhatsApp session, `whatsapp/client.go` | `whatsapp_session`, the current client under a mutex | connect, QR flow, auto-reconnect, disconnect, session events | whatsmeow; polled by Settings |
| Gmail, `handlers/sync.go`, `integrations.go`, `gmail/client.go` | `integrations` (token, watermark) | OAuth callback, sync, disconnect | Gmail, Claude, `tasks` |
| Claude client, `claude/client.go` | none | extract tasks from emails or messages | Anthropic's API, 30 s timeout |
| Tasks page, `pages/Tasks.tsx`, `TaskCard`, `TaskForm` | lists as last loaded, selection | the buttons, batch delete | the API |
| Settings, `SyncButton` | last status, QR | poll, sync | the API |

**What is hard.** The pool has one connection (`db.SetMaxOpenConns(1)`), so a
single SQL statement is atomic; but no handler opens a transaction, each request
has a goroutine of its own, and every statement runs under `r.Context()`. Between
any two statements of a request another request may run, the browser or the
development proxy (120 s) may give up, after which every remaining statement of
that request fails, or the process may be restarted. A sync makes network calls of
up to 30 s per batch between its statements. WhatsApp delivers messages at any
time, and possibly again. There are no backend tests (`docs/META.md`).

**What makes each part correct.**
- *Task store*: references are never dangling; a chain of occurrences has one
  root, one level and one history; a completed recurring task gets exactly one
  successor; completion fields agree with the status.
- *WhatsApp buffer and sync*: only whitelisted senders are stored; a message goes
  unseen → buffered → asked → processed and never back; it is marked only after
  what Claude found was stored; its tasks come from one sync; what was read gets processed.
- *QR channel* (whatsmeow): whatever events, timers and cancellations race inside it,
  its reader sees codes in order and at most one outcome, and it is closed once.
- *WhatsApp session*: once all is quiet the status shown is that of the current client,
  unless that went without a word; a stopped client stays down; a QR flow that was
  started can be finished.
- *Gmail*: no email gives two tasks; none is skipped in silence; a disconnect is final.
- *Dates*: the next occurrence falls where the recurrence says, and views and filters
  are off by no more than a timestamp and a time zone make them.
- *Tasks page*: what is shown is the answer to the last question asked, and holds what
  the user did; what is selected is listed.

`PROJECT.json` lists these hazards at their lines, with the properties that cover
them or why none does yet.

## Modules

| Module | Models | Role |
|---|---|---|
| `Tasks` | task store, people, categories, schema | specification and properties |
| `MCTasks` | | values for TLC |
| `TasksProofs` | | TLAPS proofs about `Tasks` |
| `MessagePipeline` | what the buffer promises | abstract specification |
| `WhatsAppSync` | buffer, contacts, sync | specification; refines `MessagePipeline` |
| `MCWhatsAppSync` | | values for TLC |
| `WhatsAppSyncProofs` | | TLAPS proofs about `WhatsAppSync`, refinement included |
| `GmailSync` | Gmail integration and sync | specification and properties |
| `MCGmailSync` | | values for TLC |
| `GmailSyncProofs` | | TLAPS proofs about `GmailSync` |
| `QRStream` | what a reader of a QR channel may rely on | abstract specification |
| `QRChannel` | whatsmeow's QR channel, its emitter and event handlers | specification; refines `QRStream` |
| `QRChannelProofs` | | TLAPS proofs about `QRChannel`, refinement included |
| `WhatsAppSession` | connect, reconnect, disconnect, session events, the session row | specification; its QR channels refine `QRStream` |
| `MCWhatsAppSession` | | a bound for TLC |
| `WhatsAppSessionProofs` | | TLAPS proofs about `WhatsAppSession`: types, `Disconnect`, its QR channels |
| `SessionRowProofs` | | the TLAPS proofs about its row |
| `Dates` | due dates of a recurring task, views, the page's date filter | specification and properties |
| `MCDates` | | values for TLC |
| `DatesProofs` | | TLAPS proofs about `Dates` |
| `TasksPage` | the tasks page and its requests | specification and properties |
| `MCTasksPage` | | values for TLC, and a view |
| `TasksPageProofs` | | TLAPS proofs about `TasksPage` |

Definitions marked `\* Mutant:` are bugs that the code does not have. No action
uses them; each shows, put in the place of the definition that follows, that a
property can be violated.

### `Tasks`

`tasks` is a function from the ids of existing rows to records of the columns,
`lastId` the AUTOINCREMENT counter, and `people` and `categories` the ids with a
row. `req[r]` is one `Done` or `Update` request between two of its statements: it
holds what the handler has read and not yet acted on. `from`, `owed` and
`reopened` are history variables that no action's guard reads.

| Action | Code |
|---|---|
| `Create`, `Reopen`, `Snooze`, `Delete` | the whole handler: one writing statement |
| `UpdateStart`, `UpdateField`, `UpdateEnd` | `Update`: one UPDATE per field of the body, in the code's order; the first that fails ends it |
| `DoneRead`, `DoneUpdate`, `DoneInsert` | the SELECT, UPDATE and INSERT of `Done` |
| `Abort` | the request's context is cancelled or the process dies between two statements |
| `AddPerson` ... `RemoveCategory` | `people.go`, `categories.go` |
| `Midnight` | the clock `Snooze` reads |

Three constants separate what the code does from what surrounds it.
`DriverModes`: whether the driver turns the text of a DATE column into a
timestamp. `database/sql` then prints it as RFC 3339 into `scanTask`'s string;
modernc.org/sqlite v1.48.0, the version in `go.mod`, does this; it is an external
library, so both behaviours are in the shared run. `FreshUI`: whether the only
client is a page that is up to date, which offers Done for tasks not done, Snooze
for pending ones and Reopen for done ones. `Aborts`: whether requests may be cut
short.

Abstracted: a recurrence is the number of days between two occurrences and a due
date a day with the form of its text (`date` or `stamp`); contents are values
told apart; `source`, `created_at` and names play no part. A draft or an edit whose
columns violate a CHECK is not among the inputs: its statement fails and changes
nothing. `foreign_keys` is set on the connection by `migrate`, and the pool is
assumed to keep that connection. `Seeded` is the set `migrate` inserts; the runs
take it empty, since a category no task refers to changes nothing, and let
`AddCategory` provide the one that drafts use.

### `WhatsAppSync` and `MessagePipeline`

`buffer` maps each stored message to its `processed` flag; `handling[h]` is the event
that a whatsmeow client has looked up in the whitelist and not yet stored; `sync[s]`
holds `SyncWhatsApp`'s locals, with `told` (a history of all answers) among them; `made`
is the set of task rows, each with the find it was made of (a message and one of the
`Items` that Claude may find in a message) and the sync that made it. Syncs are numbered
as they start. The order of actions in a sync is the code's: `SyncStart` (read), then
per batch `Extract` (call Claude, whose answer is any set of finds, several for one
message included; an empty one stands for a failed call too) and, for each find,
`Lookup` and `InsertTask`; then `MarkProcessed` per message, `LogSync`,
`UpdateLastSynced`. Deleting a category does not ask for tasks that refer to it: they
can be deleted first, and this module does not track which do.

The refinement maps a message to the stage *unseen*, *buffered*, *asked* or
*processed* from `buffer` and `asked`. `MessagePipeline` says that no message goes
back, skips being asked about, or gets a task before it.

Not in the model: the order of messages within a read, answers that name a message that
was not in the batch, and statements failing for reasons other than a cancelled context
or a foreign key.

### `GmailSync`

`row` is the gmail row of `integrations`: two tokens, each told apart by the account it
belongs to, and the watermark (`last_message_date`, NULL at first). `sync[s]` holds
the locals of one `SyncGmail`. Time is counted in days, since that is what the
`after:` query keeps of the watermark; `Skew` is how far a mail's Date header is from
its arrival, or NULL for a header that does not parse.

| Action | Code |
|---|---|
| `GmailCallback`, `GmailDisconnect` | `integrations.go`: the upsert, which keeps an existing row's watermark; the DELETE |
| `SyncStart` | the SELECT of the row, and where the fetch begins |
| `Fetch`, `SaveToken` | `FetchEmails` with its token refresh, its query and the messages it passes over; the UPDATE of the access token |
| `Count` | `SELECT COUNT(*) ... source_ref`, per mail |
| `Extract`, `ExtractFails`, `InsertTask` | a batch's call to Claude, and an INSERT per answer |
| `Stamp` | `updateSyncTimestamp`, on whatever row is there by then |
| `Abort` | the request is cut short, or the process dies |
| `Arrive`, `NextDay`, `DeleteTask` | the mailbox, the clock, `DELETE /tasks/{id}` |

`settled` (a history) are the mails shown to Claude or given up knowingly; `raced`
those that two syncs counted before either made a task; `crossed` says that another
account was connected while a sync ran. Left out: `last_synced_at`, the `sync_log`,
the pages of the list, answers about a mail that was not asked. The page of the OAuth
exchange is `GmailCallback`'s outcome only.

### `QRStream` and `QRChannel`

`qrchan.go` is the most concurrent code that a handler of this server relies on:
`emitQRs` runs in its own goroutine, every event is handled in another's, and they share
a flag set by compare-and-swap, a stop channel and an output channel that any of them
may close. `QRChannel` has one action per operation on these. `emitter` says where
`emitQRs` is (`check`, `send`, `wait`, `final`, `close`, `disconnect`), `handler[k]`
where the handling of event `k` is, `output` and `received` what is in the channel
and what the goroutine of `connect` took. A panic that nothing recovers sets
`crashed` and stops everything: `EmitPanics` is reachable (an emitter past its check
sends after another goroutine closed the channel).

`QRStream` is what the reader may rely on: codes in the server's order and each once,
at most one final item, at most one code after it, nothing after the close.

### `WhatsAppSession`

`row` is `whatsapp_session`; `wac` the client of the last connect; `cli[c]` the state of
each whatsmeow client that was ever made in this process, because a connect replaces
the one before without stopping it; `flow[c]` its QR channel; `todo[w]` the columns that
one goroutine has yet to write, for each event handler, each reader of a QR channel and
`Disconnect`.

| Action | Code |
|---|---|
| `Load`, `Dial`, `DialFails` | `connect`: `c.wac = wac`, then `GetQRChannel` and `Connect` |
| `AutoReconnect`, `Crash` | `main.go`'s goroutine at start; the process stops and starts |
| `Disconnect` | `client.go:119`, on the current client |
| `Scan`, `ScanFails`, `Restart`, `Login`, `Replaced`, `LogOut`, `Refused` | whatsmeow: pairing, the 515 after it, the login, a device removed (401, at login or later), a login or pairing refused (`handleConnectFailure`) |
| `Drop`, `DropQuietly`, `Retry`, `Reconnect`, `ReconnectFails` | `onDisconnect`, with its event or with the disconnect expected; `autoReconnect`, and the connect after a 515 |
| `KeepAliveFails`, `ForceRetry` | `keepalive.go`: a dead connection is hung up and a reconnect forced |
| `EmitCode`, `RunOut`, `CutOff`, `EndFlow`, `CloseFlow` | the QR channel as seen from outside: steps of `QRStream` |
| `Take`, `WriteColumn` | the loop of `connect`; one UPDATE of `upsertSession`, in the order of a Go map |

`excused` is the history that `RowTruthful` needs: two goroutines were writing at once,
a client at work was replaced, or a code came after the final item of its channel (an
emitter past its check, see `QRStream`), which makes the reader write pending_qr over
the outcome. The proof of `RowTruthful` is what brought the last of these out: a run
with a single code cannot reach it.

A client may also go without a word: a paired one is refused (405, a ban, an unknown
reason), which makes its disconnect an expected one and fires an event that `handleEvent`
does not know; the connect after a 515 fails, which is only logged; the connection goes
between the scan and the 515. No event of the app follows and nothing dials again: the
client is `lost`, and the row goes on saying "connected" over it. So it does when
the only attempt of `AutoReconnect`, or the `Connect` of a request over a row that says
connected, fails. `RowTruthful` names these clients (`Forsaken`) and says that a quiet
row is "connected" over no connection of theirs alone.

A `Disconnect` does not keep a client down (`Stops`) in three windows: between
`c.wac = wac` and `Connect`; when its `autoReconnect` is past its wait or the 515 about
to connect; when its keepalive is about to force a reconnect.

The inside of a QR channel is `QRChannel`'s; `FlowsAreStreams` says that this module's
channels are streams of the same abstract specification. Left out: `phone`, `error`,
`qr_expires_at`, `connected_at` and `last_synced_at`; the row's absence, which `Status`
reads as disconnected; the CAT reasons of a refusal, for which this app sets no
`RefreshCAT`. A 401 while pairing is a `Refused`: there is no device to delete, and the QR
channel ends alike. When a client is disconnected
the device stays in whatsmeow's tables, although `Settings.tsx:417` tells the user
that the pairing will be removed.

### `Dates`

One chain of occurrences and the calendar it walks through. `due` is a month and a day,
`form` whether its text is a date or a timestamp (see `DriverModes` above), `zone` and
`today` what the browser's clock says while the server's is at UTC. `NextDate`,
`Snooze`, `Update` and `Done` are the date parts of the handlers; `InToday`,
`InUpcoming` and `InWindow` the comparisons of texts in `List` and in the page's
filter; `WindowEnd` is `dateWindowEnd` with what `toISOString` does to it. `AddMonths`
and `AddDays` are Go's `AddDate`, normalisation included.

Two things the code does and the properties only bound: the month filter ends a day
early for a browser east of UTC, and a timestamp hides what is due on a filter's last
day (`WindowsNearlyRight`). A snoozed task never returns by itself: the views ask for
status pending.

### `TasksPage`

One page (`pages/Tasks.tsx`) over the server's lists. `load[l]` are its loads, numbered as
they are asked, each with the filter it was asked for and the two answers
(`/tasks`, `/people`) that the server gives when it likes; `act[a]` the requests that
change something, with what the server has yet to change (`left`) and what it has
changed (`done`). `tasks`, `known`, `selected`, `batch`, `confirm`, `deleting`, `form`,
`saving`, `loading` and `error` are the component's states.

| Action | Code |
|---|---|
| `Choose` | the dropdowns, and the effect that loads for a new status filter |
| `ReadTasks`, `ReadPeople`, `Loaded`, `LoadFails` | the server's answers and the `then`, `catch` and `finally` of `load` |
| `EnterBatch`, `ToggleSelect`, `ToggleSelectAll`, `CancelBatch`, `AskConfirm`, `CloseConfirm`, `ConfirmBatchDelete` | the batch mode |
| `Click`, `OpenForm`, `CloseForm`, `Submit`, `Sync` | `TaskCard`, `TaskForm`, `SyncButton` |
| `Serve`, `Refuse` | the server changes a task, its answer perhaps lost; it refuses |
| `Answer`, `GiveUp` | `onRefresh`, `onDone`, `onSynced` or `load` *of the render that had the click*; nothing, when a request failed |
| `OthersChange`, `PeopleChange` | other clients and the syncs |

A handler runs with the state of the page as it was rendered: the load after a click is
for the filter at the click. So a load may be `stale`, and answers may come out of
order; the properties name both, and in both the page shows, with no error, tasks
that its filter excludes. Coming back from Settings makes the page anew, which is
`Init`. `unseen`, `lapsed` and `torn` are histories.

Left out: what a form holds (a person chosen in it who is gone from the list before it
is sent included), the successor of a task that is done, the list of categories (the
category filter goes the way of the status filter), texts of errors. A card with a
request under way is barred to the mouse only, so `Click` is not barred. The test of
an assignee filter in `src/frontend/src/test/Tasks.test.tsx` is about a control the
page no longer has.

## Runs

| Run | Instance | Shows |
|---|---|---|
| `tasks_shared` | 2 requests, 1 person, 1 chore, 3 ids, any page, aborts, both drivers | `ForeignKeys`, `ChainShape`, `HistoryUnbroken`, `CompletionConsistent`, `IdentityKept` hold |
| `tasks_solo` | 1 request, 1 person, 1 category, chores and at most one one-off, 2 days, fresh page, text dates, no aborts | `OneOpenOccurrence`, `NextOccurrenceCreated`, `ChoreGoesOn` hold |
| `tasks_driver` | the same with a driver that parses dates | `NextOccurrenceCreated` **violated** |
| `tasks_two_clients` | `tasks_solo`'s conditions with two requests | `OneOpenOccurrence` **violated** |
| `whatsapp_shared` | 3 messages (one without text), 2 tasks to find in one and 1 in another, 1 contact, 2 syncs at once, batches of 1, aborts | the pipeline is implemented, `ReadIsProcessed` and the other properties hold |
| `whatsapp_dedup` | one sync at a time, aborts | `NoDuplicates` **violated** |
| `gmail_shared` | 3 mails (one dated ahead, one without a date), 2 accounts, 2 syncs at once, 2 days, failures | `NothingSkipped`, `OneSyncPerMail`, `TokensOfOneAccount`, `DisconnectIsFinal` hold |
| `qr_channel` | 2 codes, room for 2 items, 1 notice | `QRStream` is implemented; `OneCloser`, `SilentEndExplained`, `StreamEnds`, `HangsUp` hold |
| `session_shared` | 2 clients, 2 QR flows of 2 codes, 2 drops, silent losses, logouts, refusals, failed connects or crashes (fewer once something excuses `RowTruthful`) | `RowTruthful`, `DisconnectHangsUp`, `FlowsAreStreams`, `LoginShown` hold |
| `session_qr` | 1 client, 2 codes, nothing goes wrong | `QRRenewed` **violated** |
| `dates` | 15 months of 2027 and 2028, 5 time zones, 4 recurrences, both drivers | `MonthlyDrift`, `NoneBetweenViews`, `WindowsNearlyRight` hold |
| `page_shared` | 2 tasks, 1 person, 3 loads, 1 request or batch, 1 change by others (then 2 loads), failures | `FilterShown`, `OwnChangesShown`, `SelectionListed`, `GroupedOnce`, `BusyTruthful` hold |

**Bounds.** `MaxTasks = 3` lets a chain reach an occurrence of an occurrence, the
first place where a root and a parent differ, and `Room` keeps free ids for the
`Done` requests already running. Two requests are as many as a race between
statements needs. `MaxDay = 1` lets a snooze move the due date away from the
one a completion counts from. `MaxSyncs = 2` covers a sync that overlaps another and
one that follows another that was cut short. With batches of 1 the two usable
messages make two batches. They differ by name only, so `Followed` calls the one that
Claude is asked about first m1; and it leaves out contacts that are removed while a sync
is under way, since no sync asks for contacts. Of the two `Items` one is in a category,
which can be deleted, and one in none; `Followed` has Claude find both in m1 at most, and
the first only in m2: two finds of one answer are interleaved with everything else in
m1. Symmetry is used on requests, and only in the run whose
properties are safety properties. `tasks_shared` leaves `owed` and `reopened` out of
the fingerprint by a VIEW: nothing in that run reads them. `tasks_solo` has at most one
one-off task in the table (`FewOneOffs`): a one-off has no chain, and the properties of
that run are about chains.

Gmail: with batches of 1, two mails of one account are two batches; two days and a
lookback of 1 put a mail before, on and after the watermark's day; two connects are a
second account, or a disconnect and a return. QR: two codes and room for two let the
emitter be overtaken before, between and after its codes, and let a reader lag. The
session's `MaxClients = 2` is a client and the one that replaced it; its two codes are
one before a final item and one that comes too late;
`MaxBusy = 2` lets two handlers write at once, which is the first time columns mix. Once
a behaviour is excused, `Followed` lets it go on with one code, one trouble and no second
flow: `RowTruthful` and `LoginShown` say nothing more of it, and `DisconnectHangsUp` and
`FlowsAreStreams`, which do, are proved without that limit.
Dates: chains start on the 30th and the 31st, the recurrences are 5 days, 2 weeks, and
1 and 13 months, and 15 months hold a leap February that 13 months lead to.
Page: three loads are the first, the one that a click under another filter asks for
and the one of the new filter; `Room` keeps load numbers for requests that run. Two tasks
make a batch that half fails. A constraint, `Followed`, follows a behaviour in
which others change something through two loads only (a change before, between or after
the two answers of each), and follows it, like one that begins with a person missing,
outside the batch mode: the batch's requests and the others touch the same rows, but
meet in the lists only. The proofs have no such limit. The date filter is not set in
that run (it only hides cards); the proofs allow it. The VIEW of `page_shared` merges
states that differ only in requests and loads that are over, which no step and no
property reads.

Runs have deadlock checking off: ids, syncs, loads and clients are bounded, and a server
with no request stands still.

**Fairness.** `Tasks`, `GmailSync`, `Dates` and `TasksPage` have none: what is
checked of them is safety. `WhatsAppSync` has weak fairness on each sync's own steps: a
request's goroutine goes on by itself, SQLite answers, and the HTTP client gives up
on Claude after 30 s. `QRChannel` has it on the emitter, on each event handler and on
the reader: goroutines that can go on do, and timers fire. `WhatsAppSession` has it on
the connects, on the emitters together and on the writers together, which is weaker
than on each. Users, phones, servers, the network and failures have no fairness.

**What the violations show.**
1. `tasks_driver`: `nextDate` accepts only `2006-01-02`, gets a timestamp, and its
   error is dropped, so that completing a chore creates no next one. The page
   already has the workaround for the same form (`lib/utils.ts:9`).
2. `tasks_two_clients`: `Done` does not look at the status that its UPDATE replaces.
   Two clients who press Done at the same time get two successors.
3. `whatsapp_dedup`: the WhatsApp sync never looks at `source_ref`. A request that
   is cancelled after an INSERT and before `MarkProcessed` leads to the message's tasks
   being made again by the next sync. `DuplicatesExplained`, which holds, says that this
   and two overlapping syncs are the only ways in which two syncs make tasks of one
   message. One sync may make several: it inserts every element of Claude's list.
4. `session_qr`: `WhatsAppConnect` hands the request's context to `GetQRChannel`
   (`integrations.go:118`) and answers at once, which ends that context. The emitter
   closes the channel after the first code, without an item: the row keeps status
   pending_qr and a code that expires, and no further code is ever shown, where
   `docs/design-whatsapp-integration.md:30` promises new ones.

Where a property that holds names an exception, the exception is something the code
does: two Gmail syncs that both counted a mail give it two tasks (`raced`, against
`docs/design-gmail-integration.md:16`); a page whose answers came out of order shows
another filter's tasks (`FilterShown`).

## Proofs

All for any number of tasks, people, categories, messages, contacts, requests, syncs,
mails, accounts, clients, codes, loads and for any calendar, from the named
assumptions on the constants and, for two theorems about `Tasks`, from the conditions
they state. The assumptions say that constants are of their kinds, that NULL and
Absent are no values, and two things more: `TodayAssumption` of `Dates`, that the
calendar goes on for a day around every date a browser may have, and `NullAssumption`
of `WhatsAppSession`, that NULL is not the record of columns that a goroutine has left
to write.

- `TasksProofs`. `TypeOK`, and with it `ForeignKeys` and `CompletionConsistent`, are
  inductive as they stand. `ChainShape` is not: `DoneInsert` copies a parent out of a
  row that was read earlier. `ChainInv` adds what makes this safe: `SnapshotsCurrent`
  (the place of the task in its chain has not changed since), `SnapshotIds` (only ids
  that were given out are in flight, so none can be inserted again under another
  identity) and `Origins` (a row whose origin exists has the root of that origin).
  `StepShape` reduces every action to three shapes: rows kept or removed with parent and
  type unchanged, one row added, or nothing. Preservation of `ChainInv` is then argued
  on these shapes. `IdentityIsKept` and `HistoryIsUnbroken` follow.
- `TasksProofs`, the next occurrence. `OneOpenOccurrence` and `NextOccurrenceCreated` are
  false of the code in general; the theorems say what they do need.
  `OneOccurrenceToDo` asks for requests that wait for one another (`OneAtATime`) and a
  page that is up to date, and for nothing else: aborts, drivers and every kind of
  date are allowed. `tasks_two_clients` drops only the first of the two. Its invariant
  adds `CompletesLast`: from its SELECT to its INSERT, the task that a Done request
  completes is the last one of its chain still to do. `NextOccurrenceFollows` asks for
  `OneAtATime`, no aborts and `DatesAsText`, and for any page; `tasks_driver` drops only
  what the driver does. It needs `AllDates` (every due date stored, sent or read can be
  parsed again), `CopiesCurrent` (nobody edits the task meanwhile, so the INSERT's foreign
  keys hold, `SuccessorFits`) and `OwedIds`. `RowStep` and `RequestsStep` say once what
  a step may do to a row and to a request.
- `TasksProofs`, the chore as a whole. `ChoresGoOn` proves `ChoreGoesOn` under the
  conditions of `NextOccurrenceFollows`: no step leaves a recurring chain without a task
  to do, or one about to be made, but a `Delete` in that chain or the completion of a
  task whose due date had been removed. It needs `Recurs` (a recurring task, or what a
  request read of one, says how often it recurs) and `CompletionHandsOn`: the UPDATE that
  completes a chore leaves its request at the INSERT.
- `WhatsAppSyncProofs`. `SyncInv` says that what a sync has read is buffered and what it
  no longer has to send was asked. With it each action is a step or a stutter of
  `MessagePipeline` (`PipelineStep`), which gives `ImplementsPipeline`. `WhitelistHeld`
  needs `WhitelistInv`: an event waits between the lookup of its sender and the INSERT,
  so the same must hold of the events on their way, and every contact is a JID that was
  whitelisted once. `DuplicatesExplained` needs `OrderInv` (a sync that may still make a
  task for a message has not marked it, and marks after its last batch) and
  `OneSyncInv`: a message that is not exposed is in the hands of one sync at most, and
  once a sync has made a task of it no other owes it one, and it is processed or still
  to be marked by that sync. `MarkedOnlyWhenStored` needs `OrderInv` and `FindsInv`:
  every find is still to be inserted, in the hands of the INSERT, or dealt with, by a
  row of its own. `SyncsAlwaysMoveOn` is the safety half of `ReadIsProcessed`: a message
  that was read and is not marked stays in its sync's hands until it is processed or
  exposed, and a step of a sync starts it, ends it or brings it closer to its end
  (`Closer`: first the batches not sent, then the finds not stored, then the messages
  not marked).
- `GmailSyncProofs`. `OneSyncPerMail` needs `Serial`: what a sync is about to insert it
  counted as new, and any two syncs that hold one mail have raced for it.
  `TokensOfOneAccount` needs `Tokens`: the syncs under way hold the row's account.
  `NothingSkipped` needs `Frontier`: the watermark, where each sync begins and every
  date it may stamp are no later than today, and what is behind them is settled or in
  the hands of a sync that settles it before it stamps. `DisconnectIsFinal` follows
  from the actions.
- `QRChannelProofs`. `OneCloser` is inductive with the types. `Ledger` adds that a final
  item is sent by the one closer and before it closes, that codes go up, and that an
  emitter about to send a code passed its check before any final item; with it each
  action is a step or a stutter of `QRStream` (`ImplementsStream`), and
  `SilentEndExplained` follows. `NeverUnattended` is the safety half of `StreamEnds` and
  `HangsUp`: once something was sent, an emitter or a handler is on the way to close the
  channel, and a socket that no event closed is left only to an emitter about to hang up.
  Its `AttendInv` says that whoever stops the emitter takes its place.
- `WhatsAppSessionProofs`. `DisconnectHangsUp` needs `StopInv`: a stopped client expects
  its disconnect and is past the three windows in which it would dial again.
  `FlowsAreStreams` reduces every action to what it may do to a channel (`Moved`) and
  needs `FlowInv` (one final item, one code after it) and `OffInv`.
- `SessionRowProofs`. `RowTruthful` speaks of quiet moments only, and what makes it true
  happens in the others. Until something excuses it, one goroutine `x` at most is under
  way, for the current client (`Sole`). So what the row *will* say is known:
  `StatusDue(x)` and `QRDue(x)`, the row with the columns `x` has left to write and,
  when `x` reads a QR channel, with those of the last item it has not read. `Wired`
  relates the client's connection, retry, device and channel to each other and `Good`
  relates the row's future to them (what is to say "connected" has a connection, one on
  its way, or a client that failed or is `lost`, which no later step of that client
  mends); `RowInv` says that they hold of some `x` or that `RowTruthful` is excused, and
  is inductive with `TodoOK`, `ReadOK`, `FlowInv` and `OffInv`. There is a lemma for
  each kind of step: a column is written, an event fires, the channel moves, a connect,
  a disconnect, a crash. Two more theorems read the same invariant at moments that are
  not quiet. `LoginsOnTheirWay` is the safety half of `LoginShown`: while a client is
  logged in the row says connected, or the one goroutine that is busy will make it say
  so. `CodesStayRenewable` bounds what `session_qr` finds: a code on offer has a channel
  that still sends or a reader with items in hand, unless a pairing was cut short by the
  end of its request or a crash, or `RowTruthful` is excused.
- `DatesProofs`. `StartOf`, the number of a month's first day, is recursive. The library's
  induction theorems take an operator, which the provers cannot instantiate, so
  `SetInduction` states induction for a *set* of numbers, from the well-foundedness of
  `<`; with it the recursion is shown to have a solution (`StartsExist`) and `Number`
  to be a bijection between dates and days that respects their order. On that rest
  `TypeOK` (every date the program computes is a date), `NextOccurrenceLater`, the
  two views (`NoneBetweenViews`) and the filters (`WindowsNearlyRight`, from what the
  browser's midnight is off by in each kind of zone). `MonthlyDrift` follows by cases on
  the day of the month.
- `TasksPageProofs`. `TypeOK` needs `LeftOK`: a request has nothing left to do but what
  its kind does. `LoadSteps` and `ActSteps` reduce every action to its shape.
  `FilterShown` needs `LoadInv` (loads are numbered as they are asked, and what one read
  passes its filter), `GroupedOnce` `PeopleInv` (a load that is not torn has the people
  its tasks name), `OwnChangesShown` `OwnInv`: a change that a list lacks is owed by a
  request that is still to ask for a load. `BusyTruthful` uses its numbering.

Only model-checked: `ReadIsProcessed`, `StreamEnds`, `HangsUp` and `LoginShown`, which
are liveness under fairness, and out of the prover's reach as ENABLED is. Of each the
theorems above prove what safety can say: that the goal is in somebody's hands until it
is reached. That those hands move on is what TLC checks. Every other property of a
passing run is a theorem. No module uses a RECURSIVE operator.

## Not modelled

- whatsmeow beyond what `QRChannel` and `WhatsAppSession` hold: its protocol,
  encryption, media, stores and the generated protobuf code. It is third-party code, and
  makes up more than nine tenths of the repository's lines, which is why the mapped share
  of them is small. The server's own concurrency does not depend on it.
- Settings: it polls and shows what the modelled parts store, and its requests are
  actions of `Tasks`, `WhatsAppSync`, `GmailSync` and `WhatsAppSession`.
- Layout, styling, dark mode, the texts of errors, `.env` and routes: no state that
  outlives a click or a start.
- The HTTP exchanges with Claude and Google, except their outcomes.
- `migrate` running again at each start: its statements are `IF NOT EXISTS` and
  `INSERT OR IGNORE`, and an `ALTER` whose failure is ignored.

## Plan

Done: `Tasks`; `WhatsAppSync` with its refinement; `GmailSync`; the QR channel and the
session; `Dates`; `TasksPage`; each with its proofs.

Left:
1. An abstract specification of the store, in which a completion and its successor are
   one step, implemented by `Tasks` under the conditions of `NextOccurrenceFollows`.
   `ChoreGoesOn` and `OneOpenOccurrence` say as much of single steps and states.
2. The hazards of `PROJECT.json` that no property covers; their notes say why.
