----------------------------- MODULE GmailSync -----------------------------
(***************************************************************************)
(* The Gmail integration: SyncGmail of backend/internal/handlers/sync.go,   *)
(* FetchEmails of backend/internal/gmail/client.go, and the integrations    *)
(* row that GmailCallback and GmailDisconnect (handlers/integrations.go)    *)
(* write.                                                                   *)
(*                                                                          *)
(* One action is one SQL statement, one fetch of the mailbox or one call of *)
(* Claude; anything may run between two of them, and a sync may be cut      *)
(* short. Time is counted in days, which is what the `after:' query of      *)
(* FetchEmails keeps of the watermark. Left out: last_synced_at and the     *)
(* sync_log, which no sync reads, the pages of the list, the order of the   *)
(* batches, and answers about a mail that was not asked.                    *)
(***************************************************************************)
EXTENDS Integers, FiniteSets

CONSTANTS
  Emails,      \* mails that may arrive
  Accounts,    \* Gmail accounts the user may connect
  Of,          \* the account each mail arrives in
  Skew,        \* days from a mail's arrival to its Date header; NULL: no parsable date
  Items,       \* tasks Claude may find in one mail
  BatchSize,   \* 20 in the code
  Lookback,    \* days the first sync looks back: 30 in the code
  Faults,      \* may fetches, calls and INSERTs fail, and syncs be cut short?
  MaxDay,      \* bound: days that pass
  MaxConnects, \* bound: times an account is connected
  MaxSyncs,    \* bound: POST /sync/gmail requests, numbered as they start
  NULL

ASSUME GmailAssumption ==
  /\ IsFiniteSet(Emails) /\ Of \in [Emails -> Accounts] /\ Skew \in [Emails -> Int \cup {NULL}]
  /\ BatchSize \in Nat \ {0} /\ Lookback \in Nat /\ Faults \in BOOLEAN
  /\ MaxDay \in Nat /\ MaxConnects \in Nat /\ MaxSyncs \in Nat /\ NULL \notin Int

VARIABLES
  day,       \* today, counted from 1
  arrived,   \* the day each mail arrived, 0 before
  row,       \* the gmail row of table integrations, or NULL
  tasks,     \* rows of table tasks with a mail as source_ref
  sync,      \* the locals of each request
  started,   \* syncs started so far
  connects,  \* bound: times an account was connected
  users,     \* history: accounts that were ever connected
  crossed,   \* history: an account was connected while a sync of another ran
  ahead,     \* history: a mail dated after the day of the fetch was fetched
  settled,   \* history: mails shown to Claude, or given up knowingly
  raced      \* history: mails that two syncs counted before either made a task

mailbox == <<day, arrived>>
connections == <<connects, users, crossed>>
vars == <<day, arrived, row, tasks, sync, started, connects, users,
          crossed, ahead, settled, raced>>

Integration == [access : Accounts, refresh : Accounts, mark : Int \cup {NULL}]
Find == [ref : Emails, item : Items]       \* an ExtractedTask
Syncs == 1..MaxSyncs
Row == [find : Find, by : Syncs]           \* a task, and the sync that made it

Refs == {t.find.ref : t \in tasks}

\* The Date headers of some mails, and the newest of them (updateSyncTimestamp).
Dated(mails) == {arrived[e] + Skew[e] : e \in {f \in mails : Skew[f] # NULL}}
Latest(mails) == {d \in Dated(mails) : \A x \in Dated(mails) : x <= d}

\* SyncGmail's locals. `fresh': the mails found to have no task; `unsent': those
\* of them not shown to Claude yet; `found': what is left of the last answer.
Idle == [step |-> "idle", account |-> NULL, refresh |-> NULL, since |-> 0,
         mails |-> {}, unchecked |-> {}, fresh |-> {}, unsent |-> {}, found |-> {}]
Active == {s \in Syncs : sync[s].step # "idle"}
Becomes(s, locals) == sync' = [sync EXCEPT ![s] = locals]

-----------------------------------------------------------------------------
(* The user and the mailbox.                                                *)

Arrive(e) ==
  /\ arrived[e] = 0
  /\ arrived' = [arrived EXCEPT ![e] = day]
  /\ UNCHANGED <<day, row, tasks, sync, started, connections, ahead, settled, raced>>

NextDay ==
  /\ day < MaxDay
  /\ day' = day + 1
  /\ UNCHANGED <<arrived, row, tasks, sync, started, connections, ahead, settled, raced>>

\* What the history keeps of connecting an account.
Connects(a) ==
  /\ connects < MaxConnects /\ connects' = connects + 1
  /\ users' = users \cup {a}
  /\ crossed' = (crossed \/ \E s \in Active : sync[s].refresh # a)

\* Mutant: the update of an existing row leaves its access token alone.
GmailCallbackKeepingToken(a) ==
  /\ row' = IF row = NULL THEN [access |-> a, refresh |-> a, mark |-> NULL]
                          ELSE [row EXCEPT !.refresh = a]
  /\ Connects(a)
  /\ UNCHANGED <<mailbox, tasks, sync, started, ahead, settled, raced>>

\* Mutant: consent given again brings no refresh token, and none is kept.
GmailCallbackNoRefresh(a) ==
  /\ row' = IF row = NULL THEN [access |-> a, refresh |-> a, mark |-> NULL]
                          ELSE [row EXCEPT !.access = a, !.refresh = NULL]
  /\ Connects(a)
  /\ UNCHANGED <<mailbox, tasks, sync, started, ahead, settled, raced>>

\* GmailCallback: INSERT ... ON CONFLICT DO UPDATE of the tokens; an existing row
\* keeps its last_message_date, whoever's it is.
GmailCallback(a) ==
  /\ row' = IF row = NULL THEN [access |-> a, refresh |-> a, mark |-> NULL]
                          ELSE [row EXCEPT !.access = a, !.refresh = a]
  /\ Connects(a)
  /\ UNCHANGED <<mailbox, tasks, sync, started, ahead, settled, raced>>

GmailDisconnect ==
  /\ row # NULL
  /\ row' = NULL
  /\ UNCHANGED <<mailbox, tasks, sync, started, connections, ahead, settled, raced>>

\* DELETE /tasks/{id}.
DeleteTask(t) ==
  /\ t \in tasks
  /\ tasks' = tasks \ {t}
  /\ UNCHANGED <<mailbox, row, sync, started, connections, ahead, settled, raced>>

-----------------------------------------------------------------------------
(* SyncGmail.                                                               *)

\* Where the fetch begins: the watermark, or Lookback days ago without one.
Since == IF row.mark = NULL THEN day - Lookback ELSE row.mark

\* The row is loaded. Mails from before the first lookback are never read.
SyncStart(s) ==
  /\ s = started + 1
  /\ row # NULL
  /\ Becomes(s, [Idle EXCEPT !.step = "fetch", !.account = row.access,
                             !.refresh = row.refresh, !.since = Since])
  /\ started' = s
  /\ settled' = settled \cup {e \in Emails : row.mark = NULL /\ arrived[e] \in 1..(Since - 1)}
  /\ UNCHANGED <<mailbox, row, tasks, connections, ahead, raced>>

\* Mutant: the query takes only the days after the watermark's.
ListedLater(account, since) ==
  {e \in Emails : arrived[e] > 0 /\ Of[e] = account /\ arrived[e] > since}

\* What `after:' lists: the mails of the account, from the day on.
Listed(account, since) ==
  {e \in Emails : arrived[e] > 0 /\ Of[e] = account /\ arrived[e] >= since}

\* FetchEmails. An expired access token is replaced by one for the refresh token;
\* a message that cannot be fetched is passed over.
Fetch(s) ==
  /\ sync[s].step = "fetch"
  /\ \E renewed \in BOOLEAN :
       LET account == IF renewed THEN sync[s].refresh ELSE sync[s].account
           listed == Listed(account, sync[s].since)
       IN \E failed \in IF Faults THEN SUBSET listed ELSE {{}} :
            LET mails == listed \ failed
            IN /\ Becomes(s, [sync[s] EXCEPT !.step = IF renewed THEN "token" ELSE "work",
                                !.account = account, !.mails = mails, !.unchecked = mails])
               /\ ahead' = (ahead \/ \E d \in Dated(mails) : d > day)
               /\ settled' = settled \cup failed
  /\ UNCHANGED <<mailbox, row, tasks, started, connections, raced>>

\* UPDATE integrations SET access_token, on whatever row is there now.
SaveToken(s) ==
  /\ sync[s].step = "token"
  /\ row' = IF row = NULL THEN NULL ELSE [row EXCEPT !.access = sync[s].account]
  /\ Becomes(s, [sync[s] EXCEPT !.step = "work"])
  /\ UNCHANGED <<mailbox, tasks, started, connections, ahead, settled, raced>>

\* Mutant: the tasks of a mail are not counted.
CountNothing(s, e) ==
  /\ sync[s].step = "work" /\ e \in sync[s].unchecked
  /\ Becomes(s, [sync[s] EXCEPT !.unchecked = @ \ {e}, !.fresh = @ \cup {e}, !.unsent = @ \cup {e}])
  /\ raced' = raced \cup {f \in {e} : \E a \in Syncs \ {s} : f \in sync[a].fresh}
  /\ UNCHANGED <<mailbox, row, tasks, started, connections, ahead, settled>>

\* SELECT COUNT(*) FROM tasks WHERE source_ref = ?
Count(s, e) ==
  /\ sync[s].step = "work" /\ e \in sync[s].unchecked
  /\ IF e \in Refs
       THEN /\ Becomes(s, [sync[s] EXCEPT !.unchecked = @ \ {e}])
            /\ UNCHANGED raced
       ELSE /\ Becomes(s, [sync[s] EXCEPT !.unchecked = @ \ {e}, !.fresh = @ \cup {e},
                                          !.unsent = @ \cup {e}])
            /\ raced' = raced \cup {f \in {e} : \E a \in Syncs \ {s} : f \in sync[a].fresh}
  /\ UNCHANGED <<mailbox, row, tasks, started, connections, ahead, settled>>

Counted(s) == sync[s].step = "work" /\ sync[s].unchecked = {}

Batches(unsent) ==
  {b \in SUBSET unsent :
     Cardinality(b) = IF Cardinality(unsent) < BatchSize THEN Cardinality(unsent) ELSE BatchSize}

\* ExtractTasks on the next batch.
Extract(s) ==
  /\ Counted(s) /\ sync[s].found = {} /\ sync[s].unsent # {}
  /\ \E batch \in Batches(sync[s].unsent), answer \in SUBSET Find :
       /\ \A t \in answer : t.ref \in batch
       /\ Becomes(s, [sync[s] EXCEPT !.unsent = @ \ batch, !.found = answer])
       /\ settled' = settled \cup batch
  /\ UNCHANGED <<mailbox, row, tasks, started, connections, ahead, raced>>

\* The call fails, or its answer is no JSON: the loop goes on with the next batch.
ExtractFails(s) ==
  /\ Faults
  /\ Counted(s) /\ sync[s].found = {} /\ sync[s].unsent # {}
  /\ \E batch \in Batches(sync[s].unsent) :
       /\ Becomes(s, [sync[s] EXCEPT !.unsent = @ \ batch])
       /\ settled' = settled \cup batch
  /\ UNCHANGED <<mailbox, row, tasks, started, connections, ahead, raced>>

\* INSERT INTO tasks; a failure is passed over.
InsertTask(s) ==
  /\ \E t \in sync[s].found :
       /\ \E stored \in IF Faults THEN BOOLEAN ELSE {TRUE} :
            tasks' = IF stored THEN tasks \cup {[find |-> t, by |-> s]} ELSE tasks
       /\ Becomes(s, [sync[s] EXCEPT !.found = @ \ {t}])
  /\ UNCHANGED <<mailbox, row, started, connections, ahead, settled, raced>>

Extracted(s) == Counted(s) /\ sync[s].unsent = {} /\ sync[s].found = {}

\* Mutant: the row is written whether or not it is still there.
StampUpserting(s) ==
  /\ Extracted(s)
  /\ \E d \in Latest(sync[s].mails) :
       row' = [access |-> sync[s].account, refresh |-> sync[s].refresh, mark |-> d]
  /\ Becomes(s, Idle)
  /\ UNCHANGED <<mailbox, tasks, started, connections, ahead, settled, raced>>

\* updateSyncTimestamp, on whatever row is there now: the newest Date header of
\* ALL mails that were fetched, those with a task and of failed batches included.
Stamp(s) ==
  /\ Extracted(s)
  /\ IF row = NULL \/ Dated(sync[s].mails) = {}
       THEN UNCHANGED row
       ELSE \E d \in Latest(sync[s].mails) : row' = [row EXCEPT !.mark = d]
  /\ Becomes(s, Idle)
  /\ UNCHANGED <<mailbox, tasks, started, connections, ahead, settled, raced>>

\* Listing the mails fails, the client goes away, the proxy times out, or the
\* process dies.
Abort(s) ==
  /\ Faults /\ s \in Active
  /\ Becomes(s, Idle)
  /\ UNCHANGED <<mailbox, row, tasks, started, connections, ahead, settled, raced>>

-----------------------------------------------------------------------------
Init ==
  /\ day = 1
  /\ arrived = [e \in Emails |-> 0]
  /\ row = NULL
  /\ tasks = {} /\ sync = [s \in Syncs |-> Idle] /\ started = 0
  /\ connects = 0 /\ users = {} /\ crossed = FALSE /\ ahead = FALSE
  /\ settled = {} /\ raced = {}

Next ==
  \/ NextDay \/ GmailDisconnect
  \/ \E e \in Emails : Arrive(e)
  \/ \E a \in Accounts : GmailCallback(a)
  \/ \E t \in tasks : DeleteTask(t)
  \/ \E s \in Syncs :
       \/ SyncStart(s) \/ Fetch(s) \/ SaveToken(s)
       \/ \E e \in Emails : Count(s, e)
       \/ Extract(s) \/ ExtractFails(s) \/ InsertTask(s) \/ Stamp(s) \/ Abort(s)

Spec == Init /\ [][Next]_vars

-----------------------------------------------------------------------------
(* Properties.                                                              *)

Request == [step : {"idle", "fetch", "token", "work"},
            account : Accounts \cup {NULL}, refresh : Accounts \cup {NULL}, since : Int,
            mails : SUBSET Emails, unchecked : SUBSET Emails, fresh : SUBSET Emails,
            unsent : SUBSET Emails, found : SUBSET Find]

\* Every variable holds values of its kind; a row has both its tokens.
TypeOK ==
  /\ day \in Nat \ {0} /\ arrived \in [Emails -> Nat]
  /\ row \in Integration \cup {NULL}
  /\ tasks \subseteq Row
  /\ sync \in [Syncs -> Request]
  /\ \A s \in Active : sync[s].account \in Accounts /\ sync[s].refresh \in Accounts
  /\ started \in 0..MaxSyncs
  /\ connects \in 0..MaxConnects /\ users \subseteq Accounts
  /\ crossed \in BOOLEAN /\ ahead \in BOOLEAN
  /\ settled \subseteq Emails /\ raced \subseteq Emails

\* No mail is lost in silence: one from before the watermark, which no later sync
\* will list, was shown to Claude, or the code gave it up knowingly: it could not be
\* fetched, its batch failed, or it is from before the first lookback. This
\* needs Date headers that are not ahead of the fetch, and a single account.
NothingSkipped ==
  row # NULL /\ ~ahead =>
    \A e \in Emails :
      /\ users = {Of[e]} /\ row.mark # NULL
      /\ arrived[e] > 0 /\ arrived[e] < row.mark
      => e \in settled

\* "source_ref (email message ID) already in tasks -> skip": the tasks of a mail
\* come from one sync, unless two counted it before either had inserted one. (The
\* design document has no such exception.)
OneSyncPerMail ==
  \A t, u \in tasks : t.find.ref = u.find.ref /\ t.by # u.by => t.find.ref \in raced

\* The row's two tokens belong to one account, unless another account was
\* connected while a sync ran, whose refreshed token then lands in its row.
TokensOfOneAccount == row # NULL /\ row.access # row.refresh => crossed

\* A sync that outlives a disconnect does not undo it: only GmailCallback brings
\* the row back, and with no watermark.
DisconnectIsFinal ==
  [][row = NULL /\ row' # NULL => row'.mark = NULL /\ sync' = sync]_vars
=============================================================================
