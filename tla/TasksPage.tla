----------------------------- MODULE TasksPage -----------------------------
(***************************************************************************)
(* The tasks page: frontend/src/pages/Tasks.tsx, with the requests that      *)
(* TaskCard, TaskForm and SyncButton send before they have it load again,    *)
(* over the server's lists of tasks and people, which others change too.     *)
(*                                                                          *)
(* A load asks for two lists at once, and the server answers each when it    *)
(* likes. A click is handled with the state of the page as it was rendered:  *)
(* the load that follows a request is that of the filter at the click. The   *)
(* status filter stands for the category filter as well, which goes the same *)
(* way; the list of categories, the contents of a task, the successor of one *)
(* that is done, and the texts of errors are left out. The page is made anew *)
(* when the user comes back from Settings, which is Init.                   *)
(***************************************************************************)
EXTENDS Naturals, FiniteSets

CONSTANTS
  MaxId,       \* bound: tasks that ever exist
  Persons,
  Name,        \* of each person; nothing keeps two from sharing one
  Later,       \* tasks that are due after the end of the date filter
  Filters,     \* values of the status filter that are used
  Windows,     \* whether a date filter is set: those used
  Faults,      \* may requests fail?
  MaxLoads,    \* bound: loads, numbered as they are asked
  MaxActs,     \* bound: requests that change something, numbered likewise
  MaxChanges,  \* bound: changes that others make
  NULL

Statuses == {"pending", "done", "snoozed"}

ASSUME PageAssumption ==
  /\ MaxId \in Nat /\ Later \subseteq 1..MaxId /\ NULL \notin Persons \cup Nat
  /\ Filters \subseteq Statuses \cup {"all"} /\ "pending" \in Filters
  /\ Windows \subseteq BOOLEAN
  /\ Faults \in BOOLEAN
  /\ MaxLoads \in Nat \ {0} /\ MaxActs \in Nat /\ MaxChanges \in Nat

VARIABLES
  rows, lastId,   \* table tasks, and its AUTOINCREMENT counter
  people,         \* table people
  changes,        \* bound: changes by others so far
  filter, window, \* filterStatus; is a date filter set?
  tasks, known,   \* the lists as loaded
  loading, error, \* is Loading... shown? is an error?
  batch,          \* batchMode
  selected,       \* selectedIds
  confirm,        \* showDeleteConfirm
  deleting,       \* batchDeleting
  form,           \* the open form: the task edited, 0 for a new one, NULL for none
  saving,         \* the request that this form waits for, 0 for none
  load, asked,    \* the loads, and how many there were
  act, acted,     \* the requests that change something, and how many there were
  last,           \* history: the load that ended last
  torn,           \* history: people changed between the two answers now shown
  unseen,         \* history: tasks this page changed after they were read for its list
  lapsed          \* history: tasks changed by a request that failed, so that no load followed

server == <<rows, lastId, people, changes>>
lists == <<tasks, known, torn, unseen, lapsed>>
selection == <<batch, selected, confirm>>
dialog == <<form, saving>>
vars == <<server, filter, window, lists, loading, error, selection, deleting, dialog,
          load, asked, act, acted, last>>

Ids == 1..MaxId
Row == [status : Statuses, who : Persons \cup {NULL}]
Loads == 1..MaxLoads
Acts == 1..MaxActs

\* A part of a list, and a list with one row written.
Kept(list, ids) == [i \in DOMAIN list \cap ids |-> list[i]]
With(list, i, row) == [j \in DOMAIN list \cup {i} |-> IF j = i THEN row ELSE list[j]]

Open == {l \in Loads : load[l].step = "open"}
Running == {a \in Acts : act[a].step = "sent" \/ act[a].left # {}}

-----------------------------------------------------------------------------
(* What the page shows.                                                     *)

\* Mutant: there is a heading for each person, and none for Unassigned.
SectionsOfPeople(i) == {p \in known : tasks[i].who # NULL /\ Name[p] = Name[tasks[i].who]}

\* The headings under which a task appears: those of people with the assignee's
\* name, or Unassigned.
Sections(i) ==
  IF tasks[i].who = NULL THEN {NULL} ELSE {p \in known : Name[p] = Name[tasks[i].who]}

InWindow(i) == ~window \/ i \notin Later

\* No dialog covers the page.
Uncovered == ~confirm /\ form = NULL

\* A card that can be clicked; while it loads the page shows none.
Card(i) ==
  Uncovered /\ ~loading /\ i \in DOMAIN tasks /\ InWindow(i) /\ Sections(i) # {}

-----------------------------------------------------------------------------
(* Loading.                                                                 *)

NewLoad == [step |-> "none", filter |-> NULL, tasks |-> NULL, people |-> NULL,
            torn |-> FALSE, missed |-> {}, stale |-> FALSE]

\* Every request that is under way may still ask for a load.
Room == asked + Cardinality(Running) < MaxLoads

\* load(): the call of the page's function for filter f, with filter `set' chosen.
Asks(f, set) ==
  /\ asked < MaxLoads /\ asked' = asked + 1
  /\ load' = [load EXCEPT ![asked + 1] = [NewLoad EXCEPT !.step = "open", !.filter = f,
                                                               !.stale = (f # set)]]
  /\ loading' = TRUE /\ error' = FALSE

\* Mutant: the effect depends on nothing, so that a new filter loads nothing.
ChooseIdle(f, w) ==
  /\ Uncovered
  /\ filter' = f /\ window' = w /\ Room
  /\ UNCHANGED <<load, asked, loading, error>>
  /\ UNCHANGED <<server, lists, selection, deleting, dialog, act, acted, last>>

\* The two dropdowns and Clear. The effect loads again for a new status filter; the
\* date filter only hides.
Choose(f, w) ==
  /\ Uncovered
  /\ filter' = f /\ window' = w
  /\ IF f = filter THEN UNCHANGED <<load, asked, loading, error>> ELSE Room /\ Asks(f, f)
  /\ UNCHANGED <<server, lists, selection, deleting, dialog, act, acted, last>>

\* The server reads the tasks of the filter ...
ReadTasks(l) ==
  /\ l \in Open /\ load[l].tasks = NULL
  /\ LET f == load[l].filter
     IN load' = [load EXCEPT ![l].tasks =
                   Kept(rows, {i \in DOMAIN rows : f = "all" \/ rows[i].status = f})]
  /\ UNCHANGED <<server, filter, window, lists, loading, error, selection, deleting, dialog,
                 asked, act, acted, last>>

\* ... and the people.
ReadPeople(l) ==
  /\ l \in Open /\ load[l].people = NULL
  /\ load' = [load EXCEPT ![l].people = people]
  /\ UNCHANGED <<server, filter, window, lists, loading, error, selection, deleting, dialog,
                 asked, act, acted, last>>

Ended(l) ==
  /\ load' = [load EXCEPT ![l] = [NewLoad EXCEPT !.step = "over", !.filter = load[l].filter,
                                             !.stale = load[l].stale]]
  /\ last' = l /\ loading' = FALSE

Shows(l) ==
  /\ l \in Open /\ load[l].tasks # NULL /\ load[l].people # NULL
  /\ tasks' = load[l].tasks /\ known' = load[l].people
  /\ torn' = load[l].torn
  /\ unseen' = load[l].missed /\ UNCHANGED lapsed

\* Mutant: the selection survives the list it was made from.
LoadedKeeping(l) ==
  /\ Shows(l) /\ Ended(l)
  /\ UNCHANGED <<server, filter, window, error, selection, deleting, dialog, asked, act, acted>>

\* Both answers are there. Whichever load this is, its lists become the page's.
Loaded(l) ==
  /\ Shows(l) /\ Ended(l)
  /\ selected' = {}
  /\ UNCHANGED <<server, filter, window, error, batch, confirm, deleting, dialog, asked, act, acted>>

\* Mutant: loading is not taken back when a load fails.
LoadFailsHanging(l) ==
  /\ Faults /\ l \in Open
  /\ error' = TRUE /\ load' = [load EXCEPT ![l].step = "over"] /\ last' = l
  /\ UNCHANGED <<server, filter, window, lists, loading, selection, deleting, dialog, asked, act, acted>>

\* One of its requests fails, and Promise.all with it: the lists stay.
LoadFails(l) ==
  /\ Faults /\ l \in Open
  /\ Ended(l) /\ error' = TRUE
  /\ UNCHANGED <<server, filter, window, lists, selection, deleting, dialog, asked, act, acted>>

-----------------------------------------------------------------------------
(* The selection.                                                           *)

\* The box that shows on hovering over a card.
EnterBatch(i) ==
  /\ ~batch /\ Card(i) /\ tasks[i].status # "done"
  /\ batch' = TRUE /\ selected' = {i}
  /\ UNCHANGED <<server, filter, window, lists, loading, error, confirm, deleting, dialog,
                 load, asked, act, acted, last>>

ToggleSelect(i) ==
  /\ batch /\ Card(i)
  /\ selected' = IF i \in selected THEN selected \ {i} ELSE selected \cup {i}
  /\ batch' = (selected' # {})
  /\ UNCHANGED <<server, filter, window, lists, loading, error, confirm, deleting, dialog,
                 load, asked, act, acted, last>>

\* Of all tasks that were loaded, whether the date filter hides them or not; the
\* bar stays in place while the page loads.
ToggleSelectAll ==
  /\ batch /\ Uncovered
  /\ selected' = IF Cardinality(selected) = Cardinality(DOMAIN tasks) THEN {} ELSE DOMAIN tasks
  /\ UNCHANGED <<server, filter, window, lists, loading, error, batch, confirm, deleting, dialog,
                 load, asked, act, acted, last>>

CancelBatch ==
  /\ batch /\ Uncovered
  /\ batch' = FALSE /\ selected' = {}
  /\ UNCHANGED <<server, filter, window, lists, loading, error, confirm, deleting, dialog,
                 load, asked, act, acted, last>>

AskConfirm ==
  /\ batch /\ Uncovered /\ ~deleting /\ selected # {}
  /\ confirm' = TRUE
  /\ UNCHANGED <<server, filter, window, lists, loading, error, batch, selected, deleting, dialog,
                 load, asked, act, acted, last>>

CloseConfirm ==
  /\ confirm /\ confirm' = FALSE
  /\ UNCHANGED <<server, filter, window, lists, loading, error, batch, selected, deleting, dialog,
                 load, asked, act, acted, last>>

-----------------------------------------------------------------------------
(* Requests that change something: `left' are the tasks the server has yet to *)
(* change, `done' those it changed; task 0 is the one that it will create.    *)

NewAct == [step |-> "none", left |-> {}, done |-> {}, to |-> NULL, who |-> NULL, filter |-> NULL,
           batch |-> FALSE, failed |-> FALSE]

Sends(left, to, who, isBatch) ==
  /\ acted < MaxActs /\ acted' = acted + 1 /\ Room
  /\ act' = [act EXCEPT ![acted + 1] =
               [NewAct EXCEPT !.step = "sent", !.left = left, !.to = to, !.who = who,
                              !.filter = filter, !.batch = isBatch]]

\* The buttons that a card offers for the status it shows; in batch mode its box
\* takes the place of Done.
Offered(status) ==
  CASE status = "pending" -> {"snoozed", "gone"} \cup IF batch THEN {} ELSE {"done"}
    [] status = "snoozed" -> {"gone"} \cup IF batch THEN {} ELSE {"done"}
    [] status = "done" -> {"pending", "gone"}

\* handleDone, handleSnooze, handleReopen, handleDelete.
Click(i) ==
  /\ Card(i)
  /\ \E to \in Offered(tasks[i].status) : Sends({i}, to, NULL, FALSE)
  /\ UNCHANGED <<server, filter, window, lists, loading, error, selection, deleting, dialog,
                 load, asked, last>>

\* Add task, or Edit on a card.
OpenForm(i) ==
  /\ Uncovered /\ (i = 0 \/ (Card(i) /\ tasks[i].status # "done"))
  /\ form' = i
  /\ UNCHANGED <<server, filter, window, lists, loading, error, selection, deleting, saving,
                 load, asked, act, acted, last>>

\* Cancel or Escape, before it is answered too.
CloseForm ==
  /\ form # NULL
  /\ form' = NULL /\ saving' = 0
  /\ UNCHANGED <<server, filter, window, lists, loading, error, selection, deleting,
                 load, asked, act, acted, last>>

\* submit. The people the form offers are those last loaded (that one chosen before
\* may be gone from them is left out); no assignee is sent as no field.
Submit(who) ==
  /\ form # NULL /\ saving = 0 /\ who \in known \cup {NULL}
  /\ Sends({form}, "saved", who, FALSE) /\ saving' = acted + 1
  /\ UNCHANGED <<server, filter, window, lists, loading, error, selection, deleting, form,
                 load, asked, last>>

\* handleSync, one at a time: what a sync changes is for others' changes to say.
Sync ==
  /\ Uncovered /\ \A a \in Acts : act[a].to = "sync" => act[a].step = "over"
  /\ Sends({}, "sync", NULL, FALSE)
  /\ UNCHANGED <<server, filter, window, lists, loading, error, selection, deleting, dialog,
                 load, asked, last>>

\* confirmBatchDelete: one request for each selected task.
ConfirmBatchDelete ==
  /\ confirm /\ confirm' = FALSE
  /\ deleting' = TRUE
  /\ Sends(selected, "gone", NULL, TRUE)
  /\ UNCHANGED <<server, filter, window, lists, loading, error, batch, selected, dialog,
                 load, asked, last>>

\* The row the server makes of row i for request a.
Written(a, i) ==
  IF act[a].to = "saved"
  THEN IF i \notin DOMAIN rows THEN [status |-> "pending", who |-> act[a].who]
       ELSE IF act[a].who = NULL THEN rows[i] ELSE [rows[i] EXCEPT !.who = act[a].who]
  ELSE [rows[i] EXCEPT !.status = act[a].to]

\* The server answers 404 or an error: no such task, or no such person.
Refusable(a, i) ==
  \/ i # 0 /\ i \notin DOMAIN rows /\ act[a].to # "gone"
  \/ act[a].who \notin people \cup {NULL}

\* The server makes the change; the answer gets through, or it does not.
Serve(a, i) ==
  /\ i \in act[a].left /\ ~Refusable(a, i)
  /\ LET j == IF i = 0 THEN lastId + 1 ELSE i
     IN /\ j \in Ids
        /\ rows' = IF act[a].to = "gone" THEN Kept(rows, Ids \ {j}) ELSE With(rows, j, Written(a, j))
        /\ lastId' = IF i = 0 THEN j ELSE lastId
        /\ \E lost \in IF Faults THEN BOOLEAN ELSE {FALSE} :
             act' = [act EXCEPT ![a].left = @ \ {i}, ![a].done = @ \cup {j},
                                ![a].failed = @ \/ lost]
        /\ unseen' = unseen \cup {j}
        /\ lapsed' = IF act[a].step = "over" THEN lapsed \cup {j} ELSE lapsed \ {j}
        /\ load' = [l \in Loads |-> IF l \in Open /\ load[l].tasks # NULL
                                    THEN [load[l] EXCEPT !.missed = @ \cup {j}] ELSE load[l]]
  /\ UNCHANGED <<people, changes, filter, window, tasks, known, torn, loading, error, selection,
                 deleting, dialog, asked, acted, last>>

Refuse(a, i) ==
  /\ i \in act[a].left /\ (Faults \/ Refusable(a, i))
  /\ act' = [act EXCEPT ![a].left = @ \ {i}, ![a].failed = TRUE]
  /\ UNCHANGED <<server, filter, window, lists, loading, error, selection, deleting, dialog,
                 load, asked, acted, last>>

\* Mutant: a batch does not load again.
AnswerBare(a) ==
  /\ act[a].step = "sent" /\ act[a].left = {} /\ ~act[a].failed
  /\ IF act[a].batch THEN UNCHANGED <<load, asked, loading, error>> ELSE Asks(act[a].filter, filter)
  /\ act' = [act EXCEPT ![a].step = "over"]
  /\ deleting' = (deleting /\ ~act[a].batch)
  /\ IF act[a].to = "saved" THEN form' = NULL /\ saving' = 0 ELSE UNCHANGED dialog
  /\ UNCHANGED <<server, filter, window, lists, selection, acted, last>>

\* All is answered: onRefresh, onDone, onSynced or load, of the render that had the
\* click. onDone closes the form, and should this be another one by now, that.
Answer(a) ==
  /\ act[a].step = "sent" /\ act[a].left = {} /\ ~act[a].failed
  /\ Asks(act[a].filter, filter)
  /\ act' = [act EXCEPT ![a].step = "over"]
  /\ deleting' = (deleting /\ ~act[a].batch)
  /\ IF act[a].to = "saved" THEN form' = NULL /\ saving' = 0 ELSE UNCHANGED dialog
  /\ UNCHANGED <<server, filter, window, lists, selection, acted, last>>

\* A request failed: nothing is loaded, and the rest of its batch goes on unseen.
GiveUp(a) ==
  /\ act[a].step = "sent" /\ (act[a].failed \/ (Faults /\ act[a].to = "sync"))
  /\ saving' = IF saving = a THEN 0 ELSE saving
  /\ act' = [act EXCEPT ![a].step = "over"]
  /\ lapsed' = lapsed \cup act[a].done
  /\ deleting' = (deleting /\ ~act[a].batch)
  /\ UNCHANGED <<server, filter, window, tasks, known, torn, unseen, loading, error, selection,
                 form, load, asked, acted, last>>

-----------------------------------------------------------------------------
(* Other clients and the syncs.                                             *)

Changes == changes < MaxChanges /\ changes' = changes + 1

\* A new task is pending; of one that exists a request changes the status, or the
\* assignee, whom it cannot take away.
OthersWrite(i, row) ==
  \/ i \notin DOMAIN rows /\ row.status = "pending"
  \/ i \in DOMAIN rows /\ row.who = rows[i].who
  \/ i \in DOMAIN rows /\ row.status = rows[i].status /\ row.who # NULL

OthersChange(i) ==
  /\ Changes
  /\ \/ /\ \E row \in Row :
             /\ row.who \in people \cup {NULL} /\ OthersWrite(i, row)
             /\ rows' = With(rows, i, row)
        /\ i \in DOMAIN rows \/ i = lastId + 1
        /\ lastId' = IF i > lastId THEN i ELSE lastId
     \/ i \in DOMAIN rows /\ rows' = Kept(rows, Ids \ {i}) /\ UNCHANGED lastId
  /\ UNCHANGED <<people, filter, window, lists, loading, error, selection, deleting, dialog,
                 load, asked, act, acted, last>>

\* Mutant: a person goes whoever's tasks are left.
PeopleChangeAnyhow(p) ==
  /\ Changes
  /\ people' = (people \ {p}) \cup ({p} \ people)
  /\ load' = [l \in Loads |-> IF l \in Open /\ (load[l].tasks = NULL) # (load[l].people = NULL)
                              THEN [load[l] EXCEPT !.torn = TRUE] ELSE load[l]]
  /\ UNCHANGED <<rows, lastId, filter, window, lists, loading, error, selection, deleting, dialog,
                 asked, act, acted, last>>

\* A person is added, or removed when no task refers to them.
PeopleChange(p) ==
  /\ Changes
  /\ IF p \in people
       THEN /\ \A i \in DOMAIN rows : rows[i].who # p
            /\ people' = people \ {p}
       ELSE people' = people \cup {p}
  /\ load' = [l \in Loads |-> IF l \in Open /\ (load[l].tasks = NULL) # (load[l].people = NULL)
                              THEN [load[l] EXCEPT !.torn = TRUE] ELSE load[l]]
  /\ UNCHANGED <<rows, lastId, filter, window, lists, loading, error, selection, deleting, dialog,
                 asked, act, acted, last>>

-----------------------------------------------------------------------------
Init ==
  /\ people \in SUBSET Persons /\ changes = 0
  /\ lastId \in 0..MaxId /\ rows \in [1..lastId -> [status : {"pending"}, who : people \cup {NULL}]]
  /\ filter = "pending" /\ window = FALSE
  /\ tasks = Kept(rows, {}) /\ known = {} /\ torn = FALSE /\ unseen = {} /\ lapsed = {}
  /\ loading = TRUE /\ error = FALSE
  /\ batch = FALSE /\ selected = {} /\ confirm = FALSE /\ deleting = FALSE
  /\ form = NULL /\ saving = 0
  /\ load = [l \in Loads |-> IF l = 1 THEN [NewLoad EXCEPT !.step = "open", !.filter = "pending"]
                                      ELSE NewLoad]
  /\ asked = 1 /\ last = 0
  /\ act = [a \in Acts |-> NewAct] /\ acted = 0

Loading(l) == ReadTasks(l) \/ ReadPeople(l) \/ Loaded(l) \/ LoadFails(l)

Requesting(a) ==
  \/ \E i \in Ids \cup {0} : Serve(a, i) \/ Refuse(a, i)
  \/ Answer(a) \/ GiveUp(a)

User ==
  \/ \E f \in Filters, w \in Windows : Choose(f, w)
  \/ \E i \in Ids : EnterBatch(i) \/ ToggleSelect(i) \/ Click(i)
  \/ \E i \in Ids \cup {0} : OpenForm(i)
  \/ \E who \in Persons \cup {NULL} : Submit(who)
  \/ CloseForm
  \/ ToggleSelectAll \/ CancelBatch \/ AskConfirm \/ CloseConfirm \/ ConfirmBatchDelete
  \/ Sync

Next ==
  \/ User
  \/ \E l \in Loads : Loading(l)
  \/ \E a \in Acts : Requesting(a)
  \/ \E i \in Ids : OthersChange(i)
  \/ \E p \in Persons : PeopleChange(p)

Spec == Init /\ [][Next]_vars

-----------------------------------------------------------------------------
(* Properties.                                                              *)

Lists == UNION {[ids -> Row] : ids \in SUBSET Ids}

\* Every variable holds values of its kind; every row refers to a person there is.
TypeOK ==
  /\ lastId \in 0..MaxId
  /\ rows \in UNION {[ids -> Row] : ids \in SUBSET (1..lastId)}
  /\ people \subseteq Persons /\ changes \in 0..MaxChanges
  /\ \A i \in DOMAIN rows : rows[i].who \in people \cup {NULL}
  /\ filter \in Filters /\ window \in BOOLEAN
  /\ tasks \in Lists /\ known \subseteq Persons /\ torn \in BOOLEAN
  /\ unseen \subseteq Ids /\ lapsed \subseteq Ids
  /\ loading \in BOOLEAN /\ error \in BOOLEAN
  /\ batch \in BOOLEAN /\ selected \subseteq Ids /\ confirm \in BOOLEAN /\ deleting \in BOOLEAN
  /\ form \in Ids \cup {0, NULL} /\ saving \in 0..MaxActs
  /\ asked \in Loads /\ acted \in 0..MaxActs /\ last \in 0..MaxLoads
  /\ load \in [Loads -> [step : {"none", "open", "over"}, filter : Filters \cup {NULL},
                         tasks : Lists \cup {NULL}, people : (SUBSET Persons) \cup {NULL},
                         torn : BOOLEAN, missed : SUBSET Ids, stale : BOOLEAN]]
  /\ act \in [Acts -> [step : {"none", "sent", "over"}, left : SUBSET (Ids \cup {0}),
                       done : SUBSET Ids, to : Statuses \cup {"gone", "saved", "sync", NULL},
                       who : Persons \cup {NULL}, filter : Filters \cup {NULL},
                       batch : BOOLEAN, failed : BOOLEAN]]

\* The load that was asked last ended last, and did not fail.
InOrder == last = asked /\ ~error

\* What is shown passes the filter that is set.
Filtered == \A i \in DOMAIN tasks : filter \in {"all", tasks[i].status}

\* The page shows what its filter asks for, unless the answers came out of order, or
\* the last load was asked for by a click under another filter. One more load makes
\* good whatever went wrong before it.
FilterShown == InOrder /\ ~load[asked].stale => Filtered

\* What the user did is shown: once no request is under way, the list was read after
\* every change they made, unless one failed, so that no load followed it, or the
\* answers came out of order.
OwnChangesShown == Running = {} /\ InOrder => unseen \subseteq lapsed

\* Whatever loads come and go, only tasks of the list are selected, none outside
\* the batch mode: what a batch deletes is in the list that the dialog covers.
SelectionListed == selected \subseteq DOMAIN tasks /\ (~batch => selected = {})

\* "Tasks grouped by assignee": every task that was loaded stands under exactly one
\* heading, unless two people share a name or people changed between the two answers.
GroupedOnce ==
  \A i \in DOMAIN tasks :
    \/ torn
    \/ \E p \in known \cup {NULL} : Sections(i) = {p}
    \/ \E p, q \in known : p # q /\ Name[p] = Name[q]

\* Loading... and the disabled Delete button show only while something they wait for
\* is under way, so that its end, answer or failure, can take them back.
BusyTruthful ==
  /\ loading => Open # {}
  /\ deleting => \E a \in Acts : act[a].batch /\ act[a].step = "sent"
=============================================================================
