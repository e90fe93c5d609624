------------------------------- MODULE Tasks -------------------------------
(***************************************************************************)
(* The task store: the handlers of backend/internal/handlers/tasks.go (with *)
(* people.go and categories.go) over the tables of internal/db/db.go.       *)
(*                                                                          *)
(* The pool has one connection, so ONE SQL statement is atomic, but no      *)
(* handler opens a transaction: between two statements of Done or Update    *)
(* any other request may run, the client may go away (r.Context() is        *)
(* cancelled and every later statement fails) or the process may die.       *)
(* Handlers with a single writing statement are one action; Done and Update *)
(* are one action per statement, and `req' holds what each has read so far. *)
(*                                                                          *)
(* A recurrence is abstracted to the days between occurrences (the calendar *)
(* arithmetic is left out), a due date to a day and the form of its text.   *)
(***************************************************************************)
EXTENDS Integers, FiniteSets

CONSTANTS
  Persons, Categories, \* the ids people and categories may ever be given
  Seeded,              \* the categories migrate inserts
  Titles, Notes,       \* contents told apart
  Recs,                \* days between two occurrences
  Drafts,              \* bodies of POST /tasks
  Edits,               \* bodies of PATCH /tasks/{id}
  Presets,             \* days a snooze preset adds
  Requests,            \* Done and Update requests in flight at once
  DriverModes,         \* does the SQLite driver turn a DATE into a timestamp?
  FreshUI,             \* are the buttons of an up-to-date page the only client?
  Aborts,              \* may a request be cut short?
  MaxTasks, MaxDay,    \* bounds: ids handed out, days passed
  NULL, Absent         \* SQL NULL; a field the JSON body leaves out

Forms == {"date", "stamp"}  \* 2006-01-02 and 2006-01-02T00:00:00Z
Due == [day : Int, form : Forms]

Row == [title : Titles, notes : Notes, type : {"one-off", "recurring"},
        rec : Recs \cup {NULL}, due : Due \cup {NULL},
        assignee : Persons \cup {NULL}, category : Categories \cup {NULL},
        status : {"pending", "done", "snoozed"},
        completed_by : Persons \cup {NULL}, completed_at : BOOLEAN,
        parent : Nat \cup {NULL}]

Draft == [title : Titles, notes : Notes, type : {"one-off", "recurring"},
          rec : Recs \cup {NULL}, due : Due \cup {NULL},
          assignee : Persons \cup {NULL}, category : Categories \cup {NULL}]

Edit == [title : Titles \cup {Absent}, due : Due \cup {NULL, Absent},
         assignee : Persons \cup {Absent}, category : Categories \cup {Absent},
         notes : Notes \cup {Absent}, rec : Recs \cup {Absent}]

ASSUME ValuesAssumption ==
  /\ Seeded \subseteq Categories /\ Recs \subseteq Int /\ Presets \subseteq Int
  /\ Drafts \subseteq Draft /\ Edits \subseteq Edit
  /\ DriverModes \subseteq BOOLEAN /\ FreshUI \in BOOLEAN /\ Aborts \in BOOLEAN
  /\ MaxTasks \in Nat /\ MaxDay \in Nat
ASSUME NullAssumption ==
  /\ NULL \notin Int \cup Due \cup Persons \cup Categories
  /\ Absent \notin Int \cup Due \cup Persons \cup Categories \cup Titles \cup Notes
  /\ Absent # NULL

VARIABLES
  tasks,      \* table tasks: id -> row, for the rows that exist
  lastId,     \* its AUTOINCREMENT counter: an id is never given twice
  people,     \* table people: ids with a row
  categories, \* table categories: ids with a row
  retired,    \* ids of people and categories whose row was deleted
  today,      \* the day time.Now() falls on
  req,        \* requests in flight between two of their statements
  from,       \* history: the task whose completion created this one
  owed,       \* history: tasks marked done that were to get a successor
  reopened    \* history: chains, by their root, Reopen was called on

tables == <<tasks, lastId, people, categories, retired>>
history == <<from, owed, reopened>>
vars == <<tasks, lastId, people, categories, retired, today, req, from, owed, reopened>>

-----------------------------------------------------------------------------
(* The tables.                                                              *)

Live == DOMAIN tasks

\* COALESCE(parent_id, id): the task a chain of occurrences starts from.
Root(i) == IF tasks[i].parent = NULL THEN i ELSE tasks[i].parent

Idle == [op |-> "idle"]
InFlight(op) == {r \in Requests : req[r].op = op}

\* Ids still free once the Done requests in flight have inserted theirs.
Room == lastId + Cardinality(InFlight("done") \cup InFlight("insert")) < MaxTasks

\* foreign_keys=ON: a statement that leaves a dangling reference fails.
ForeignKeysHold(row) ==
  /\ row.assignee \in people \cup {NULL}
  /\ row.category \in categories \cup {NULL}
  /\ row.completed_by \in people \cup {NULL}
  /\ row.parent \in Live \cup {NULL}

\* Mutant: no AUTOINCREMENT, so the id of the last row deleted is given again.
InsertReusingId(row, origin) ==
  LET id == CHOOSE i \in 1..(lastId + 1) : i \notin Live /\ \A j \in Live : j < i
  IN /\ lastId' = id
     /\ tasks' = [i \in Live \cup {id} |-> IF i = id THEN row ELSE tasks[i]]
     /\ from' = [i \in 1..id |-> IF i = id THEN origin ELSE from[i]]

Insert(row, origin) ==
  /\ lastId' = lastId + 1
  /\ tasks' = [i \in Live \cup {lastId + 1} |-> IF i = lastId + 1 THEN row ELSE tasks[i]]
  /\ from' = [i \in 1..(lastId + 1) |-> IF i = lastId + 1 THEN origin ELSE from[i]]

\* UPDATE tasks SET ... WHERE id = ?: no row, nothing to do and no error.
UpdateRow(id, row) ==
  IF id \in Live THEN tasks' = [tasks EXCEPT ![id] = row] ELSE UNCHANGED tasks

\* TaskCard offers the operation only where its button is shown.
Offered(id, statuses) == FreshUI => tasks[id].status \in statuses

-----------------------------------------------------------------------------
(* One-statement handlers.                                                  *)

\* POST /tasks: the draft is validated, then inserted or refused by a foreign key.
Create ==
  /\ Room
  /\ \E d \in Drafts :
       LET row == [title |-> d.title, notes |-> d.notes, type |-> d.type,
                   rec |-> d.rec, due |-> d.due, assignee |-> d.assignee,
                   category |-> d.category, status |-> "pending",
                   completed_by |-> NULL, completed_at |-> FALSE, parent |-> NULL]
       IN /\ d.type = "recurring" => d.rec # NULL
          /\ ForeignKeysHold(row)
          /\ Insert(row, NULL)
  /\ UNCHANGED <<people, categories, retired, today, req, owed, reopened>>

\* Mutant: the completion is not reset.
ReopenKeepingCompletion(id) ==
  /\ Offered(id, {"done"})
  /\ UpdateRow(id, [tasks[id] EXCEPT !.status = "pending"])
  /\ reopened' = reopened \cup {Root(id)}
  /\ UNCHANGED <<lastId, people, categories, retired, today, req, from, owed>>

\* POST /tasks/{id}/reopen: status, completed_by and completed_at are reset.
Reopen(id) ==
  /\ Offered(id, {"done"})
  /\ UpdateRow(id, [tasks[id] EXCEPT !.status = "pending", !.completed_by = NULL,
                                     !.completed_at = FALSE])
  /\ reopened' = reopened \cup {Root(id)}
  /\ UNCHANGED <<lastId, people, categories, retired, today, req, from, owed>>

\* POST /tasks/{id}/snooze: due counts from today, not from the old due date.
Snooze(id) ==
  /\ Offered(id, {"pending"})
  /\ \E n \in Presets :
       UpdateRow(id, [tasks[id] EXCEPT !.status = "snoozed",
                                       !.due = [day |-> today + n, form |-> "date"]])
  /\ UNCHANGED <<lastId, people, categories, retired, today, req, history>>

\* DELETE /tasks/{id}: refused while another task names this one as its parent.
Delete(id) ==
  /\ \A i \in Live \ {id} : tasks[i].parent # id
  /\ tasks' = [i \in Live \ {id} |-> tasks[i]]
  /\ UNCHANGED <<lastId, people, categories, retired, today, req, history>>

\* POST and DELETE of /people/{id} and /categories/{id}. A category seeded again
\* when the server restarts gets an id of its own, like a new one.
AddPerson(p) ==
  /\ p \notin people \cup retired
  /\ people' = people \cup {p}
  /\ UNCHANGED <<tasks, lastId, categories, retired, today, req, history>>

\* Mutant: foreign_keys is off.
RemovePersonUnchecked(p) ==
  /\ p \in people
  /\ people' = people \ {p} /\ retired' = retired \cup {p}
  /\ UNCHANGED <<tasks, lastId, categories, today, req, history>>

RemovePerson(p) ==
  /\ p \in people
  /\ \A i \in Live : p \notin {tasks[i].assignee, tasks[i].completed_by}
  /\ people' = people \ {p} /\ retired' = retired \cup {p}
  /\ UNCHANGED <<tasks, lastId, categories, today, req, history>>

AddCategory(c) ==
  /\ c \notin categories \cup retired
  /\ categories' = categories \cup {c}
  /\ UNCHANGED <<tasks, lastId, people, retired, today, req, history>>

RemoveCategory(c) ==
  /\ c \in categories
  /\ \A i \in Live : c # tasks[i].category
  /\ categories' = categories \ {c} /\ retired' = retired \cup {c}
  /\ UNCHANGED <<tasks, lastId, people, today, req, history>>

-----------------------------------------------------------------------------
(* PATCH /tasks/{id}: one UPDATE per field the body has, in this order; the  *)
(* first that fails ends the request and leaves the earlier ones in place.   *)

Earlier == [title |-> {}, due |-> {"title"}, assignee |-> {"title", "due"},
            category |-> {"title", "due", "assignee"},
            notes |-> {"title", "due", "assignee", "category"},
            rec |-> {"title", "due", "assignee", "category", "notes"}]
Fields == DOMAIN Earlier

UpdateStart(r, id) ==
  /\ req[r] = Idle
  /\ Offered(id, {"pending", "snoozed"})
  /\ \E e \in Edits : req' = [req EXCEPT ![r] = [op |-> "update", id |-> id, edit |-> e]]
  /\ UNCHANGED <<tables, today, history>>

\* Mutant: a field the body leaves out is written all the same.
UpdateFieldAbsent(r, f) ==
  /\ req[r].op = "update"
  /\ UpdateRow(req[r].id, [tasks[req[r].id] EXCEPT ![f] = req[r].edit[f]])
  /\ req' = [req EXCEPT ![r].edit[f] = Absent]
  /\ UNCHANGED <<lastId, people, categories, retired, today, history>>

UpdateField(r, f) ==
  /\ req[r].op = "update"
  /\ LET id == req[r].id
         e  == req[r].edit
         row == [tasks[id] EXCEPT ![f] = e[f]]
     IN /\ e[f] # Absent
        /\ \A g \in Earlier[f] : e[g] = Absent
        /\ IF id \in Live => ForeignKeysHold(row)
             THEN /\ UpdateRow(id, row)
                  /\ req' = [req EXCEPT ![r].edit[f] = Absent]
             ELSE req' = [req EXCEPT ![r] = Idle] /\ UNCHANGED tasks
  /\ UNCHANGED <<lastId, people, categories, retired, today, history>>

\* Nothing left to write: getAndRespond only reads.
UpdateEnd(r) ==
  /\ req[r].op = "update"
  /\ \A f \in Fields : req[r].edit[f] = Absent
  /\ req' = [req EXCEPT ![r] = Idle]
  /\ UNCHANGED <<tables, today, history>>

-----------------------------------------------------------------------------
(* POST /tasks/{id}/done.                                                   *)

\* What scanTask reads into the string DueDate: the driver hands the text over
\* as it is stored, or parses it and database/sql prints the time as RFC 3339.
ScanDue(due, parses) ==
  IF due = NULL \/ ~parses THEN due ELSE [due EXCEPT !.form = "stamp"]

IsRecurring(task) == task.type = "recurring" /\ task.rec # NULL /\ task.due # NULL

\* Mutant: a snoozed task counts as postponed, not as recurring.
HasNextDateUnlessSnoozed(task) ==
  IsRecurring(task) /\ task.due.form = "date" /\ task.status # "snoozed"

\* time.Parse("2006-01-02", from) accepts nothing but a date.
HasNextDate(task) == IsRecurring(task) /\ task.due.form = "date"

NextDate(task) == [day |-> task.due.day + task.rec, form |-> "date"]

\* Mutant: the parent is the task just completed, not the root of its chain.
SuccessorOfTask(id, task) ==
  [task EXCEPT !.due = NextDate(task), !.status = "pending", !.completed_by = NULL,
               !.completed_at = FALSE, !.parent = id]

Successor(id, task) ==
  [task EXCEPT !.due = NextDate(task), !.status = "pending", !.completed_by = NULL,
               !.completed_at = FALSE,
               !.parent = IF task.parent = NULL THEN id ELSE task.parent]

\* Mutant: the Done button of a done task is not disabled.
DoneReadAnyStatus(r, id) ==
  /\ req[r] = Idle
  /\ Room
  /\ \E by \in Persons \cup {NULL}, parses \in DriverModes :
       req' = [req EXCEPT ![r] = [op |-> "done", id |-> id, by |-> by,
                 task |-> [tasks[id] EXCEPT !.due = ScanDue(@, parses)]]]
  /\ UNCHANGED <<tables, today, history>>

\* SELECT: the row as the rest of the handler will use it.
DoneRead(r, id) ==
  /\ req[r] = Idle
  /\ Offered(id, {"pending", "snoozed"})
  /\ Room
  /\ \E by \in Persons \cup {NULL}, parses \in DriverModes :
       req' = [req EXCEPT ![r] = [op |-> "done", id |-> id, by |-> by,
                 task |-> [tasks[id] EXCEPT !.due = ScanDue(@, parses)]]]
  /\ UNCHANGED <<tables, today, history>>

\* UPDATE ... SET status = 'done': no look at the status the row had.
DoneUpdate(r) ==
  /\ req[r].op = "done"
  /\ LET id == req[r].id
         row == [tasks[id] EXCEPT !.status = "done", !.completed_by = req[r].by,
                                  !.completed_at = TRUE]
     IN IF id \in Live => ForeignKeysHold(row)
          THEN /\ UpdateRow(id, row)
               /\ req' = [req EXCEPT ![r] = IF HasNextDate(req[r].task)
                                              THEN [req[r] EXCEPT !.op = "insert"]
                                              ELSE Idle]
               /\ owed' = IF IsRecurring(req[r].task) THEN owed \cup {id} ELSE owed
          ELSE req' = [req EXCEPT ![r] = Idle] /\ UNCHANGED <<tasks, owed>>
  /\ UNCHANGED <<lastId, people, categories, retired, today, from, reopened>>

\* INSERT the next occurrence out of what was read; its error is ignored.
DoneInsert(r) ==
  /\ req[r].op = "insert"
  /\ LET row == Successor(req[r].id, req[r].task)
     IN IF ForeignKeysHold(row) THEN Insert(row, req[r].id)
                                ELSE UNCHANGED <<tasks, lastId, from>>
  /\ req' = [req EXCEPT ![r] = Idle]
  /\ UNCHANGED <<people, categories, retired, today, owed, reopened>>

\* The client goes away, a statement fails, or the process dies and restarts.
Abort(r) ==
  /\ Aborts /\ req[r] # Idle
  /\ req' = [req EXCEPT ![r] = Idle]
  /\ UNCHANGED <<tables, today, history>>

Midnight ==
  /\ today < MaxDay
  /\ today' = today + 1
  /\ UNCHANGED <<tables, req, history>>

-----------------------------------------------------------------------------
\* db.go's migrate: no tasks and no people, the seeded categories.
Init ==
  /\ tasks = [i \in {} |-> NULL] /\ lastId = 0
  /\ people = {} /\ categories = Seeded /\ retired = {}
  /\ today = 0
  /\ req = [r \in Requests |-> Idle]
  /\ from = [i \in {} |-> NULL] /\ owed = {} /\ reopened = {}

Next ==
  \/ Create \/ Midnight
  \/ \E id \in Live : Reopen(id) \/ Snooze(id) \/ Delete(id)
  \/ \E p \in Persons : AddPerson(p) \/ RemovePerson(p)
  \/ \E c \in Categories : AddCategory(c) \/ RemoveCategory(c)
  \/ \E r \in Requests, id \in Live : UpdateStart(r, id) \/ DoneRead(r, id)
  \/ \E r \in Requests, f \in Fields : UpdateField(r, f)
  \/ \E r \in Requests : UpdateEnd(r) \/ DoneUpdate(r) \/ DoneInsert(r) \/ Abort(r)

Spec == Init /\ [][Next]_vars

-----------------------------------------------------------------------------
(* Properties.                                                              *)

UpdateRequest == [op : {"update"}, id : Nat, edit : Edit]
DoneRequest == [op : {"done"}, id : Nat, by : Persons \cup {NULL}, task : Row]
InsertRequest == [op : {"insert"}, id : Nat, by : Persons \cup {NULL},
                  task : {t \in Row : HasNextDate(t)}]
Request == {Idle} \cup UpdateRequest \cup DoneRequest \cup InsertRequest

\* Every variable holds values of its kind; rows have ids the counter has given.
TypeOK ==
  /\ lastId \in Nat /\ Live \subseteq 1..lastId /\ tasks \in [Live -> Row]
  /\ people \subseteq Persons /\ categories \subseteq Categories
  /\ retired \subseteq Persons \cup Categories
  /\ today \in Nat
  /\ req \in [Requests -> Request]
  /\ from \in [1..lastId -> Nat \cup {NULL}]
  /\ owed \subseteq Nat /\ reopened \subseteq Nat

\* No request, however its statements interleave with deletions of people,
\* categories and tasks, leaves a task that refers to a missing row.
ForeignKeys == \A i \in Live : ForeignKeysHold(tasks[i])

\* A chain is one level deep: Done gives the new occurrence the root as parent,
\* so the parent of a task is never itself an occurrence, and only recurring
\* tasks have occurrences.
ChainShape ==
  \A i \in Live : tasks[i].parent # NULL =>
    /\ tasks[tasks[i].parent].parent = NULL
    /\ tasks[i].type = "recurring" /\ tasks[tasks[i].parent].type = "recurring"

\* GET /tasks/{id}/history.
History(i) ==
  {j \in Live : /\ j = Root(i) \/ tasks[j].parent = Root(i)
                /\ tasks[j].status = "done"}

\* "History walks the parent_id chain": an occurrence shows the same history as
\* the task whose completion created it, and that completion is part of it.
HistoryUnbroken ==
  \A i \in Live : from[i] \in Live =>
    /\ History(i) = History(from[i])
    /\ tasks[from[i]].status = "done" => from[i] \in History(i)

\* A done task has a completion time and a pending one no trace of a completion,
\* whatever Done, Reopen and Snooze overtake each other. (A snoozed one may keep it.)
CompletionConsistent ==
  \A i \in Live :
    /\ tasks[i].status = "done" => tasks[i].completed_at
    /\ tasks[i].status = "pending" => ~tasks[i].completed_at /\ tasks[i].completed_by = NULL

\* No step brings a deleted id back or moves a task to another chain or type:
\* what a Done request read of them before its UPDATE is still true at its INSERT.
IdentityKept ==
  [][\A i \in 1..lastId : i \in Live' =>
       /\ i \in Live
       /\ tasks'[i].parent = tasks[i].parent /\ tasks'[i].type = tasks[i].type]_vars

\* "A new task instance is auto-created": while nobody reopens one of its tasks,
\* a chain has one task still to do, not several.
OneOpenOccurrence ==
  \A i, j \in Live :
    Root(i) = Root(j) /\ Root(i) \notin reopened
      /\ tasks[i].status # "done" /\ tasks[j].status # "done" => i = j

\* "On mark-as-done, a new task instance is auto-created with the next due date":
\* once the Done request of a recurring task is over, its successor was created.
NextOccurrenceCreated ==
  \A i \in Live \cap owed :
    \/ \E r \in Requests : req[r].op = "insert" /\ req[r].id = i
    \/ \E s \in 1..lastId : from[s] = i

\* The chain of root c, and whether it has a task to do or one about to be made.
Chain(c) == {i \in Live : Root(i) = c}
ToDo(c) ==
  \/ \E i \in Chain(c) : tasks[i].status # "done"
  \/ \E r \in InFlight("insert") : req[r].id \in Chain(c)

\* A recurring chore that is on somebody's list stays on it: a step leaves it without
\* a task to do only by deleting one of its tasks, or by completing one whose due
\* date had been removed.
ChoreGoesOn ==
  [][\A c \in Live : tasks[c].type = "recurring" /\ ToDo(c) =>
       \/ ToDo(c)'
       \/ \E i \in Live \ Live' : Root(i) = c
       \/ \E r \in InFlight("done") :
            req[r].id \in Chain(c) /\ req[r].task.due = NULL /\ req'[r] = Idle]_vars
=============================================================================
