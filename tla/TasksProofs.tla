---------------------------- MODULE TasksProofs ----------------------------
(***************************************************************************)
(* Safety of the task store for every set of people, categories, drafts,    *)
(* edits and concurrent requests, whatever the driver does with dates and   *)
(* whichever requests are cut short. Only the last section, on the next     *)
(* occurrence, asks for less: its two theorems name what they need, because *)
(* the runs tasks_two_clients and tasks_driver refute them without it.      *)
(***************************************************************************)
EXTENDS Tasks, TLAPS

-----------------------------------------------------------------------------
(* Type correctness.                                                        *)

\* A row stays a row when UpdateRow replaces it.
LEMMA UpdateRowType ==
  ASSUME TypeOK, NEW id, NEW row, id \in Live => row \in Row, UpdateRow(id, row)
  PROVE  /\ tasks' \in [Live -> Row]
         /\ Live' = Live
  BY DEF UpdateRow, TypeOK, Live

\* Insert adds one row under the next id.
LEMMA InsertType ==
  ASSUME TypeOK, NEW row \in Row, NEW origin \in Nat \cup {NULL}, Insert(row, origin)
  PROVE  /\ lastId' = lastId + 1 /\ lastId' \in Nat
         /\ Live' = Live \cup {lastId'} /\ Live' \subseteq 1..lastId'
         /\ tasks' \in [Live' -> Row]
         /\ from' \in [1..lastId' -> Nat \cup {NULL}]
         /\ lastId' \notin Live /\ tasks'[lastId'] = row /\ from'[lastId'] = origin
         /\ \A i \in Live : tasks'[i] = tasks[i] /\ from'[i] = from[i]
         /\ \A i \in 1..lastId : from'[i] = from[i]
  BY DEF Insert, TypeOK, Live

\* A request that reached the insertion has a date to count from.
LEMMA SuccessorType ==
  ASSUME NEW id \in Nat, NEW task \in Row, HasNextDate(task)
  PROVE  Successor(id, task) \in Row
<1>0. /\ task.rec \in Int
      /\ task.due \in Due
  BY ValuesAssumption DEF HasNextDate, IsRecurring, Row
<1>1. NextDate(task) \in Due
  BY <1>0 DEF NextDate, Due, Forms
<1>2. ASSUME NEW due \in Due, NEW parent \in Nat
      PROVE  [task EXCEPT !.due = due, !.status = "pending", !.completed_by = NULL,
                          !.completed_at = FALSE, !.parent = parent] \in Row
  BY Zenon DEF Row
<1>3. (IF task.parent = NULL THEN id ELSE task.parent) \in Nat
  BY DEF Row
<1> QED
  BY <1>1, <1>2, <1>3 DEF Successor

\* The rows that a reopening and a snooze write.
Reopened(row) ==
  [row EXCEPT !.status = "pending", !.completed_by = NULL, !.completed_at = FALSE]
Snoozed(row, due) == [row EXCEPT !.status = "snoozed", !.due = due]

SameTask(row, old) ==
  /\ row \in Row
  /\ row.parent = old.parent /\ row.type = old.type
  /\ row.assignee = old.assignee /\ row.category = old.category

LEMMA ReopenedType ==
  ASSUME NEW row \in Row
  PROVE  /\ SameTask(Reopened(row), row)
         /\ Reopened(row).status = "pending" /\ Reopened(row).completed_by = NULL
         /\ Reopened(row).completed_at = FALSE
<1>1. Reopened(row) \in Row
  BY Zenon DEF Reopened, Row
<1> QED
  BY <1>1 DEF Reopened, Row, SameTask

LEMMA SnoozedType ==
  ASSUME NEW row \in Row, NEW due \in Due
  PROVE  /\ SameTask(Snoozed(row, due), row) /\ Snoozed(row, due).status = "snoozed"
         /\ Snoozed(row, due).completed_by = row.completed_by
         /\ Snoozed(row, due).completed_at = row.completed_at
<1>1. Snoozed(row, due) \in Row
  BY Zenon DEF Snoozed, Row
<1> QED
  BY <1>1 DEF Snoozed, Row, SameTask

\* Overwriting one field of an edit leaves an edit, or one of a row a row.
LEMMA FieldType ==
  ASSUME NEW f \in Fields, NEW e \in Edit, e[f] # Absent
  PROVE  /\ \A row \in Row : [row EXCEPT ![f] = e[f]] \in Row
         /\ [e EXCEPT ![f] = Absent] \in Edit
<1>1. f \in {"title", "due", "assignee", "category", "notes", "rec"}
  BY DEF Fields, Earlier
<1>2. CASE f = "title"
  BY <1>2 DEF Edit, Row
<1>3. CASE f = "due"
  BY <1>3 DEF Edit, Row
<1>4. CASE f = "assignee"
  BY <1>4 DEF Edit, Row
<1>5. CASE f = "category"
  BY <1>5 DEF Edit, Row
<1>6. CASE f = "notes"
  BY <1>6 DEF Edit, Row
<1>7. CASE f = "rec"
  BY <1>7 DEF Edit, Row
<1> QED
  BY <1>1, <1>2, <1>3, <1>4, <1>5, <1>6, <1>7

\* What a request that is about to take a given step holds.
LEMMA RequestType ==
  ASSUME TypeOK, NEW r \in Requests
  PROVE  /\ req[r] \in Request
         /\ req[r].op = "update" => req[r] \in UpdateRequest
         /\ req[r].op = "done" => req[r] \in DoneRequest
         /\ req[r].op = "insert" => req[r] \in InsertRequest
         /\ Idle \in Request /\ Idle.op = "idle"
<1>1. req[r] \in Request
  BY DEF TypeOK
<1> QED
  BY <1>1 DEF Request, UpdateRequest, DoneRequest, InsertRequest, Idle

LEMMA TypeStep == TypeOK /\ [Next]_vars => TypeOK'
<1> SUFFICES ASSUME TypeOK, [Next]_vars PROVE TypeOK'
  OBVIOUS
<1> USE DEF tables, history
<1>1. CASE Create
  <2> PICK d \in Drafts :
        Insert([title |-> d.title, notes |-> d.notes, type |-> d.type,
                rec |-> d.rec, due |-> d.due, assignee |-> d.assignee,
                category |-> d.category, status |-> "pending",
                completed_by |-> NULL, completed_at |-> FALSE, parent |-> NULL], NULL)
    BY <1>1 DEF Create
  <2> DEFINE row == [title |-> d.title, notes |-> d.notes, type |-> d.type,
                rec |-> d.rec, due |-> d.due, assignee |-> d.assignee,
                category |-> d.category, status |-> "pending",
                completed_by |-> NULL, completed_at |-> FALSE, parent |-> NULL]
  <2>1. row \in Row
    BY ValuesAssumption DEF Draft, Row
  <2> HIDE DEF row
  <2>2. Insert(row, NULL)
    BY DEF row
  <2> QED
    BY <1>1, <2>1, <2>2, InsertType DEF Create, TypeOK, Live
<1>2. CASE Midnight
  BY <1>2 DEF Midnight, TypeOK, Live
<1>3. ASSUME NEW id \in Live, Reopen(id) PROVE TypeOK'
  <2>1. Reopened(tasks[id]) \in Row
    BY ReopenedType DEF SameTask, TypeOK
  <2>2. Root(id) \in Nat
    BY DEF TypeOK, Root, Row
  <2> QED
    BY <1>3, <2>1, <2>2, UpdateRowType DEF Reopen, Reopened, TypeOK, Live
<1>4. ASSUME NEW id \in Live, Snooze(id) PROVE TypeOK'
  <2> PICK n \in Presets :
        UpdateRow(id, Snoozed(tasks[id], [day |-> today + n, form |-> "date"]))
    BY <1>4 DEF Snooze, Snoozed
  <2>1. [day |-> today + n, form |-> "date"] \in Due
    BY ValuesAssumption DEF Due, Forms, TypeOK
  <2>2. Snoozed(tasks[id], [day |-> today + n, form |-> "date"]) \in Row
    BY <2>1, SnoozedType DEF SameTask, TypeOK
  <2> QED
    BY <1>4, <2>2, UpdateRowType DEF Snooze, TypeOK, Live
<1>5. ASSUME NEW id \in Live, Delete(id) PROVE TypeOK'
  BY <1>5 DEF Delete, TypeOK, Live
<1>6. ASSUME NEW p \in Persons, AddPerson(p) \/ RemovePerson(p) PROVE TypeOK'
  BY <1>6 DEF AddPerson, RemovePerson, TypeOK, Live
<1>7. ASSUME NEW c \in Categories, AddCategory(c) \/ RemoveCategory(c) PROVE TypeOK'
  BY <1>7 DEF AddCategory, RemoveCategory, TypeOK, Live
<1>8. ASSUME NEW r \in Requests, NEW id \in Live, UpdateStart(r, id) PROVE TypeOK'
  <2> PICK e \in Edits : req' = [req EXCEPT ![r] = [op |-> "update", id |-> id, edit |-> e]]
    BY <1>8 DEF UpdateStart
  <2>1. [op |-> "update", id |-> id, edit |-> e] \in UpdateRequest
    BY ValuesAssumption DEF UpdateRequest, TypeOK
  <2> QED
    BY <1>8, <2>1 DEF UpdateStart, TypeOK, Live, Request
<1>9. ASSUME NEW r \in Requests, NEW id \in Live, DoneRead(r, id) PROVE TypeOK'
  <2> PICK by \in Persons \cup {NULL}, parses \in DriverModes :
        req' = [req EXCEPT ![r] = [op |-> "done", id |-> id, by |-> by,
                  task |-> [tasks[id] EXCEPT !.due = ScanDue(@, parses)]]]
    BY <1>9 DEF DoneRead
  <2>1. tasks[id] \in Row /\ id \in Nat
    BY DEF TypeOK
  <2>2. ScanDue(tasks[id].due, parses) \in Due \cup {NULL}
    BY <2>1 DEF ScanDue, Row, Due, Forms
  <2>3. [tasks[id] EXCEPT !.due = ScanDue(@, parses)] \in Row
    BY <2>1, <2>2 DEF Row
  <2>4. [op |-> "done", id |-> id, by |-> by,
         task |-> [tasks[id] EXCEPT !.due = ScanDue(@, parses)]] \in DoneRequest
    BY <2>1, <2>3 DEF DoneRequest
  <2> QED
    BY <1>9, <2>4 DEF DoneRead, TypeOK, Live, Request
<1>10. ASSUME NEW r \in Requests, NEW f \in Fields, UpdateField(r, f) PROVE TypeOK'
  <2> DEFINE id == req[r].id
             e == req[r].edit
             row == [tasks[id] EXCEPT ![f] = e[f]]
  <2>0. req[r] \in UpdateRequest
    BY <1>10, RequestType DEF UpdateField
  <2>1. e \in Edit /\ e[f] # Absent
    BY <1>10, <2>0 DEF UpdateField, UpdateRequest
  <2>2. id \in Live => row \in Row
    BY <2>1, FieldType DEF TypeOK
  <2>3. [req[r] EXCEPT !.edit[f] = Absent] \in Request
    <3>2. [e EXCEPT ![f] = Absent] \in Edit
      BY <2>1, FieldType
    <3>3. [req[r] EXCEPT !.edit = [e EXCEPT ![f] = Absent]] \in UpdateRequest
      BY <2>0, <3>2 DEF UpdateRequest
    <3> QED
      BY <3>3 DEF Request
  <2>4. Idle \in Request
    BY DEF Request
  <2>5. CASE id \in Live => ForeignKeysHold(row)
    <3>1. UpdateRow(id, row) /\ req' = [req EXCEPT ![r].edit[f] = Absent]
      BY <1>10, <2>5 DEF UpdateField
    <3>2. tasks' \in [Live -> Row] /\ Live' = Live
      BY <2>2, <3>1, UpdateRowType
    <3>3. req' \in [Requests -> Request]
      BY <2>3, <3>1 DEF TypeOK
    <3> QED
      BY <1>10, <3>2, <3>3 DEF UpdateField, TypeOK, Live
  <2>6. CASE ~(id \in Live => ForeignKeysHold(row))
    BY <1>10, <2>4, <2>6 DEF UpdateField, TypeOK, Live
  <2> QED
    BY <2>5, <2>6
<1>11. ASSUME NEW r \in Requests, UpdateEnd(r) \/ Abort(r) PROVE TypeOK'
  BY <1>11 DEF UpdateEnd, Abort, TypeOK, Live, Request
<1>12. ASSUME NEW r \in Requests, DoneUpdate(r) PROVE TypeOK'
  <2> DEFINE id == req[r].id
             row == [tasks[id] EXCEPT !.status = "done", !.completed_by = req[r].by,
                                      !.completed_at = TRUE]
  <2>0. req[r] \in DoneRequest
    BY <1>12, RequestType DEF DoneUpdate
  <2>1. id \in Nat /\ req[r].by \in Persons \cup {NULL}
    BY <2>0 DEF DoneRequest
  <2>2. id \in Live => row \in Row
    <3>1. ASSUME NEW t \in Row
          PROVE  [t EXCEPT !.status = "done", !.completed_by = req[r].by,
                           !.completed_at = TRUE] \in Row
      BY <2>1 DEF Row
    <3> QED
      BY <3>1 DEF TypeOK
  <2>3. /\ HasNextDate(req[r].task) => [req[r] EXCEPT !.op = "insert"] \in Request
        /\ Idle \in Request
    BY <2>0 DEF DoneRequest, InsertRequest, Request
  <2>4. CASE id \in Live => ForeignKeysHold(row)
    <3>1. /\ UpdateRow(id, row)
          /\ req' = [req EXCEPT ![r] = IF HasNextDate(req[r].task)
                                         THEN [req[r] EXCEPT !.op = "insert"] ELSE Idle]
          /\ owed' = IF IsRecurring(req[r].task) THEN owed \cup {id} ELSE owed
      BY <1>12, <2>4 DEF DoneUpdate
    <3>2. tasks' \in [Live -> Row] /\ Live' = Live
      BY <2>2, <3>1, UpdateRowType
    <3>3. req' \in [Requests -> Request] /\ owed' \subseteq Nat
      BY <2>1, <2>3, <3>1 DEF TypeOK
    <3> QED
      BY <1>12, <3>2, <3>3 DEF DoneUpdate, TypeOK, Live
  <2>5. CASE ~(id \in Live => ForeignKeysHold(row))
    BY <1>12, <2>3, <2>5 DEF DoneUpdate, TypeOK, Live
  <2> QED
    BY <2>4, <2>5
<1>13. ASSUME NEW r \in Requests, DoneInsert(r) PROVE TypeOK'
  <2> DEFINE row == Successor(req[r].id, req[r].task)
  <2>1. Idle \in Request
    BY DEF Request
  <2>2. CASE ForeignKeysHold(row)
    <3>1. Insert(row, req[r].id)
      BY <1>13, <2>2 DEF DoneInsert
    <3>2. req[r].id \in Nat /\ req[r].task \in Row /\ HasNextDate(req[r].task)
      BY <1>13, RequestType DEF DoneInsert, InsertRequest
    <3>3. row \in Row
      BY <3>2, SuccessorType
    <3> QED
      BY <1>13, <2>1, <3>1, <3>2, <3>3, InsertType DEF DoneInsert, TypeOK, Live
  <2>3. CASE ~ForeignKeysHold(row)
    BY <1>13, <2>1, <2>3 DEF DoneInsert, TypeOK, Live
  <2> QED
    BY <2>2, <2>3
<1>14. CASE UNCHANGED vars
  BY <1>14 DEF vars, TypeOK, Live
<1> QED
  BY <1>1, <1>2, <1>3, <1>4, <1>5, <1>6, <1>7, <1>8, <1>9, <1>10, <1>11, <1>12,
     <1>13, <1>14 DEF Next

\* Every variable keeps its kind: rows stay rows, under ids that were given out.
THEOREM TypeCorrect == Spec => []TypeOK
<1>1. Init => TypeOK
  BY ValuesAssumption DEF Init, TypeOK, Live, Request
<1>2. TypeOK /\ [Next]_vars => TypeOK'
  BY TypeStep
<1> QED
  BY <1>1, <1>2, PTL DEF Spec

\* SQL NULL is no row's id.
LEMMA NullIsNoId ==
  ASSUME NEW n \in Nat
  PROVE  NULL \notin 1..n
<1>1. NULL \notin Int
  BY NullAssumption
<1>2. \A i \in 1..n : i \in Int
  OBVIOUS
<1> QED
  BY <1>1, <1>2, Zenon

-----------------------------------------------------------------------------
(* What a step may do to the rows and to the requests in flight.            *)

\* Rows may go or change, but none moves to another chain or type.
RowsKept ==
  /\ lastId' = lastId /\ from' = from /\ Live' \subseteq Live
  /\ \A i \in Live' : tasks'[i].parent = tasks[i].parent /\ tasks'[i].type = tasks[i].type

\* A row appears under the next id.
RowAdded(row, origin) ==
  /\ lastId' = lastId + 1 /\ Live' = Live \cup {lastId'}
  /\ from' \in [1..lastId' -> Nat \cup {NULL}]
  /\ tasks'[lastId'] = row /\ from'[lastId'] = origin
  /\ \A i \in Live : tasks'[i] = tasks[i] /\ from'[i] = from[i]
  /\ \A i \in 1..lastId : from'[i] = from[i]

RootAdded ==
  \E row \in Row : /\ row.parent = NULL /\ ForeignKeysHold(row) /\ RowAdded(row, NULL)
                   /\ row.due \in {d.due : d \in Drafts}
                   /\ row.type = "recurring" => row.rec # NULL

OccurrenceAdded ==
  \E r \in InFlight("insert") :
    LET row == Successor(req[r].id, req[r].task)
    IN /\ row \in Row /\ ForeignKeysHold(row) /\ RowAdded(row, req[r].id)
       /\ req' = [req EXCEPT ![r] = Idle]

\* UpdateRow with a row of the same chain and type.
LEMMA UpdateKeepsRows ==
  ASSUME TypeOK, NEW id, NEW row, UpdateRow(id, row),
         lastId' = lastId, from' = from,
         id \in Live => /\ row \in Row
                        /\ row.parent = tasks[id].parent /\ row.type = tasks[id].type
  PROVE  RowsKept
  BY DEF UpdateRow, RowsKept, TypeOK, Live

LEMMA UnchangedKeepsRows ==
  ASSUME UNCHANGED <<tasks, lastId, from>>
  PROVE  RowsKept
  BY DEF RowsKept, Live

LEMMA InsertAddsRow ==
  ASSUME TypeOK, NEW row \in Row, NEW origin \in Nat \cup {NULL}, Insert(row, origin)
  PROVE  RowAdded(row, origin)
  BY InsertType DEF RowAdded

LEMMA StepShape ==
  ASSUME TypeOK, [Next]_vars
  PROVE  RowsKept \/ RootAdded \/ OccurrenceAdded
<1> USE DEF tables, history
<1>1. CASE Create
  <2> PICK d \in Drafts :
        /\ Insert([title |-> d.title, notes |-> d.notes, type |-> d.type,
                rec |-> d.rec, due |-> d.due, assignee |-> d.assignee,
                category |-> d.category, status |-> "pending",
                completed_by |-> NULL, completed_at |-> FALSE, parent |-> NULL], NULL)
        /\ ForeignKeysHold([title |-> d.title, notes |-> d.notes, type |-> d.type,
                rec |-> d.rec, due |-> d.due, assignee |-> d.assignee,
                category |-> d.category, status |-> "pending",
                completed_by |-> NULL, completed_at |-> FALSE, parent |-> NULL])
        /\ d.type = "recurring" => d.rec # NULL
    BY <1>1 DEF Create
  <2> DEFINE row == [title |-> d.title, notes |-> d.notes, type |-> d.type,
                rec |-> d.rec, due |-> d.due, assignee |-> d.assignee,
                category |-> d.category, status |-> "pending",
                completed_by |-> NULL, completed_at |-> FALSE, parent |-> NULL]
  <2>1. row \in Row /\ row.parent = NULL /\ row.due \in {draft.due : draft \in Drafts}
    BY ValuesAssumption DEF Draft, Row
  <2>2. Insert(row, NULL) /\ ForeignKeysHold(row) /\ (row.type = "recurring" => row.rec # NULL)
    OBVIOUS
  <2> HIDE DEF row
  <2> QED
    BY <2>1, <2>2, InsertAddsRow DEF RootAdded
<1>2. CASE Midnight
  BY <1>2, UnchangedKeepsRows DEF Midnight
<1>3. ASSUME NEW id \in Live, Reopen(id) PROVE RowsKept
  <2> DEFINE row == Reopened(tasks[id])
  <2>1. row \in Row /\ row.parent = tasks[id].parent /\ row.type = tasks[id].type
    BY ReopenedType DEF SameTask, TypeOK
  <2>2. UpdateRow(id, row) /\ lastId' = lastId /\ from' = from
    BY <1>3 DEF Reopen, Reopened
  <2> HIDE DEF row
  <2> QED
    BY <2>1, <2>2, UpdateKeepsRows
<1>4. ASSUME NEW id \in Live, Snooze(id) PROVE RowsKept
  <2> PICK n \in Presets :
        UpdateRow(id, Snoozed(tasks[id], [day |-> today + n, form |-> "date"]))
    BY <1>4 DEF Snooze, Snoozed
  <2> DEFINE row == Snoozed(tasks[id], [day |-> today + n, form |-> "date"])
  <2>0. [day |-> today + n, form |-> "date"] \in Due
    BY ValuesAssumption DEF Due, Forms, TypeOK
  <2>1. row \in Row /\ row.parent = tasks[id].parent /\ row.type = tasks[id].type
    BY <2>0, SnoozedType DEF SameTask, TypeOK
  <2>2. UpdateRow(id, row) /\ lastId' = lastId /\ from' = from
    BY <1>4 DEF Snooze
  <2> HIDE DEF row
  <2> QED
    BY <2>1, <2>2, UpdateKeepsRows
<1>5. ASSUME NEW id \in Live, Delete(id) PROVE RowsKept
  BY <1>5 DEF Delete, RowsKept, Live
<1>6. ASSUME NEW p \in Persons, AddPerson(p) \/ RemovePerson(p) PROVE RowsKept
  BY <1>6, UnchangedKeepsRows DEF AddPerson, RemovePerson
<1>7. ASSUME NEW c \in Categories, AddCategory(c) \/ RemoveCategory(c) PROVE RowsKept
  BY <1>7, UnchangedKeepsRows DEF AddCategory, RemoveCategory
<1>8. ASSUME NEW r \in Requests, NEW id \in Live, UpdateStart(r, id) \/ DoneRead(r, id)
      PROVE  RowsKept
  BY <1>8, UnchangedKeepsRows DEF UpdateStart, DoneRead
<1>9. ASSUME NEW r \in Requests, NEW f \in Fields, UpdateField(r, f) PROVE RowsKept
  <2> DEFINE id == req[r].id
             e == req[r].edit
             row == [tasks[id] EXCEPT ![f] = e[f]]
  <2>1. e \in Edit /\ e[f] # Absent
    BY <1>9, RequestType DEF UpdateField, UpdateRequest
  <2>2. id \in Live => row \in Row
    BY <2>1, FieldType DEF TypeOK
  <2>3. id \in Live => row.parent = tasks[id].parent /\ row.type = tasks[id].type
    BY DEF TypeOK, Row, Fields, Earlier
  <2>4. lastId' = lastId /\ from' = from
    BY <1>9 DEF UpdateField
  <2>5. UpdateRow(id, row) \/ UNCHANGED tasks
    BY <1>9 DEF UpdateField
  <2> HIDE DEF row, id
  <2> QED
    BY <2>2, <2>3, <2>4, <2>5, UpdateKeepsRows, UnchangedKeepsRows
<1>10. ASSUME NEW r \in Requests, UpdateEnd(r) \/ Abort(r) PROVE RowsKept
  BY <1>10, UnchangedKeepsRows DEF UpdateEnd, Abort
<1>11. ASSUME NEW r \in Requests, DoneUpdate(r) PROVE RowsKept
  <2> DEFINE id == req[r].id
             row == [tasks[id] EXCEPT !.status = "done", !.completed_by = req[r].by,
                                      !.completed_at = TRUE]
  <2>1. req[r].by \in Persons \cup {NULL}
    BY <1>11, RequestType DEF DoneUpdate, DoneRequest
  <2>2. id \in Live => /\ row \in Row
                       /\ row.parent = tasks[id].parent /\ row.type = tasks[id].type
    <3>1. ASSUME NEW t \in Row
          PROVE  LET u == [t EXCEPT !.status = "done", !.completed_by = req[r].by,
                                    !.completed_at = TRUE]
                 IN u \in Row /\ u.parent = t.parent /\ u.type = t.type
      BY <2>1 DEF Row
    <3> QED
      BY <3>1 DEF TypeOK
  <2>3. lastId' = lastId /\ from' = from
    BY <1>11 DEF DoneUpdate
  <2>4. UpdateRow(id, row) \/ UNCHANGED tasks
    BY <1>11 DEF DoneUpdate
  <2> HIDE DEF row, id
  <2> QED
    BY <2>2, <2>3, <2>4, UpdateKeepsRows, UnchangedKeepsRows
<1>12. ASSUME NEW r \in Requests, DoneInsert(r) PROVE RowsKept \/ OccurrenceAdded
  <2> DEFINE row == Successor(req[r].id, req[r].task)
  <2>1. req[r].id \in Nat /\ row \in Row
    BY <1>12, RequestType, SuccessorType DEF DoneInsert, InsertRequest
  <2>2. CASE ForeignKeysHold(row)
    <3>1. Insert(row, req[r].id)
      BY <1>12, <2>2 DEF DoneInsert
    <3>2. r \in InFlight("insert")
      BY <1>12 DEF DoneInsert, InFlight
    <3> HIDE DEF row
    <3>3. RowAdded(row, req[r].id)
      BY <2>1, <3>1, InsertAddsRow
    <3> QED
      BY <1>12, <2>1, <2>2, <3>2, <3>3 DEF OccurrenceAdded, DoneInsert, row
  <2>3. CASE ~ForeignKeysHold(row)
    BY <1>12, <2>3, UnchangedKeepsRows DEF DoneInsert
  <2> QED
    BY <2>2, <2>3
<1>13. CASE UNCHANGED vars
  BY <1>13, UnchangedKeepsRows DEF vars
<1> QED
  BY <1>1, <1>2, <1>3, <1>4, <1>5, <1>6, <1>7, <1>8, <1>9, <1>10, <1>11, <1>12,
     <1>13 DEF Next

\* A Done request in flight was in flight before, or has just read its task.
LEMMA RequestStep ==
  ASSUME TypeOK, [Next]_vars, NEW r \in Requests, req'[r].op \in {"done", "insert"}
  PROVE  \/ /\ req[r].op \in {"done", "insert"}
            /\ req'[r].id = req[r].id /\ req'[r].task = req[r].task
         \/ /\ UNCHANGED <<tasks, lastId, from>> /\ req'[r].id \in Live
            /\ req'[r].task.parent = tasks[req'[r].id].parent
            /\ req'[r].task.type = tasks[req'[r].id].type
<1> USE DEF tables, history
<1>1. CASE req' = req
  BY <1>1
<1>2. ASSUME NEW q \in Requests, NEW id \in Live, UpdateStart(q, id)
      PROVE  req'[r].op # "update" => req'[r] = req[r]
  BY <1>2 DEF UpdateStart, TypeOK
<1>3. ASSUME NEW q \in Requests, NEW id \in Live, DoneRead(q, id)
      PROVE  \/ req'[r] = req[r]
             \/ /\ UNCHANGED <<tasks, lastId, from>> /\ req'[r].id \in Live
                /\ req'[r].task.parent = tasks[req'[r].id].parent
                /\ req'[r].task.type = tasks[req'[r].id].type
  <2> PICK by \in Persons \cup {NULL}, parses \in DriverModes :
        req' = [req EXCEPT ![q] = [op |-> "done", id |-> id, by |-> by,
                  task |-> [tasks[id] EXCEPT !.due = ScanDue(@, parses)]]]
    BY <1>3 DEF DoneRead
  <2>1. tasks[id] \in Row
    BY DEF TypeOK
  <2>2. /\ [tasks[id] EXCEPT !.due = ScanDue(@, parses)].parent = tasks[id].parent
        /\ [tasks[id] EXCEPT !.due = ScanDue(@, parses)].type = tasks[id].type
    BY <2>1 DEF Row
  <2> QED
    BY <1>3, <2>2 DEF DoneRead, TypeOK
<1>4. ASSUME NEW q \in Requests, NEW f \in Fields, UpdateField(q, f)
      PROVE  req'[r] = req[r] \/ req'[r] = Idle \/ req'[r].op = "update"
  <2>1. req[q] \in UpdateRequest
    BY <1>4, RequestType DEF UpdateField
  <2>2. \/ req' = [req EXCEPT ![q].edit[f] = Absent]
        \/ req' = [req EXCEPT ![q] = Idle]
    BY <1>4 DEF UpdateField
  <2> QED
    BY <2>1, <2>2 DEF UpdateRequest, TypeOK
<1>5. ASSUME NEW q \in Requests, UpdateEnd(q) \/ Abort(q) \/ DoneInsert(q)
      PROVE  req'[r] = req[r] \/ req'[r] = Idle
  BY <1>5 DEF UpdateEnd, Abort, DoneInsert, TypeOK
<1>6. ASSUME NEW q \in Requests, DoneUpdate(q)
      PROVE  \/ req'[r] = req[r] \/ req'[r] = Idle
             \/ /\ req[r].op \in {"done", "insert"}
                /\ req'[r].id = req[r].id /\ req'[r].task = req[r].task
  <2>1. req[q] \in DoneRequest
    BY <1>6, RequestType DEF DoneUpdate
  <2> QED
    BY <1>6, <2>1 DEF DoneUpdate, TypeOK, DoneRequest
<1>7. Idle.op = "idle"
  BY DEF Idle
<1>8. UNCHANGED vars => req' = req
  BY DEF vars
<1>9. Create => req' = req
  BY DEF Create
<1>10. Midnight => req' = req
  BY DEF Midnight
<1>11. ASSUME NEW id \in Live, Reopen(id) \/ Snooze(id) \/ Delete(id) PROVE req' = req
  BY <1>11 DEF Reopen, Snooze, Delete
<1>12. ASSUME NEW p \in Persons, AddPerson(p) \/ RemovePerson(p) PROVE req' = req
  BY <1>12 DEF AddPerson, RemovePerson
<1>13. ASSUME NEW c \in Categories, AddCategory(c) \/ RemoveCategory(c) PROVE req' = req
  BY <1>13 DEF AddCategory, RemoveCategory
<1> QED
  BY <1>1, <1>2, <1>3, <1>4, <1>5, <1>6, <1>7, <1>8, <1>9, <1>10, <1>11, <1>12,
     <1>13 DEF Next

-----------------------------------------------------------------------------
(* No id comes back and no row changes its chain or type.                   *)

LEMMA IdentityStep ==
  ASSUME TypeOK, [Next]_vars, NEW i \in 1..lastId, i \in Live'
  PROVE  /\ i \in Live
         /\ tasks'[i].parent = tasks[i].parent /\ tasks'[i].type = tasks[i].type
<1>1. lastId \in Nat
  BY DEF TypeOK
<1>2. CASE RowsKept
  BY <1>2 DEF RowsKept
<1>3. CASE RootAdded
  BY <1>1, <1>3 DEF RootAdded, RowAdded
<1>4. CASE OccurrenceAdded
  BY <1>1, <1>4 DEF OccurrenceAdded, RowAdded
<1> QED
  BY <1>2, <1>3, <1>4, StepShape

\* Neither Done nor any handler beside it moves a task to another chain or
\* type, and a deleted task's id never names another one.
THEOREM IdentityIsKept == Spec => IdentityKept
<1>1. TypeOK /\ [Next]_vars =>
        [\A i \in 1..lastId : i \in Live' =>
           /\ i \in Live
           /\ tasks'[i].parent = tasks[i].parent /\ tasks'[i].type = tasks[i].type]_vars
  BY IdentityStep
<1> QED
  BY <1>1, TypeCorrect, PTL DEF Spec, IdentityKept

-----------------------------------------------------------------------------
(* Foreign keys.                                                            *)

LEMMA ForeignKeysStep == TypeOK /\ ForeignKeys /\ [Next]_vars => ForeignKeys'
<1> SUFFICES ASSUME TypeOK, ForeignKeys, [Next]_vars PROVE ForeignKeys'
  OBVIOUS
<1> USE DEF tables, history
\* Nothing a row refers to goes away: only the rows and their columns matter.
<1>1. ASSUME people \subseteq people', categories \subseteq categories',
             Live' = Live, NEW id, NEW row,
             id \in Live => ForeignKeysHold(row), UpdateRow(id, row)
      PROVE  ForeignKeys'
  BY <1>1 DEF UpdateRow, ForeignKeys, ForeignKeysHold, Live, TypeOK
<1>2. ASSUME people \subseteq people', categories \subseteq categories', UNCHANGED tasks
      PROVE  ForeignKeys'
  BY <1>2 DEF ForeignKeys, ForeignKeysHold, Live
<1>3. ASSUME UNCHANGED <<people, categories>>, NEW row \in Row, NEW origin,
             ForeignKeysHold(row), RowAdded(row, origin)
      PROVE  ForeignKeys'
  BY <1>3 DEF RowAdded, ForeignKeys, ForeignKeysHold
<1>6. CASE Create
  <2> PICK d \in Drafts :
        /\ Insert([title |-> d.title, notes |-> d.notes, type |-> d.type,
                rec |-> d.rec, due |-> d.due, assignee |-> d.assignee,
                category |-> d.category, status |-> "pending",
                completed_by |-> NULL, completed_at |-> FALSE, parent |-> NULL], NULL)
        /\ ForeignKeysHold([title |-> d.title, notes |-> d.notes, type |-> d.type,
                rec |-> d.rec, due |-> d.due, assignee |-> d.assignee,
                category |-> d.category, status |-> "pending",
                completed_by |-> NULL, completed_at |-> FALSE, parent |-> NULL])
    BY <1>6 DEF Create
  <2> DEFINE row == [title |-> d.title, notes |-> d.notes, type |-> d.type,
                rec |-> d.rec, due |-> d.due, assignee |-> d.assignee,
                category |-> d.category, status |-> "pending",
                completed_by |-> NULL, completed_at |-> FALSE, parent |-> NULL]
  <2>1. row \in Row
    BY ValuesAssumption DEF Draft, Row
  <2>2. Insert(row, NULL) /\ ForeignKeysHold(row)
    OBVIOUS
  <2> HIDE DEF row
  <2> QED
    BY <1>3, <1>6, <2>1, <2>2, InsertAddsRow DEF Create
<1>7. CASE Midnight
  BY <1>2, <1>7 DEF Midnight
<1>8. ASSUME NEW id \in Live, Reopen(id) PROVE ForeignKeys'
  <2> DEFINE row == Reopened(tasks[id])
  <2>1. row \in Row /\ ForeignKeysHold(row)
    BY ReopenedType DEF SameTask, TypeOK, ForeignKeys, ForeignKeysHold
  <2>2. UpdateRow(id, row) /\ UNCHANGED <<people, categories>>
    BY <1>8 DEF Reopen, Reopened
  <2> HIDE DEF row
  <2> QED
    BY <1>1, <2>1, <2>2, UpdateRowType
<1>9. ASSUME NEW id \in Live, Snooze(id) PROVE ForeignKeys'
  <2> PICK n \in Presets :
        UpdateRow(id, Snoozed(tasks[id], [day |-> today + n, form |-> "date"]))
    BY <1>9 DEF Snooze, Snoozed
  <2> DEFINE row == Snoozed(tasks[id], [day |-> today + n, form |-> "date"])
  <2>0. [day |-> today + n, form |-> "date"] \in Due
    BY ValuesAssumption DEF Due, Forms, TypeOK
  <2>1. row \in Row /\ ForeignKeysHold(row)
    BY <2>0, SnoozedType DEF SameTask, TypeOK, ForeignKeys, ForeignKeysHold
  <2>2. UpdateRow(id, row) /\ UNCHANGED <<people, categories>>
    BY <1>9 DEF Snooze
  <2> HIDE DEF row
  <2> QED
    BY <1>1, <2>1, <2>2, UpdateRowType
<1>10. ASSUME NEW id \in Live, Delete(id) PROVE ForeignKeys'
  BY <1>10, NullAssumption DEF Delete, ForeignKeys, ForeignKeysHold, Live, TypeOK
<1>11. ASSUME NEW p \in Persons, AddPerson(p) \/ RemovePerson(p) PROVE ForeignKeys'
  BY <1>11 DEF AddPerson, RemovePerson, ForeignKeys, ForeignKeysHold, Live
<1>12. ASSUME NEW c \in Categories, AddCategory(c) \/ RemoveCategory(c) PROVE ForeignKeys'
  BY <1>12 DEF AddCategory, RemoveCategory, ForeignKeys, ForeignKeysHold, Live
<1>13. ASSUME NEW r \in Requests, NEW id \in Live, UpdateStart(r, id) \/ DoneRead(r, id)
       PROVE  ForeignKeys'
  BY <1>2, <1>13 DEF UpdateStart, DoneRead
<1>14. ASSUME NEW r \in Requests, NEW f \in Fields, UpdateField(r, f) PROVE ForeignKeys'
  <2> DEFINE id == req[r].id
             row == [tasks[id] EXCEPT ![f] = req[r].edit[f]]
  <2>1. req[r].edit \in Edit /\ req[r].edit[f] # Absent
    BY <1>14, RequestType DEF UpdateField, UpdateRequest
  <2>2. id \in Live => row \in Row
    BY <2>1, FieldType DEF TypeOK
  <2>3. \/ (id \in Live => ForeignKeysHold(row)) /\ UpdateRow(id, row)
        \/ UNCHANGED tasks
    BY <1>14 DEF UpdateField
  <2>4. UNCHANGED <<people, categories>>
    BY <1>14 DEF UpdateField
  <2> HIDE DEF row, id
  <2> QED
    BY <1>1, <1>2, <2>2, <2>3, <2>4, UpdateRowType
<1>15. ASSUME NEW r \in Requests, UpdateEnd(r) \/ Abort(r) PROVE ForeignKeys'
  BY <1>2, <1>15 DEF UpdateEnd, Abort
<1>16. ASSUME NEW r \in Requests, DoneUpdate(r) PROVE ForeignKeys'
  <2> DEFINE id == req[r].id
             row == [tasks[id] EXCEPT !.status = "done", !.completed_by = req[r].by,
                                      !.completed_at = TRUE]
  <2>1. req[r].by \in Persons \cup {NULL}
    BY <1>16, RequestType DEF DoneUpdate, DoneRequest
  <2>2. id \in Live => row \in Row
    <3>1. ASSUME NEW t \in Row
          PROVE  [t EXCEPT !.status = "done", !.completed_by = req[r].by,
                           !.completed_at = TRUE] \in Row
      BY <2>1 DEF Row
    <3> QED
      BY <3>1 DEF TypeOK
  <2>3. \/ (id \in Live => ForeignKeysHold(row)) /\ UpdateRow(id, row)
        \/ UNCHANGED tasks
    BY <1>16 DEF DoneUpdate
  <2>4. UNCHANGED <<people, categories>>
    BY <1>16 DEF DoneUpdate
  <2> HIDE DEF row, id
  <2> QED
    BY <1>1, <1>2, <2>2, <2>3, <2>4, UpdateRowType
<1>17. ASSUME NEW r \in Requests, DoneInsert(r) PROVE ForeignKeys'
  <2> DEFINE row == Successor(req[r].id, req[r].task)
  <2>1. req[r].id \in Nat /\ row \in Row
    BY <1>17, RequestType, SuccessorType DEF DoneInsert, InsertRequest
  <2>2. \/ ForeignKeysHold(row) /\ Insert(row, req[r].id)
        \/ UNCHANGED tasks
    BY <1>17 DEF DoneInsert
  <2>3. UNCHANGED <<people, categories>>
    BY <1>17 DEF DoneInsert
  <2> HIDE DEF row
  <2> QED
    BY <1>2, <1>3, <2>1, <2>2, <2>3, InsertAddsRow
<1>18. CASE UNCHANGED vars
  BY <1>2, <1>18 DEF vars
<1> QED
  BY <1>6, <1>7, <1>8, <1>9, <1>10, <1>11, <1>12, <1>13, <1>14, <1>15, <1>16, <1>17,
     <1>18 DEF Next

\* Deleting people, categories and tasks between the statements of other
\* requests never leaves a task that refers to a missing row.
THEOREM ForeignKeysAlwaysHold == Spec => []ForeignKeys
<1>1. Init => ForeignKeys
  BY DEF Init, ForeignKeys, Live
<1> QED
  BY <1>1, ForeignKeysStep, TypeCorrect, PTL DEF Spec

-----------------------------------------------------------------------------
(* Completion.                                                              *)

\* CompletionConsistent, of one row.
Agrees(row) ==
  /\ row.status = "done" => row.completed_at
  /\ row.status = "pending" => ~row.completed_at /\ row.completed_by = NULL

LEMMA CompletionStep == TypeOK /\ CompletionConsistent /\ [Next]_vars => CompletionConsistent'
<1> SUFFICES ASSUME TypeOK, \A i \in Live : Agrees(tasks[i]), [Next]_vars
             PROVE  \A i \in Live' : Agrees(tasks'[i])
  BY DEF CompletionConsistent, Agrees
<1> DEFINE Goal == \A i \in Live' : Agrees(tasks'[i])
<1> USE DEF tables, history
\* A step replaces one row, adds one, or changes none.
<1>1. ASSUME NEW id, NEW row, id \in Live => row \in Row /\ Agrees(row), UpdateRow(id, row)
      PROVE  Goal
  BY <1>1 DEF UpdateRow, Live, TypeOK
<1>2. ASSUME UNCHANGED tasks PROVE Goal
  BY <1>2 DEF Live
<1>3. ASSUME NEW row, NEW origin, Agrees(row), Insert(row, origin) PROVE Goal
  BY <1>3 DEF Insert, Live
<1> HIDE DEF Goal
<1>4. ASSUME Create PROVE Goal
  <2> PICK d \in Drafts :
        Insert([title |-> d.title, notes |-> d.notes, type |-> d.type,
                rec |-> d.rec, due |-> d.due, assignee |-> d.assignee,
                category |-> d.category, status |-> "pending",
                completed_by |-> NULL, completed_at |-> FALSE, parent |-> NULL], NULL)
    BY <1>4 DEF Create
  <2> DEFINE row == [title |-> d.title, notes |-> d.notes, type |-> d.type,
                rec |-> d.rec, due |-> d.due, assignee |-> d.assignee,
                category |-> d.category, status |-> "pending",
                completed_by |-> NULL, completed_at |-> FALSE, parent |-> NULL]
  <2>1. Agrees(row)
    BY DEF Agrees
  <2>2. Insert(row, NULL)
    OBVIOUS
  <2> HIDE DEF row
  <2> QED
    BY <1>3, <2>1, <2>2
<1>5. ASSUME NEW id \in Live, Reopen(id) PROVE Goal
  <2> DEFINE row == Reopened(tasks[id])
  <2>1. row \in Row /\ Agrees(row)
    BY ReopenedType DEF SameTask, TypeOK, Agrees
  <2>2. UpdateRow(id, row)
    BY <1>5 DEF Reopen, Reopened
  <2> HIDE DEF row
  <2> QED
    BY <1>1, <2>1, <2>2
<1>6. ASSUME NEW id \in Live, Snooze(id) PROVE Goal
  <2> PICK n \in Presets :
        UpdateRow(id, Snoozed(tasks[id], [day |-> today + n, form |-> "date"]))
    BY <1>6 DEF Snooze, Snoozed
  <2> DEFINE row == Snoozed(tasks[id], [day |-> today + n, form |-> "date"])
  <2>1. [day |-> today + n, form |-> "date"] \in Due
    BY ValuesAssumption DEF Due, Forms, TypeOK
  <2>2. row \in Row /\ Agrees(row)
    BY <2>1, SnoozedType DEF SameTask, TypeOK, Agrees
  <2> HIDE DEF row
  <2> QED
    BY <1>1, <2>2 DEF row
<1>7. ASSUME NEW id \in Live, Delete(id) PROVE Goal
  BY <1>7 DEF Delete, Live, Goal
<1>8. ASSUME NEW r \in Requests, NEW f \in Fields, UpdateField(r, f) PROVE Goal
  <2> DEFINE id == req[r].id
             row == [tasks[id] EXCEPT ![f] = req[r].edit[f]]
  <2>1. req[r].edit \in Edit /\ req[r].edit[f] # Absent
    BY <1>8, RequestType DEF UpdateField, UpdateRequest
  <2>2. id \in Live => row \in Row
    BY <2>1, FieldType DEF TypeOK
  <2>3. f \notin {"status", "completed_at", "completed_by"}
    BY DEF Fields, Earlier
  <2>4. id \in Live => Agrees(row)
    <3>1. ASSUME NEW t \in Row, NEW v
          PROVE  /\ [t EXCEPT ![f] = v].status = t.status
                 /\ [t EXCEPT ![f] = v].completed_at = t.completed_at
                 /\ [t EXCEPT ![f] = v].completed_by = t.completed_by
      BY <2>3 DEF Row
    <3>2. ASSUME id \in Live
          PROVE  /\ row.status = tasks[id].status
                 /\ row.completed_at = tasks[id].completed_at
                 /\ row.completed_by = tasks[id].completed_by
      BY <3>1, <3>2 DEF TypeOK
    <3> QED
      BY <3>2 DEF Agrees
  <2>5. UpdateRow(id, row) \/ UNCHANGED tasks
    BY <1>8 DEF UpdateField
  <2> HIDE DEF row, id
  <2> QED
    BY <1>1, <1>2, <2>2, <2>4, <2>5
<1>9. ASSUME NEW r \in Requests, DoneUpdate(r) PROVE Goal
  <2> DEFINE id == req[r].id
             row == [tasks[id] EXCEPT !.status = "done", !.completed_by = req[r].by,
                                      !.completed_at = TRUE]
  <2>1. req[r].by \in Persons \cup {NULL}
    BY <1>9, RequestType DEF DoneUpdate, DoneRequest
  <2>2. ASSUME NEW t \in Row
        PROVE  /\ [t EXCEPT !.status = "done", !.completed_by = req[r].by,
                            !.completed_at = TRUE] \in Row
               /\ Agrees([t EXCEPT !.status = "done", !.completed_by = req[r].by,
                                   !.completed_at = TRUE])
    BY <2>1 DEF Row, Agrees
  <2>3. id \in Live => row \in Row /\ Agrees(row)
    BY <2>2 DEF TypeOK
  <2>4. UpdateRow(id, row) \/ UNCHANGED tasks
    BY <1>9 DEF DoneUpdate
  <2> HIDE DEF row, id
  <2> QED
    BY <1>1, <1>2, <2>3, <2>4
<1>10. ASSUME NEW r \in Requests, DoneInsert(r) PROVE Goal
  <2> DEFINE row == Successor(req[r].id, req[r].task)
  <2>1. Agrees(row)
    <3>1. req[r].task \in Row
      BY <1>10, RequestType DEF DoneInsert, InsertRequest
    <3> QED
      BY <3>1 DEF Successor, Row, Agrees
  <2>2. Insert(row, req[r].id) \/ UNCHANGED tasks
    BY <1>10 DEF DoneInsert
  <2> HIDE DEF row
  <2> QED
    BY <1>2, <1>3, <2>1, <2>2
<1>11. ASSUME UNCHANGED tasks PROVE Goal
  BY <1>2, <1>11
<1> QED
  BY <1>4, <1>5, <1>6, <1>7, <1>8, <1>9, <1>10, <1>11
  DEF Goal, Next, vars, Midnight, AddPerson, RemovePerson, AddCategory, RemoveCategory,
      UpdateStart, DoneRead, UpdateEnd, Abort

\* However Done, Reopen, Snooze and edits overtake each other, a done task has a
\* completion time, and a pending one no trace of a completion.
THEOREM CompletionAlwaysConsistent == Spec => []CompletionConsistent
<1>1. Init => CompletionConsistent
  BY DEF Init, CompletionConsistent, Live
<1> QED
  BY <1>1, CompletionStep, TypeCorrect, PTL DEF Spec

-----------------------------------------------------------------------------
(* Chains and their history.                                                *)

\* The completed task a row came from is of the same chain, if it still exists.
Origins ==
  \A i \in Live : from[i] # NULL =>
    /\ from[i] \in 1..lastId
    /\ from[i] \in Live => Root(from[i]) = Root(i)

\* What a Done request read of its task's place in a chain is still so when it
\* acts on it: the row may have been edited or deleted since, but not moved.
SnapshotsCurrent ==
  \A r \in InFlight("done") \cup InFlight("insert") :
    LET id == req[r].id
        task == req[r].task
    IN /\ id \in Live => tasks[id].parent = task.parent /\ tasks[id].type = task.type
       /\ task.parent \in Live => /\ tasks[task.parent].parent = NULL
                                 /\ tasks[task.parent].type = task.type

\* Ids a Done request holds have been given out.
SnapshotIds ==
  \A r \in InFlight("done") \cup InFlight("insert") :
    /\ req[r].id \in 1..lastId
    /\ req[r].task.parent # NULL => req[r].task.parent \in 1..lastId
                                   /\ req[r].task.type = "recurring"

\* The inductive invariant: a chain keeps its shape because what a Done request
\* read of it stays true until its INSERT, which makes the new row's root.
ChainInv == TypeOK /\ ForeignKeys /\ ChainShape /\ SnapshotsCurrent /\ SnapshotIds /\ Origins

\* The root an occurrence is given is a root, and that of the task it came from.
LEMMA SuccessorRoot ==
  ASSUME ChainInv, NEW r \in InFlight("insert"),
         ForeignKeysHold(Successor(req[r].id, req[r].task))
  PROVE  LET row == Successor(req[r].id, req[r].task)
         IN /\ row.type = "recurring" /\ row.parent \in Live
            /\ tasks[row.parent].parent = NULL /\ tasks[row.parent].type = "recurring"
            /\ req[r].id \in 1..lastId
            /\ req[r].id \in Live => Root(req[r].id) = row.parent
<1> DEFINE id == req[r].id
           task == req[r].task
           row == Successor(id, task)
<1>1. r \in Requests /\ task \in Row /\ id \in Nat /\ HasNextDate(task)
  BY RequestType DEF ChainInv, InFlight, InsertRequest
<1>2. /\ row.type = "recurring"
      /\ row.parent = IF task.parent = NULL THEN id ELSE task.parent
  BY <1>1 DEF Successor, Row, HasNextDate, IsRecurring
<1>3. row.parent \in Live
  BY <1>1, <1>2, NullAssumption DEF ForeignKeysHold, Row
<1>4. /\ id \in Live => tasks[id].parent = task.parent /\ tasks[id].type = task.type
      /\ task.parent \in Live => /\ tasks[task.parent].parent = NULL
                                /\ tasks[task.parent].type = task.type
      /\ id \in 1..lastId
  BY DEF ChainInv, SnapshotsCurrent, SnapshotIds
<1>5. task.type = "recurring"
  BY <1>1 DEF HasNextDate, IsRecurring
<1>6. /\ tasks[row.parent].parent = NULL
      /\ tasks[row.parent].type = "recurring"
      /\ id \in Live => Root(id) = row.parent
  BY <1>2, <1>3, <1>4, <1>5 DEF Root
<1> QED
  BY <1>2, <1>3, <1>4, <1>6

LEMMA ChainShapeStep == ChainInv /\ ForeignKeys' /\ TypeOK' /\ [Next]_vars => ChainShape'
<1> SUFFICES ASSUME ChainInv, ForeignKeys', TypeOK', [Next]_vars PROVE ChainShape'
  OBVIOUS
<1>1. CASE RowsKept
  <2> SUFFICES ASSUME NEW i \in Live', tasks'[i].parent # NULL
               PROVE  /\ tasks'[tasks'[i].parent].parent = NULL
                      /\ tasks'[i].type = "recurring"
                      /\ tasks'[tasks'[i].parent].type = "recurring"
    BY DEF ChainShape
  <2>1. tasks'[i].parent \in Live'
    BY DEF ForeignKeys, ForeignKeysHold
  <2> QED
    BY <1>1, <2>1 DEF RowsKept, ChainInv, ChainShape
<1>2. ASSUME NEW row, NEW origin, RowAdded(row, origin),
             row.parent # NULL => /\ row.type = "recurring" /\ row.parent \in Live
                                  /\ tasks[row.parent].parent = NULL
                                  /\ tasks[row.parent].type = "recurring"
      PROVE  ChainShape'
  <2>1. \A i \in Live : tasks[i].parent \in Live \cup {NULL}
    BY DEF ChainInv, ForeignKeys, ForeignKeysHold
  <2> QED
    BY <1>2, <2>1 DEF RowAdded, ChainInv, ChainShape
<1>3. CASE RootAdded
  BY <1>2, <1>3 DEF RootAdded
<1>4. CASE OccurrenceAdded
  BY <1>2, <1>4, SuccessorRoot DEF OccurrenceAdded
<1> QED
  BY <1>1, <1>3, <1>4, StepShape DEF ChainInv

LEMMA SnapshotStep == ChainInv /\ [Next]_vars => SnapshotsCurrent' /\ SnapshotIds'
<1> SUFFICES ASSUME ChainInv, [Next]_vars,
                    NEW r \in Requests, req'[r].op \in {"done", "insert"}
             PROVE  LET id == req'[r].id
                        task == req'[r].task
                    IN /\ id \in Live' => tasks'[id].parent = task.parent
                                          /\ tasks'[id].type = task.type
                       /\ task.parent \in Live' => /\ tasks'[task.parent].parent = NULL
                                                   /\ tasks'[task.parent].type = task.type
                       /\ id \in 1..lastId'
                       /\ task.parent # NULL => task.parent \in 1..lastId'
                                                /\ task.type = "recurring"
  BY DEF SnapshotsCurrent, SnapshotIds, InFlight
<1> DEFINE id == req'[r].id
           task == req'[r].task
<1>1. lastId \in Nat /\ lastId' \in Nat /\ lastId \leq lastId'
  BY StepShape DEF ChainInv, TypeOK, RowsKept, RootAdded, OccurrenceAdded, RowAdded
\* What the request holds is true of the tables before the step ...
<1>2. /\ id \in Live => tasks[id].parent = task.parent /\ tasks[id].type = task.type
      /\ task.parent \in Live => /\ tasks[task.parent].parent = NULL
                                /\ tasks[task.parent].type = task.type
      /\ id \in 1..lastId
      /\ task.parent # NULL => task.parent \in 1..lastId /\ task.type = "recurring"
  <2>1. CASE /\ req[r].op \in {"done", "insert"}
             /\ id = req[r].id /\ task = req[r].task
    BY <2>1 DEF ChainInv, SnapshotsCurrent, SnapshotIds, InFlight
  <2>2. CASE /\ UNCHANGED <<tasks, lastId, from>> /\ id \in Live
             /\ task.parent = tasks[id].parent /\ task.type = tasks[id].type
    <3>1. id \in 1..lastId /\ tasks[id].parent \in Live \cup {NULL} /\ Live \subseteq 1..lastId
      BY <2>2 DEF ChainInv, TypeOK, ForeignKeys, ForeignKeysHold
    <3>2. NULL \notin Live
      BY <1>1, <3>1, NullIsNoId
    <3> QED
      BY <2>2, <3>1, <3>2 DEF ChainInv, ChainShape
  <2> QED
    BY <2>1, <2>2, RequestStep DEF ChainInv
\* ... and after it, for an id given out before the step keeps its identity.
<1>3. \A i \in 1..lastId : i \in Live' =>
        /\ i \in Live
        /\ tasks'[i].parent = tasks[i].parent /\ tasks'[i].type = tasks[i].type
  BY IdentityStep DEF ChainInv
<1>4. NULL \notin Live'
  BY <1>1, TypeStep, NullIsNoId DEF ChainInv, TypeOK
<1>5. /\ id \in Live' => tasks'[id].parent = task.parent /\ tasks'[id].type = task.type
      /\ id \in 1..lastId'
  BY <1>1, <1>2, <1>3
<1>6. CASE task.parent = NULL
  BY <1>4, <1>5, <1>6
<1>7. CASE task.parent # NULL
  BY <1>1, <1>2, <1>3, <1>5, <1>7
<1> QED
  BY <1>6, <1>7

LEMMA OriginsStep == ChainInv /\ [Next]_vars => Origins'
<1> SUFFICES ASSUME ChainInv, [Next]_vars PROVE Origins'
  OBVIOUS
<1>0. lastId \in Nat /\ Live \subseteq 1..lastId /\ NULL \notin Live
  BY NullIsNoId DEF ChainInv, TypeOK
<1>1. \A i \in Live : from[i] # NULL => /\ from[i] \in 1..lastId
                                        /\ from[i] \in Live => Root(from[i]) = Root(i)
  BY DEF ChainInv, Origins
<1>2. CASE RowsKept
  <2>1. \A i \in Live' : i \in Live /\ Root(i)' = Root(i) /\ from'[i] = from[i]
    BY <1>2 DEF RowsKept, Root
  <2>2. lastId' = lastId
    BY <1>2 DEF RowsKept
  <2> QED
    BY <1>1, <2>1, <2>2 DEF Origins
<1>3. ASSUME NEW row, NEW origin, RowAdded(row, origin),
             origin # NULL => /\ origin \in 1..lastId /\ row.parent # NULL
                              /\ origin \in Live => Root(origin) = row.parent
      PROVE  Origins'
  <2> PICK n : n = lastId'
    OBVIOUS
  <2>0. /\ n = lastId + 1 /\ Live' = Live \cup {n} /\ n \notin Live
        /\ 1..lastId \subseteq 1..n /\ n \notin 1..lastId
    BY <1>0, <1>3 DEF RowAdded
  <2>1. \A i \in Live : Root(i)' = Root(i) /\ from'[i] = from[i]
    BY <1>3 DEF RowAdded, Root
  <2>2. from'[n] = origin /\ (row.parent # NULL => Root(n)' = row.parent)
    BY <1>3 DEF RowAdded, Root
  <2>3. ASSUME NEW i \in Live, NEW o, o = from'[i], o # NULL
        PROVE  o \in 1..n /\ (o \in Live' => Root(o)' = Root(i)')
    <3>1. o \in 1..lastId /\ (o \in Live => Root(o) = Root(i))
      BY <1>1, <2>1, <2>3
    <3> QED
      BY <2>0, <2>1, <3>1
  <2>4. ASSUME origin # NULL
        PROVE  origin \in 1..n /\ (origin \in Live' => Root(origin)' = Root(n)')
    BY <1>3, <2>0, <2>1, <2>2, <2>4
  <2>5. ASSUME NEW i \in Live', NEW o, o = from'[i], o # NULL
        PROVE  o \in 1..n /\ (o \in Live' => Root(o)' = Root(i)')
    BY <2>0, <2>2, <2>3, <2>4, <2>5
  <2>6. ASSUME NEW i \in Live', (from[i] # NULL)'
        PROVE  (from[i] \in 1..lastId /\ (from[i] \in Live => Root(from[i]) = Root(i)))'
    <3> PICK o : o = from'[i]
      OBVIOUS
    <3>1. o \in 1..n /\ (o \in Live' => Root(o)' = Root(i)')
      BY <2>5, <2>6
    <3> QED
      BY <3>1 DEF Root
  <2> QED
    BY <2>6 DEF Origins
<1>4. CASE RootAdded
  BY <1>3, <1>4 DEF RootAdded
<1>5. CASE OccurrenceAdded
  <2> PICK r \in InFlight("insert") :
        /\ ForeignKeysHold(Successor(req[r].id, req[r].task))
        /\ RowAdded(Successor(req[r].id, req[r].task), req[r].id)
    BY <1>5 DEF OccurrenceAdded
  <2> QED
    BY <1>0, <1>3, SuccessorRoot
<1> QED
  BY <1>2, <1>4, <1>5, StepShape DEF ChainInv

\* References, chains, snapshots and origins stay right together, at every step.
THEOREM ChainInvariant == Spec => []ChainInv
<1>1. Init => ChainInv
  BY ValuesAssumption DEF Init, ChainInv, TypeOK, Live, Request, ForeignKeys, ChainShape, SnapshotsCurrent,
     SnapshotIds, Origins, InFlight, Idle
<1>2. ChainInv /\ [Next]_vars => ChainInv'
  <2> SUFFICES ASSUME ChainInv, [Next]_vars PROVE ChainInv'
    OBVIOUS
  <2>1. TypeOK' /\ ForeignKeys'
    BY TypeStep, ForeignKeysStep DEF ChainInv
  <2>2. ChainShape'
    BY <2>1, ChainShapeStep
  <2> QED
    BY <2>1, <2>2, SnapshotStep, OriginsStep DEF ChainInv
<1> QED
  BY <1>1, <1>2, PTL DEF Spec

\* The chain of occurrences is one level deep, whatever requests interleave.
THEOREM ChainsKeepShape == Spec => []ChainShape
  BY ChainInvariant, PTL DEF ChainInv

\* Between its SELECT and its INSERT, a Done request's view of the chain is right.
THEOREM SnapshotsStayCurrent == Spec => []SnapshotsCurrent
  BY ChainInvariant, PTL DEF ChainInv

\* An occurrence and the completed task it came from show one and the same history.
THEOREM HistoryIsUnbroken == Spec => []HistoryUnbroken
<1>1. ChainInv => HistoryUnbroken
  <2> SUFFICES ASSUME ChainInv, NEW i \in Live, from[i] \in Live
               PROVE  /\ History(i) = History(from[i])
                      /\ tasks[from[i]].status = "done" => from[i] \in History(i)
    BY DEF HistoryUnbroken
  <2>1. from[i] # NULL
    BY NullIsNoId DEF ChainInv, TypeOK
  <2>2. Root(from[i]) = Root(i)
    BY <2>1 DEF ChainInv, Origins
  <2>3. from[i] = Root(i) \/ tasks[from[i]].parent = Root(i)
    BY <2>2 DEF Root
  <2> QED
    BY <2>2, <2>3 DEF History
<1> QED
  BY <1>1, ChainInvariant, PTL

-----------------------------------------------------------------------------
(* The next occurrence. That a completion makes exactly one is false when    *)
(* requests overlap or dates come back as timestamps; it is proved here for  *)
(* every client that waits for its answers.                                  *)

\* What a step may do to a row that is there before and after it.
RowChanged(i) ==
  \/ tasks'[i] = tasks[i]
  \/ tasks'[i] = Reopened(tasks[i]) /\ Root(i) \in reopened'
  \/ /\ Offered(i, {"pending"})
     /\ \E day \in Int : tasks'[i] = Snoozed(tasks[i], [day |-> day, form |-> "date"])
  \/ \E r \in Requests, f \in Fields :
       /\ req[r].op = "update" /\ req[r].edit[f] # Absent
       /\ tasks'[i] = [tasks[i] EXCEPT ![f] = req[r].edit[f]]
  \/ \E r \in Requests :
       /\ DoneUpdate(r) /\ req[r].op = "done" /\ req[r].id = i
       /\ tasks'[i] = [tasks[i] EXCEPT !.status = "done", !.completed_by = req[r].by,
                                       !.completed_at = TRUE]

LEMMA RowStep ==
  ASSUME TypeOK, [Next]_vars
  PROVE  /\ reopened \subseteq reopened'
         /\ \A i \in Live \cap Live' : RowChanged(i)
<1> USE DEF tables, history
<1> DEFINE Goal == /\ reopened \subseteq reopened'
                   /\ \A i \in Live \cap Live' : RowChanged(i)
<1>1. ASSUME UNCHANGED reopened, \A i \in Live \cap Live' : tasks'[i] = tasks[i]
      PROVE  Goal
  BY <1>1 DEF RowChanged
\* UpdateRow changes one row, if any.
<1>2. ASSUME reopened \subseteq reopened', NEW id, NEW row, UpdateRow(id, row),
             id \in Live /\ tasks'[id] = row => RowChanged(id)
      PROVE  Goal
  <2>1. ASSUME NEW i \in Live PROVE (i = id /\ tasks'[i] = row) \/ tasks'[i] = tasks[i]
    BY <1>2 DEF UpdateRow, TypeOK
  <2>2. ASSUME NEW i \in Live PROVE RowChanged(i)
    <3>1. CASE i = id /\ tasks'[i] = row
      BY <1>2, <3>1
    <3>2. CASE tasks'[i] = tasks[i]
      BY <3>2 DEF RowChanged
    <3> QED
      BY <2>1, <3>1, <3>2
  <2> QED
    BY <1>2, <2>2
<1> HIDE DEF Goal
<1>3. ASSUME Create PROVE Goal
  <2>1. UNCHANGED reopened /\ \A i \in Live : tasks'[i] = tasks[i]
    BY <1>3 DEF Create, Insert, TypeOK, Live
  <2> QED
    BY <1>1, <2>1
<1>4. ASSUME NEW id \in Live, Reopen(id) PROVE Goal
  <2>1. UpdateRow(id, Reopened(tasks[id])) /\ reopened' = reopened \cup {Root(id)}
    BY <1>4 DEF Reopen, Reopened
  <2> QED
    BY <1>2, <2>1 DEF RowChanged
<1>5. ASSUME NEW id \in Live, Snooze(id) PROVE Goal
  <2>1. PICK n \in Presets :
          UpdateRow(id, Snoozed(tasks[id], [day |-> today + n, form |-> "date"]))
    BY <1>5 DEF Snooze, Snoozed
  <2>2. today + n \in Int /\ Offered(id, {"pending"}) /\ UNCHANGED reopened
    BY <1>5, ValuesAssumption DEF Snooze, TypeOK
  <2> QED
    BY <1>2, <2>1, <2>2 DEF RowChanged
<1>6. ASSUME NEW id \in Live, Delete(id) PROVE Goal
  <2>1. UNCHANGED reopened /\ \A i \in Live \cap Live' : tasks'[i] = tasks[i]
    BY <1>6 DEF Delete, Live
  <2> QED
    BY <1>1, <2>1
<1>7. ASSUME UNCHANGED <<tasks, reopened>> PROVE Goal
  BY <1>1, <1>7
<1>8. ASSUME NEW p \in Persons, AddPerson(p) \/ RemovePerson(p) PROVE Goal
  BY <1>7, <1>8 DEF AddPerson, RemovePerson
<1>9. ASSUME NEW c \in Categories, AddCategory(c) \/ RemoveCategory(c) PROVE Goal
  BY <1>7, <1>9 DEF AddCategory, RemoveCategory
<1>10. ASSUME NEW r \in Requests, NEW id \in Live, UpdateStart(r, id) \/ DoneRead(r, id)
       PROVE  Goal
  BY <1>7, <1>10 DEF UpdateStart, DoneRead
<1>11. ASSUME NEW r \in Requests, NEW f \in Fields, UpdateField(r, f) PROVE Goal
  <2> DEFINE id == req[r].id
             row == [tasks[id] EXCEPT ![f] = req[r].edit[f]]
  <2>1. /\ req[r].op = "update" /\ req[r].edit[f] # Absent /\ UNCHANGED reopened
        /\ UpdateRow(id, row) \/ UNCHANGED tasks
    BY <1>11 DEF UpdateField
  <2>2. tasks'[id] = row => RowChanged(id)
    BY <2>1 DEF RowChanged
  <2> HIDE DEF row, id
  <2> QED
    BY <1>2, <1>7, <2>1, <2>2
<1>12. ASSUME NEW r \in Requests, UpdateEnd(r) \/ Abort(r) PROVE Goal
  BY <1>7, <1>12 DEF UpdateEnd, Abort
<1>13. ASSUME NEW r \in Requests, DoneUpdate(r) PROVE Goal
  <2> DEFINE id == req[r].id
             row == [tasks[id] EXCEPT !.status = "done", !.completed_by = req[r].by,
                                      !.completed_at = TRUE]
  <2>1. /\ req[r].op = "done" /\ UNCHANGED reopened
        /\ UpdateRow(id, row) \/ UNCHANGED tasks
    BY <1>13 DEF DoneUpdate
  <2>2. tasks'[id] = row => RowChanged(id)
    BY <1>13, <2>1 DEF RowChanged
  <2> HIDE DEF row, id
  <2> QED
    BY <1>2, <1>7, <2>1, <2>2
<1>14. ASSUME NEW r \in Requests, DoneInsert(r) PROVE Goal
  <2>1. UNCHANGED reopened /\ (UNCHANGED tasks \/ \E row : Insert(row, req[r].id))
    BY <1>14 DEF DoneInsert
  <2>2. \A i \in Live : tasks'[i] = tasks[i]
    BY <2>1 DEF Insert, TypeOK, Live
  <2> QED
    BY <1>1, <2>1, <2>2
<1>15. ASSUME Midnight \/ UNCHANGED vars PROVE Goal
  BY <1>7, <1>15 DEF Midnight, vars
<1>16. Goal
  BY <1>3, <1>4, <1>5, <1>6, <1>8, <1>9, <1>10, <1>11, <1>12, <1>13, <1>14, <1>15 DEF Next
<1> QED
  BY <1>16 DEF Goal

\* What a step may do to a request.
JustRead(r) ==
  /\ UNCHANGED <<tables, history>>
  /\ \E id \in Live, by \in Persons \cup {NULL}, parses \in DriverModes :
       /\ Offered(id, {"pending", "snoozed"})
       /\ req'[r] = [op |-> "done", id |-> id, by |-> by,
                     task |-> [tasks[id] EXCEPT !.due = ScanDue(@, parses)]]
JustDone(r) ==
  /\ req[r].op = "done" /\ req'[r] = [req[r] EXCEPT !.op = "insert"]
  /\ req[r].id \in Live => tasks'[req[r].id].status = "done"
RequestChanged(r) ==
  \/ req'[r] = req[r] \/ req'[r] = Idle
  \/ req'[r].op = "update" /\ req'[r].edit \in Edits
  \/ \E f \in Fields : req[r].op = "update" /\ req'[r] = [req[r] EXCEPT !.edit[f] = Absent]
  \/ JustRead(r) \/ JustDone(r)

LEMMA RequestsStep ==
  ASSUME TypeOK, [Next]_vars
  PROVE  \A r \in Requests : RequestChanged(r)
<1> USE DEF tables, history
<1> DEFINE Goal == \A r \in Requests : RequestChanged(r)
\* A step takes at most one request further.
<1>1. ASSUME UNCHANGED req PROVE Goal
  BY <1>1 DEF RequestChanged
<1>2. ASSUME NEW q \in Requests, NEW new, req' = [req EXCEPT ![q] = new],
             req'[q] = new => RequestChanged(q)
      PROVE  Goal
  <2>1. req'[q] = new /\ \A r \in Requests \ {q} : req'[r] = req[r]
    BY <1>2 DEF TypeOK
  <2> QED
    BY <1>2, <2>1 DEF RequestChanged
<1>3. ASSUME NEW q \in Requests, req' = [req EXCEPT ![q] = Idle] PROVE Goal
  BY <1>2, <1>3 DEF RequestChanged
<1> HIDE DEF Goal
<1>4. ASSUME Create \/ Midnight \/ UNCHANGED vars PROVE Goal
  BY <1>1, <1>4 DEF Create, Midnight, vars
<1>5. ASSUME NEW id \in Live, Reopen(id) \/ Snooze(id) \/ Delete(id) PROVE Goal
  BY <1>1, <1>5 DEF Reopen, Snooze, Delete
<1>6. ASSUME NEW p \in Persons, AddPerson(p) \/ RemovePerson(p) PROVE Goal
  BY <1>1, <1>6 DEF AddPerson, RemovePerson
<1>7. ASSUME NEW c \in Categories, AddCategory(c) \/ RemoveCategory(c) PROVE Goal
  BY <1>1, <1>7 DEF AddCategory, RemoveCategory
<1>8. ASSUME NEW q \in Requests, NEW id \in Live, UpdateStart(q, id) PROVE Goal
  <2>1. PICK e \in Edits : req' = [req EXCEPT ![q] = [op |-> "update", id |-> id, edit |-> e]]
    BY <1>8 DEF UpdateStart
  <2> DEFINE new == [op |-> "update", id |-> id, edit |-> e]
  <2>2. req'[q] = new => RequestChanged(q)
    BY DEF RequestChanged
  <2> HIDE DEF new
  <2> QED
    BY <1>2, <2>1, <2>2 DEF new
<1>9. ASSUME NEW q \in Requests, NEW id \in Live, DoneRead(q, id) PROVE Goal
  <2>1. PICK by \in Persons \cup {NULL}, parses \in DriverModes :
          req' = [req EXCEPT ![q] = [op |-> "done", id |-> id, by |-> by,
                    task |-> [tasks[id] EXCEPT !.due = ScanDue(@, parses)]]]
    BY <1>9 DEF DoneRead
  <2>2. Offered(id, {"pending", "snoozed"}) /\ UNCHANGED <<tables, history>>
    BY <1>9 DEF DoneRead
  <2> DEFINE new == [op |-> "done", id |-> id, by |-> by,
                     task |-> [tasks[id] EXCEPT !.due = ScanDue(@, parses)]]
  <2>3. req'[q] = new => RequestChanged(q)
    BY <2>2 DEF RequestChanged, JustRead
  <2> HIDE DEF new
  <2> QED
    BY <1>2, <2>1, <2>3 DEF new
<1>10. ASSUME NEW q \in Requests, NEW f \in Fields, UpdateField(q, f) PROVE Goal
  <2>1. CASE req' = [req EXCEPT ![q].edit[f] = Absent]
    <3> DEFINE new == [req[q] EXCEPT !.edit[f] = Absent]
    <3>1. req' = [req EXCEPT ![q] = new] /\ (req'[q] = new => RequestChanged(q))
      BY <1>10, <2>1 DEF UpdateField, RequestChanged
    <3> HIDE DEF new
    <3> QED
      BY <1>2, <3>1
  <2>2. CASE req' = [req EXCEPT ![q] = Idle]
    BY <1>3, <2>2
  <2> QED
    BY <1>10, <2>1, <2>2 DEF UpdateField
<1>11. ASSUME NEW q \in Requests, UpdateEnd(q) \/ Abort(q) \/ DoneInsert(q) PROVE Goal
  BY <1>3, <1>11 DEF UpdateEnd, Abort, DoneInsert
<1>12. ASSUME NEW q \in Requests, DoneUpdate(q) PROVE Goal
  <2> DEFINE id == req[q].id
             row == [tasks[id] EXCEPT !.status = "done", !.completed_by = req[q].by,
                                      !.completed_at = TRUE]
             new == [req[q] EXCEPT !.op = "insert"]
  <2>1. CASE req' = [req EXCEPT ![q] = Idle]
    BY <1>3, <2>1
  <2>2. CASE req' = [req EXCEPT ![q] = new] /\ UpdateRow(id, row)
    <3>1. id \in Live => tasks[id] \in Row /\ tasks'[id] = row
      BY <2>2 DEF UpdateRow, TypeOK
    <3>2. id \in Live => tasks'[id].status = "done"
      BY <3>1 DEF Row
    <3>3. req'[q] = new => RequestChanged(q)
      BY <1>12, <3>2 DEF DoneUpdate, RequestChanged, JustDone
    <3> HIDE DEF new, row
    <3> QED
      BY <1>2, <2>2, <3>3
  <2> QED
    BY <1>12, <2>1, <2>2 DEF DoneUpdate
<1>13. Goal
  BY <1>4, <1>5, <1>6, <1>7, <1>8, <1>9, <1>10, <1>11, <1>12 DEF Next
<1> QED
  BY <1>13 DEF Goal

\* The browser waits for the answer to a request before it sends the next one.
OneAtATime == \A q, r \in Requests : q = r

Doing == InFlight("done") \cup InFlight("insert")

\* The root of the chain a Done request will add to.
RequestRoot(q) == IF q.task.parent = NULL THEN q.id ELSE q.task.parent

\* The task that a Done request completes is the last open one of its chain.
CompletesLast ==
  \A r \in Doing : RequestRoot(req[r]) \notin reopened =>
    \A j \in Live : Root(j) = RequestRoot(req[r]) =>
      tasks[j].status = "done" \/ (req[r].op = "done" /\ j = req[r].id)

\* On an up-to-date page nothing but a reopening undoes a completion.
LEMMA StatusStep ==
  ASSUME TypeOK, FreshUI, [Next]_vars, NEW i \in Live, i \in Live', tasks[i].status = "done"
  PROVE  tasks'[i].status = "done" \/ Root(i) \in reopened'
<1>1. tasks[i] \in Row /\ RowChanged(i)
  BY RowStep DEF TypeOK
<1>2. CASE tasks'[i] = tasks[i]
  BY <1>2
<1>3. CASE Offered(i, {"pending"})
  BY <1>3 DEF Offered
<1>4. ASSUME NEW r \in Requests, NEW f \in Fields,
             tasks'[i] = [tasks[i] EXCEPT ![f] = req[r].edit[f]]
      PROVE  tasks'[i].status = "done"
  BY <1>1, <1>4 DEF Row, Fields, Earlier
<1>5. ASSUME NEW r \in Requests,
             tasks'[i] = [tasks[i] EXCEPT !.status = "done", !.completed_by = req[r].by,
                                          !.completed_at = TRUE]
      PROVE  tasks'[i].status = "done"
  BY <1>1, <1>5 DEF Row
<1> QED
  BY <1>1, <1>2, <1>3, <1>4, <1>5 DEF RowChanged

\* A Done request in flight after a step: it waited, has just completed its task,
\* or has just read it.
LEMMA DoingStep ==
  ASSUME TypeOK, [Next]_vars, NEW r \in Requests, req'[r].op \in {"done", "insert"}
  PROVE  \/ req'[r] = req[r]
         \/ /\ JustDone(r) /\ req'[r].op = "insert"
            /\ req'[r].id = req[r].id /\ req'[r].task = req[r].task
         \/ /\ JustRead(r) /\ req'[r].op = "done" /\ req'[r].id \in Live
            /\ Offered(req'[r].id, {"pending", "snoozed"})
            /\ \E parses \in DriverModes :
                 LET task == tasks[req'[r].id]
                 IN req'[r].task = [task EXCEPT !.due = ScanDue(@, parses)]
<1>1. RequestChanged(r) /\ Idle.op = "idle"
  BY RequestsStep DEF Idle
<1>2. ASSUME NEW f \in Fields, req[r].op = "update", req'[r] = [req[r] EXCEPT !.edit[f] = Absent]
      PROVE  FALSE
  <2>1. req[r] \in UpdateRequest
    BY <1>2, RequestType
  <2> QED
    BY <1>2, <2>1 DEF UpdateRequest
<1>3. CASE JustDone(r)
  <2>1. req[r] \in DoneRequest
    BY <1>3, RequestType DEF JustDone
  <2> QED
    BY <1>3, <2>1 DEF JustDone, DoneRequest
<1>4. CASE JustRead(r)
  BY <1>4 DEF JustRead
<1> QED
  BY <1>1, <1>2, <1>3, <1>4 DEF RequestChanged

LEMMA CompletionStepsOnce ==
  ASSUME ChainInv, OneOpenOccurrence, CompletesLast, OneAtATime, FreshUI, [Next]_vars
  PROVE  OneOpenOccurrence' /\ CompletesLast'
<1>0. /\ TypeOK /\ lastId \in Nat /\ Live \subseteq 1..lastId /\ NULL \notin 1..lastId
      /\ \A i \in Live : Root(i) \in Live
  <2>1. TypeOK /\ lastId \in Nat /\ Live \subseteq 1..lastId /\ NULL \notin 1..lastId
    BY NullIsNoId DEF ChainInv, TypeOK
  <2> QED
    BY <2>1 DEF ChainInv, ForeignKeys, ForeignKeysHold, Root
<1>1. /\ reopened \subseteq reopened'
      /\ \A i \in Live \cap Live' : /\ Root(i)' = Root(i)
                                    /\ tasks[i].status = "done" /\ Root(i) \notin reopened' =>
                                         tasks'[i].status = "done"
  BY <1>0, RowStep, StatusStep, IdentityStep DEF Root
<1>2. \A r \in Doing : RequestRoot(req[r]) \in 1..lastId
  BY DEF ChainInv, SnapshotIds, Doing, RequestRoot
<1>3. \A r \in Requests : req'[r].op \in {"done", "insert"} =>
        \/ req'[r] = req[r]
        \/ /\ req[r].op = "done" /\ req'[r].op = "insert"
           /\ req'[r].id = req[r].id /\ req'[r].task = req[r].task
           /\ req[r].id \in Live => tasks'[req[r].id].status = "done"
        \/ /\ UNCHANGED <<tasks, lastId, reopened>> /\ req'[r].op = "done" /\ req'[r].id \in Live
           /\ tasks[req'[r].id].status # "done"
           /\ RequestRoot(req'[r]) = Root(req'[r].id)
  <2> SUFFICES ASSUME NEW r \in Requests, req'[r].op \in {"done", "insert"}, JustRead(r),
                      req'[r].op = "done", req'[r].id \in Live,
                      Offered(req'[r].id, {"pending", "snoozed"}),
                      NEW parses \in DriverModes,
                      req'[r].task = [tasks[req'[r].id] EXCEPT !.due = ScanDue(@, parses)]
               PROVE  /\ UNCHANGED <<tasks, lastId, reopened>>
                      /\ tasks[req'[r].id].status # "done"
                      /\ RequestRoot(req'[r]) = Root(req'[r].id)
    BY <1>0, DoingStep DEF JustDone
  <2>1. tasks[req'[r].id] \in Row
    BY <1>0 DEF TypeOK
  <2>2. req'[r].task.parent = tasks[req'[r].id].parent
    BY <2>1 DEF Row
  <2> QED
    BY <2>2 DEF JustRead, tables, history, Offered, RequestRoot, Root
<1>4. CASE RowsKept
  <2>1. OneOpenOccurrence'
    BY <1>1, <1>4 DEF OneOpenOccurrence, RowsKept
  <2>2. ASSUME NEW r \in Requests, req'[r].op \in {"done", "insert"},
               RequestRoot(req'[r]) \notin reopened', NEW j \in Live',
               Root(j)' = RequestRoot(req'[r])
        PROVE  tasks'[j].status = "done" \/ (req'[r].op = "done" /\ j = req'[r].id)
    <3>1. j \in Live /\ Root(j) = RequestRoot(req'[r]) /\ Root(j) \notin reopened'
          /\ (tasks[j].status = "done" => tasks'[j].status = "done")
      BY <1>1, <1>4, <2>2 DEF RowsKept
    <3>2. CASE req'[r] = req[r]
      BY <1>1, <2>2, <3>1, <3>2 DEF CompletesLast, Doing, InFlight
    <3>3. CASE /\ req[r].op = "done" /\ req'[r].op = "insert"
               /\ req'[r].id = req[r].id /\ req'[r].task = req[r].task
               /\ req[r].id \in Live => tasks'[req[r].id].status = "done"
      <4>1. RequestRoot(req'[r]) = RequestRoot(req[r])
        BY <3>3 DEF RequestRoot
      <4>2. tasks[j].status = "done" \/ j = req[r].id
        BY <1>1, <2>2, <3>1, <3>3, <4>1 DEF CompletesLast, Doing, InFlight
      <4> QED
        BY <3>1, <3>3, <4>2
    <3>4. CASE /\ UNCHANGED <<tasks, lastId, reopened>> /\ req'[r].op = "done" /\ req'[r].id \in Live
               /\ tasks[req'[r].id].status # "done"
               /\ RequestRoot(req'[r]) = Root(req'[r].id)
      BY <1>1, <3>1, <3>4 DEF OneOpenOccurrence
    <3> QED
      BY <1>3, <2>2, <3>2, <3>3, <3>4
  <2>3. CompletesLast'
    BY <2>2 DEF CompletesLast, Doing, InFlight, Root, RequestRoot
  <2> QED
    BY <2>1, <2>3
<1>5. ASSUME NEW row, NEW origin, NEW n, n = lastId', RowAdded(row, origin)
      PROVE  /\ Live' = Live \cup {n} /\ n \notin 1..lastId /\ lastId' # lastId
             /\ \A i \in Live : tasks'[i] = tasks[i] /\ Root(i)' = Root(i)
             /\ tasks'[n] = row /\ Root(n)' = IF row.parent = NULL THEN n ELSE row.parent
  BY <1>0, <1>5 DEF RowAdded, Root
<1>6. CASE RootAdded
  <2> PICK row \in Row : row.parent = NULL /\ RowAdded(row, NULL)
    BY <1>6 DEF RootAdded
  <2> PICK n : n = lastId'
    OBVIOUS
  <2>1. /\ Live' = Live \cup {n} /\ n \notin 1..lastId /\ lastId' # lastId
        /\ \A i \in Live : tasks'[i] = tasks[i] /\ Root(i)' = Root(i) /\ Root(i) # n
        /\ Root(n)' = n
    BY <1>0, <1>5
  <2>2. OneOpenOccurrence'
    <3>1. ASSUME NEW i \in Live', NEW j \in Live', Root(i)' = Root(j)', Root(i)' \notin reopened',
                 tasks'[i].status # "done", tasks'[j].status # "done"
          PROVE  i = j
      BY <1>1, <2>1, <3>1 DEF OneOpenOccurrence
    <3> QED
      BY <3>1 DEF OneOpenOccurrence, Root
  <2>3. ASSUME NEW r \in Requests, req'[r].op \in {"done", "insert"},
               RequestRoot(req'[r]) \notin reopened', NEW j \in Live',
               Root(j)' = RequestRoot(req'[r])
        PROVE  tasks'[j].status = "done" \/ (req'[r].op = "done" /\ j = req'[r].id)
    <3>1. /\ req[r].op \in {"done", "insert"} /\ RequestRoot(req'[r]) = RequestRoot(req[r])
          /\ \/ req'[r] = req[r]
             \/ req[r].id \in Live => tasks'[req[r].id].status = "done"
      BY <1>3, <2>1, <2>3 DEF RequestRoot
    <3>2. j \in Live /\ Root(j) = RequestRoot(req[r])
      BY <1>2, <2>1, <2>3, <3>1 DEF Doing, InFlight
    <3>3. tasks[j].status = "done" \/ (req[r].op = "done" /\ j = req[r].id)
      BY <1>1, <2>3, <3>1, <3>2 DEF CompletesLast, Doing, InFlight
    <3> QED
      BY <2>1, <3>1, <3>2, <3>3
  <2>4. CompletesLast'
    BY <2>3 DEF CompletesLast, Doing, InFlight, Root, RequestRoot
  <2> QED
    BY <2>2, <2>4
<1>7. CASE OccurrenceAdded
  <2> PICK r \in InFlight("insert") :
        /\ Successor(req[r].id, req[r].task) \in Row
        /\ ForeignKeysHold(Successor(req[r].id, req[r].task))
        /\ RowAdded(Successor(req[r].id, req[r].task), req[r].id)
        /\ req' = [req EXCEPT ![r] = Idle]
    BY <1>7 DEF OccurrenceAdded
  <2> DEFINE row == Successor(req[r].id, req[r].task)
             root == RequestRoot(req[r])
  <2> PICK n : n = lastId'
    OBVIOUS
  <2>1. row.parent = root /\ root \in 1..lastId
    <3>1. req[r].task \in Row
      BY RequestType DEF ChainInv, InFlight, InsertRequest
    <3> QED
      BY <1>2, <3>1 DEF Successor, Row, RequestRoot, Doing
  <2> HIDE DEF row, root
  <2>2. RowAdded(row, req[r].id) /\ row.parent # NULL
    BY <1>0, <2>1 DEF row
  <2>3. /\ Live' = Live \cup {n} /\ n \notin 1..lastId
        /\ \A i \in Live : tasks'[i] = tasks[i] /\ Root(i)' = Root(i)
        /\ Root(n)' = root
    BY <1>5, <2>1, <2>2
  <2>4. root \notin reopened => \A j \in Live : Root(j) = root => tasks[j].status = "done"
    BY DEF CompletesLast, Doing, InFlight, root
  <2>5. ASSUME NEW i \in Live', NEW j \in Live', Root(i)' = Root(j)', Root(i)' \notin reopened',
               tasks'[i].status # "done", tasks'[j].status # "done"
        PROVE  i = j
    BY <1>1, <2>3, <2>4, <2>5 DEF OneOpenOccurrence
  <2>6. OneOpenOccurrence'
    BY <2>5 DEF OneOpenOccurrence, Root
  <2>7. \A q \in Requests : req'[q].op = "idle"
    BY <1>0 DEF OneAtATime, InFlight, TypeOK, Idle
  <2> QED
    BY <2>6, <2>7 DEF CompletesLast, Doing, InFlight
<1> QED
  BY <1>0, <1>4, <1>6, <1>7, StepShape

\* A chain never has two tasks to do, unless one of its tasks was reopened: the
\* buttons of an up-to-date page complete each occurrence once, whatever failed.
THEOREM OneOccurrenceToDo ==
  ASSUME OneAtATime, FreshUI
  PROVE  Spec => []OneOpenOccurrence
<1>1. Init => OneOpenOccurrence /\ CompletesLast
  BY DEF Init, OneOpenOccurrence, CompletesLast, Live, Doing, InFlight, Idle
<1>2. /\ ChainInv /\ OneOpenOccurrence /\ CompletesLast /\ [Next]_vars
      => OneOpenOccurrence' /\ CompletesLast'
  BY CompletionStepsOnce
<1> QED
  BY <1>1, <1>2, ChainInvariant, PTL DEF Spec

\* A due date the handlers can read back.
IsDate(due) == due \notin {NULL, Absent} => due.form = "date"

\* The forms send dates, and the driver hands them back as it stored them.
DatesAsText ==
  /\ DriverModes \subseteq {FALSE}
  /\ \A d \in Drafts : IsDate(d.due)
  /\ \A e \in Edits : IsDate(e.due)

\* Then every due date stored, about to be stored, or read is one.
AllDates ==
  /\ \A i \in Live : IsDate(tasks[i].due)
  /\ \A r \in Requests : req[r].op = "update" => IsDate(req[r].edit.due)
  /\ \A r \in Doing : IsDate(req[r].task.due)

\* What a Done request will copy into the next occurrence is still in its task.
CopiesCurrent ==
  \A r \in Doing : req[r].id \in Live =>
    /\ tasks[req[r].id].assignee = req[r].task.assignee
    /\ tasks[req[r].id].category = req[r].task.category

OwedIds == owed \subseteq 1..lastId

\* Dates stay dates through every write, and through the read of a completion.
LEMMA AllDatesStep ==
  ASSUME TypeOK, AllDates, DatesAsText, [Next]_vars
  PROVE  AllDates'
<1>1. ASSUME NEW i \in Live, i \in Live' PROVE IsDate(tasks'[i].due)
  <2>1. tasks[i] \in Row /\ RowChanged(i) /\ IsDate(tasks[i].due)
    BY <1>1, RowStep DEF TypeOK, AllDates
  <2>2. CASE tasks'[i] = Reopened(tasks[i])
    BY <2>1, <2>2 DEF Reopened, Row
  <2>3. ASSUME NEW day \in Int, tasks'[i] = Snoozed(tasks[i], [day |-> day, form |-> "date"])
        PROVE  IsDate(tasks'[i].due)
    BY <2>1, <2>3 DEF Snoozed, Row, IsDate
  <2>4. ASSUME NEW r \in Requests, NEW f \in Fields, req[r].op = "update",
               tasks'[i] = [tasks[i] EXCEPT ![f] = req[r].edit[f]]
        PROVE  IsDate(tasks'[i].due)
    <3>1. IsDate(req[r].edit.due)
      BY <2>4 DEF AllDates
    <3> QED
      BY <2>1, <2>4, <3>1 DEF Row, Fields, Earlier
  <2>5. ASSUME NEW r \in Requests,
               tasks'[i] = [tasks[i] EXCEPT !.status = "done", !.completed_by = req[r].by,
                                            !.completed_at = TRUE]
        PROVE  IsDate(tasks'[i].due)
    BY <2>1, <2>5 DEF Row
  <2> QED
    BY <2>1, <2>2, <2>3, <2>4, <2>5 DEF RowChanged
<1>2. ASSUME NEW i \in Live', i \notin Live PROVE IsDate(tasks'[i].due)
  <2>1. i = lastId' /\ (RootAdded \/ OccurrenceAdded)
    BY <1>2, StepShape DEF RowsKept, RootAdded, OccurrenceAdded, RowAdded
  <2>2. CASE OccurrenceAdded
    <3> PICK r \in InFlight("insert") : tasks'[i] = Successor(req[r].id, req[r].task)
      BY <2>1, <2>2 DEF OccurrenceAdded, RowAdded
    <3>1. req[r].task \in Row
      BY RequestType DEF InFlight, InsertRequest
    <3> QED
      BY <3>1 DEF Successor, NextDate, Row, IsDate
  <2>3. CASE RootAdded
    <3>1. \E d \in Drafts : tasks'[i].due = d.due
      BY <2>1, <2>3 DEF RootAdded, RowAdded
    <3> QED
      BY <3>1 DEF DatesAsText
  <2> QED
    BY <2>1, <2>2, <2>3
<1>3. ASSUME NEW r \in Requests, req'[r].op = "update" PROVE IsDate(req'[r].edit.due)
  <2>1. RequestChanged(r) /\ Idle.op = "idle"
    BY RequestsStep DEF Idle
  <2>2. CASE req'[r] = req[r]
    BY <1>3, <2>2 DEF AllDates
  <2>3. CASE req'[r].edit \in Edits
    BY <2>3 DEF DatesAsText
  <2>4. ASSUME NEW f \in Fields, req[r].op = "update", req'[r] = [req[r] EXCEPT !.edit[f] = Absent]
        PROVE  IsDate(req'[r].edit.due)
    <3>1. req[r] \in UpdateRequest /\ IsDate(req[r].edit.due)
      BY <2>4, RequestType DEF AllDates
    <3>2. req'[r].edit = [req[r].edit EXCEPT ![f] = Absent]
      BY <2>4, <3>1 DEF UpdateRequest
    <3> QED
      BY <3>1, <3>2 DEF UpdateRequest, Edit, IsDate
  <2>5. JustRead(r) => req'[r].op = "done"
    BY DEF JustRead
  <2>6. ~JustDone(r)
    <3>1. req[r].op = "done" => req[r] \in DoneRequest
      BY RequestType
    <3> QED
      BY <1>3, <3>1 DEF JustDone, DoneRequest
  <2> QED
    BY <1>3, <2>1, <2>2, <2>3, <2>4, <2>5, <2>6 DEF RequestChanged
<1>4. ASSUME NEW r \in Requests, req'[r].op \in {"done", "insert"} PROVE IsDate(req'[r].task.due)
  <2>1. CASE req'[r] = req[r]
    BY <1>4, <2>1 DEF AllDates, Doing, InFlight
  <2>2. CASE JustDone(r) /\ req'[r].task = req[r].task
    BY <2>2 DEF AllDates, Doing, InFlight, JustDone
  <2>3. ASSUME req'[r].id \in Live, NEW parses \in DriverModes,
               req'[r].task = [tasks[req'[r].id] EXCEPT !.due = ScanDue(@, parses)]
        PROVE  IsDate(req'[r].task.due)
    <3>1. tasks[req'[r].id] \in Row /\ IsDate(tasks[req'[r].id].due) /\ ~parses
      BY <2>3 DEF TypeOK, AllDates, DatesAsText
    <3>2. req'[r].task.due = tasks[req'[r].id].due
      BY <2>3, <3>1 DEF Row, ScanDue
    <3> QED
      BY <3>1, <3>2
  <2> QED
    BY <1>4, <2>1, <2>2, <2>3, DoingStep
<1>5. \A i \in Live' : IsDate(tasks'[i].due)
  BY <1>1, <1>2
<1> QED
  BY <1>3, <1>4, <1>5 DEF AllDates, Doing, InFlight, IsDate

\* Nobody edits a task while a completion of it is under way.
LEMMA CopiesStep ==
  ASSUME ChainInv, CopiesCurrent, OneAtATime, [Next]_vars
  PROVE  CopiesCurrent'
<1> SUFFICES ASSUME NEW r \in Requests, req'[r].op \in {"done", "insert"}, req'[r].id \in Live'
             PROVE  /\ tasks'[req'[r].id].assignee = req'[r].task.assignee
                    /\ tasks'[req'[r].id].category = req'[r].task.category
  BY DEF CopiesCurrent, Doing, InFlight
<1> DEFINE id == req'[r].id
           task == req'[r].task
<1>1. TypeOK
  BY DEF ChainInv
<1>2. ASSUME JustRead(r), id \in Live, NEW parses \in DriverModes,
             task = [tasks[id] EXCEPT !.due = ScanDue(@, parses)]
      PROVE  tasks'[id].assignee = task.assignee /\ tasks'[id].category = task.category
  <2>1. tasks[id] \in Row /\ tasks' = tasks
    BY <1>1, <1>2 DEF TypeOK, JustRead, tables
  <2> QED
    BY <1>2, <2>1 DEF Row
<1>3. ASSUME req[r].op \in {"done", "insert"}, id = req[r].id, task = req[r].task
      PROVE  tasks'[id].assignee = task.assignee /\ tasks'[id].category = task.category
  <2>1. id \in 1..lastId
    BY <1>3 DEF ChainInv, SnapshotIds, InFlight
  <2>2. id \in Live
    BY <1>1, <2>1, IdentityStep
  <2>3. tasks[id].assignee = task.assignee /\ tasks[id].category = task.category
    BY <1>3, <2>2 DEF CopiesCurrent, Doing, InFlight
  <2>4. tasks[id] \in Row /\ RowChanged(id)
    BY <1>1, <2>2, RowStep DEF TypeOK
  <2>5. \A q \in Requests : req[q].op # "update"
    BY <1>3 DEF OneAtATime
  <2>6. CASE tasks'[id] = Reopened(tasks[id])
    BY <2>3, <2>4, <2>6 DEF Reopened, Row
  <2>7. ASSUME NEW day \in Int, tasks'[id] = Snoozed(tasks[id], [day |-> day, form |-> "date"])
        PROVE  tasks'[id].assignee = task.assignee /\ tasks'[id].category = task.category
    BY <2>3, <2>4, <2>7 DEF Snoozed, Row
  <2>8. ASSUME NEW q \in Requests,
               tasks'[id] = [tasks[id] EXCEPT !.status = "done", !.completed_by = req[q].by,
                                              !.completed_at = TRUE]
        PROVE  tasks'[id].assignee = task.assignee /\ tasks'[id].category = task.category
    BY <2>3, <2>4, <2>8 DEF Row
  <2> QED
    BY <2>3, <2>4, <2>5, <2>6, <2>7, <2>8 DEF RowChanged
<1> QED
  BY <1>1, <1>2, <1>3, DoingStep DEF JustDone

\* A task is owed a successor from the UPDATE that completes it, in the very step
\* that sends its request on to the INSERT.
LEMMA OwedStep ==
  ASSUME TypeOK, AllDates, [Next]_vars
  PROVE  \/ owed' = owed
         \/ \E r \in Requests : /\ req[r].op = "done" /\ owed' = owed \cup {req[r].id}
                                /\ req'[r].op = "insert" /\ req'[r].id = req[r].id
<1> USE DEF tables, history
<1>1. ASSUME NEW r \in Requests, DoneUpdate(r)
      PROVE  \/ owed' = owed
             \/ /\ req[r].op = "done" /\ owed' = owed \cup {req[r].id}
                /\ req'[r].op = "insert" /\ req'[r].id = req[r].id
  <2>1. req[r] \in DoneRequest
    BY <1>1, RequestType DEF DoneUpdate
  <2>2. IsRecurring(req[r].task) => HasNextDate(req[r].task)
    <3>1. IsDate(req[r].task.due) /\ req[r].task \in Row
      BY <1>1, <2>1 DEF DoneUpdate, AllDates, Doing, InFlight, DoneRequest
    <3>2. IsRecurring(req[r].task) => req[r].task.due \notin {NULL, Absent}
      BY <3>1, NullAssumption DEF IsRecurring, Row
    <3> QED
      BY <3>1, <3>2 DEF HasNextDate, IsDate
  <2>3. ASSUME owed' # owed
        PROVE  /\ req' = [req EXCEPT ![r] = [req[r] EXCEPT !.op = "insert"]]
               /\ owed' = owed \cup {req[r].id}
    BY <1>1, <2>2, <2>3 DEF DoneUpdate
  <2> QED
    BY <1>1, <2>1, <2>3 DEF DoneUpdate, DoneRequest, TypeOK
<1>2. CASE Create \/ Midnight \/ UNCHANGED vars
  BY <1>2 DEF Create, Midnight, vars
<1>3. ASSUME NEW id \in Live, Reopen(id) \/ Snooze(id) \/ Delete(id) PROVE owed' = owed
  BY <1>3 DEF Reopen, Snooze, Delete
<1>4. ASSUME NEW p \in Persons, AddPerson(p) \/ RemovePerson(p) PROVE owed' = owed
  BY <1>4 DEF AddPerson, RemovePerson
<1>5. ASSUME NEW c \in Categories, AddCategory(c) \/ RemoveCategory(c) PROVE owed' = owed
  BY <1>5 DEF AddCategory, RemoveCategory
<1>6. ASSUME NEW r \in Requests, NEW id \in Live, UpdateStart(r, id) \/ DoneRead(r, id)
      PROVE  owed' = owed
  BY <1>6 DEF UpdateStart, DoneRead
<1>7. ASSUME NEW r \in Requests, NEW f \in Fields, UpdateField(r, f) PROVE owed' = owed
  BY <1>7 DEF UpdateField
<1>8. ASSUME NEW r \in Requests, UpdateEnd(r) \/ DoneInsert(r) \/ Abort(r) PROVE owed' = owed
  BY <1>8 DEF UpdateEnd, DoneInsert, Abort
<1> QED
  BY <1>1, <1>2, <1>3, <1>4, <1>5, <1>6, <1>7, <1>8 DEF Next

\* A request about to insert waits or does it: nothing cuts it short.
LEMMA InsertStep ==
  ASSUME TypeOK, ~Aborts, [Next]_vars, NEW r \in Requests, req[r].op = "insert"
  PROVE  req'[r] = req[r] \/ DoneInsert(r)
<1> USE DEF tables, history
<1>1. ASSUME NEW q \in Requests, NEW id \in Live, UpdateStart(q, id) \/ DoneRead(q, id)
      PROVE  req'[r] = req[r]
  <2>1. q # r
    BY <1>1 DEF UpdateStart, DoneRead, Idle
  <2> QED
    BY <1>1, <2>1 DEF UpdateStart, DoneRead, TypeOK
<1>2. ASSUME NEW q \in Requests, NEW f \in Fields, UpdateField(q, f) PROVE req'[r] = req[r]
  BY <1>2 DEF UpdateField, TypeOK
<1>3. ASSUME NEW q \in Requests, UpdateEnd(q) \/ DoneUpdate(q) PROVE req'[r] = req[r]
  BY <1>3 DEF UpdateEnd, DoneUpdate, TypeOK
<1>4. ASSUME NEW q \in Requests, DoneInsert(q), q # r PROVE req'[r] = req[r]
  BY <1>4 DEF DoneInsert, TypeOK
<1>5. ASSUME NEW q \in Requests, Abort(q) PROVE FALSE
  BY <1>5 DEF Abort
<1>6. CASE Create \/ Midnight \/ UNCHANGED vars
  BY <1>6 DEF Create, Midnight, vars
<1>7. ASSUME NEW id \in Live, Reopen(id) \/ Snooze(id) \/ Delete(id) PROVE req' = req
  BY <1>7 DEF Reopen, Snooze, Delete
<1>8. ASSUME NEW p \in Persons, AddPerson(p) \/ RemovePerson(p) PROVE req' = req
  BY <1>8 DEF AddPerson, RemovePerson
<1>9. ASSUME NEW c \in Categories, AddCategory(c) \/ RemoveCategory(c) PROVE req' = req
  BY <1>9 DEF AddCategory, RemoveCategory
<1> QED
  BY <1>1, <1>2, <1>3, <1>4, <1>5, <1>6, <1>7, <1>8, <1>9 DEF Next

\* The INSERT of a task that is still there satisfies every foreign key.
LEMMA SuccessorFits ==
  ASSUME ChainInv, CopiesCurrent, NEW r \in InFlight("insert"), req[r].id \in Live
  PROVE  ForeignKeysHold(Successor(req[r].id, req[r].task))
<1> DEFINE id == req[r].id
           task == req[r].task
<1>1. task \in Row /\ r \in Requests
  BY RequestType DEF ChainInv, InFlight, InsertRequest
<1>2. task.assignee = tasks[id].assignee /\ task.category = tasks[id].category
  BY DEF CopiesCurrent, Doing
<1>3. task.parent = tasks[id].parent
  BY DEF ChainInv, SnapshotsCurrent
<1>4. ForeignKeysHold(tasks[id])
  BY DEF ChainInv, ForeignKeys
<1>5. /\ Successor(id, task).assignee = task.assignee
      /\ Successor(id, task).category = task.category
      /\ Successor(id, task).completed_by = NULL
      /\ Successor(id, task).parent = IF task.parent = NULL THEN id ELSE task.parent
  BY <1>1 DEF Successor, Row
<1> QED
  BY <1>2, <1>3, <1>4, <1>5 DEF ForeignKeysHold

LEMMA PromiseStep ==
  ASSUME ChainInv, AllDates, CopiesCurrent, OwedIds, NextOccurrenceCreated,
         ~Aborts, [Next]_vars
  PROVE  OwedIds' /\ NextOccurrenceCreated'
<1>1. /\ TypeOK /\ lastId \in Nat /\ lastId' \in Nat /\ lastId \leq lastId'
      /\ \A s \in 1..lastId : from'[s] = from[s]
  BY StepShape DEF ChainInv, TypeOK, RowsKept, RootAdded, OccurrenceAdded, RowAdded
<1>2. \/ owed' = owed
      \/ \E r \in Requests : /\ req[r].op = "done" /\ owed' = owed \cup {req[r].id}
                             /\ req'[r].op = "insert" /\ req'[r].id = req[r].id
  BY <1>1, OwedStep
<1>3. \A r \in Requests : req[r].op = "done" => req[r].id \in 1..lastId
  BY DEF ChainInv, SnapshotIds, InFlight
<1>4. OwedIds'
  <2>1. owed \subseteq 1..lastId /\ 1..lastId \subseteq 1..lastId'
    BY <1>1 DEF OwedIds
  <2>2. owed' \subseteq 1..lastId
    BY <1>2, <1>3, <2>1
  <2> QED
    BY <2>1, <2>2 DEF OwedIds
<1>5. ASSUME NEW i \in owed, i \in Live'
      PROVE  \/ \E r \in Requests : req'[r].op = "insert" /\ req'[r].id = i
             \/ \E s \in 1..lastId' : from'[s] = i
  <2>1. i \in Live
    BY <1>1, <1>5, IdentityStep DEF OwedIds
  <2>2. CASE \E s \in 1..lastId : from[s] = i
    BY <1>1, <2>2
  <2>3. ASSUME NEW r \in Requests, req[r].op = "insert", req[r].id = i, DoneInsert(r)
        PROVE  \E s \in 1..lastId' : from'[s] = i
    <3>1. Insert(Successor(req[r].id, req[r].task), i)
      BY <2>1, <2>3, SuccessorFits DEF DoneInsert, InFlight
    <3>2. lastId' = lastId + 1 /\ from'[lastId'] = i
      BY <1>1, <3>1 DEF Insert
    <3> QED
      BY <1>1, <3>2
  <2> QED
    BY <1>1, <2>1, <2>2, <2>3, InsertStep DEF NextOccurrenceCreated
<1>6. ASSUME NEW i \in owed', i \in Live'
      PROVE  \/ \E r \in Requests : req'[r].op = "insert" /\ req'[r].id = i
             \/ \E s \in 1..lastId' : from'[s] = i
  BY <1>2, <1>5, <1>6
<1> QED
  BY <1>4, <1>6 DEF NextOccurrenceCreated

\* A completed recurring task gets its next occurrence, if requests wait for one
\* another, none is cut short, and dates are stored and read as dates.
THEOREM NextOccurrenceFollows ==
  ASSUME OneAtATime, DatesAsText, ~Aborts
  PROVE  Spec => []NextOccurrenceCreated
<1>1. Init => AllDates /\ CopiesCurrent /\ OwedIds /\ NextOccurrenceCreated
  BY DEF Init, AllDates, CopiesCurrent, OwedIds, NextOccurrenceCreated, Live, Doing, InFlight, Idle
<1>2. /\ ChainInv /\ AllDates /\ CopiesCurrent /\ OwedIds /\ NextOccurrenceCreated
      /\ [Next]_vars
      => AllDates' /\ CopiesCurrent' /\ OwedIds' /\ NextOccurrenceCreated'
  BY AllDatesStep, CopiesStep, PromiseStep DEF ChainInv
<1> QED
  BY <1>1, <1>2, ChainInvariant, PTL DEF Spec


\* A recurring task says how often it recurs.
Recurs ==
  /\ \A i \in Live : tasks[i].type = "recurring" => tasks[i].rec # NULL
  /\ \A r \in Doing : req[r].task.type = "recurring" => req[r].task.rec # NULL

LEMMA RecursStep ==
  ASSUME TypeOK, Recurs, [Next]_vars
  PROVE  Recurs'
<1>0. NULL \notin Recs /\ Absent # NULL
  BY ValuesAssumption, NullAssumption
<1>1. ASSUME NEW i \in Live, i \in Live', tasks'[i].type = "recurring"
      PROVE  tasks'[i].rec # NULL
  <2>1. /\ tasks[i] \in Row /\ RowChanged(i)
        /\ tasks[i].type = "recurring" => tasks[i].rec # NULL
    BY <1>1, RowStep DEF TypeOK, Recurs
  <2>2. CASE tasks'[i] = Reopened(tasks[i])
    BY <1>1, <2>1, <2>2 DEF Reopened, Row
  <2>3. ASSUME NEW day \in Int, tasks'[i] = Snoozed(tasks[i], [day |-> day, form |-> "date"])
        PROVE  tasks'[i].rec # NULL
    BY <1>1, <2>1, <2>3 DEF Snoozed, Row
  <2>4. ASSUME NEW r \in Requests, NEW f \in Fields, req[r].op = "update",
               req[r].edit[f] # Absent,
               tasks'[i] = [tasks[i] EXCEPT ![f] = req[r].edit[f]]
        PROVE  tasks'[i].rec # NULL
    <3>1. req[r].edit.rec \in Recs \cup {Absent}
      BY <2>4, RequestType DEF UpdateRequest, Edit
    <3>2. CASE f = "rec"
      BY <1>0, <2>1, <2>4, <3>1, <3>2 DEF Row
    <3>3. CASE f # "rec"
      BY <1>1, <2>1, <2>4, <3>3 DEF Row, Fields, Earlier
    <3> QED
      BY <3>2, <3>3
  <2>5. ASSUME NEW r \in Requests,
               tasks'[i] = [tasks[i] EXCEPT !.status = "done", !.completed_by = req[r].by,
                                            !.completed_at = TRUE]
        PROVE  tasks'[i].rec # NULL
    BY <1>1, <2>1, <2>5 DEF Row
  <2> QED
    BY <1>1, <2>1, <2>2, <2>3, <2>4, <2>5 DEF RowChanged
<1>2. ASSUME NEW i \in Live', i \notin Live, tasks'[i].type = "recurring"
      PROVE  tasks'[i].rec # NULL
  <2>1. i = lastId' /\ (RootAdded \/ OccurrenceAdded)
    BY <1>2, StepShape DEF RowsKept, RootAdded, OccurrenceAdded, RowAdded
  <2>2. CASE OccurrenceAdded
    <3> PICK r \in InFlight("insert") : tasks'[i] = Successor(req[r].id, req[r].task)
      BY <2>1, <2>2 DEF OccurrenceAdded, RowAdded
    <3>1. req[r].task \in Row /\ HasNextDate(req[r].task)
      BY RequestType DEF InFlight, InsertRequest
    <3> QED
      BY <3>1 DEF Successor, Row, HasNextDate, IsRecurring
  <2>3. CASE RootAdded
    BY <1>2, <2>1, <2>3 DEF RootAdded, RowAdded
  <2> QED
    BY <2>1, <2>2, <2>3
<1>3. ASSUME NEW r \in Requests, req'[r].op \in {"done", "insert"},
             req'[r].task.type = "recurring"
      PROVE  req'[r].task.rec # NULL
  <2>1. CASE req'[r] = req[r]
    BY <1>3, <2>1 DEF Recurs, Doing, InFlight
  <2>2. CASE JustDone(r) /\ req'[r].task = req[r].task
    BY <1>3, <2>2 DEF Recurs, Doing, InFlight, JustDone
  <2>3. ASSUME req'[r].id \in Live, NEW parses \in DriverModes,
               req'[r].task = [tasks[req'[r].id] EXCEPT !.due = ScanDue(@, parses)]
        PROVE  req'[r].task.rec # NULL
    <3>1. tasks[req'[r].id] \in Row
      BY <2>3 DEF TypeOK
    <3> QED
      BY <1>3, <2>3, <3>1 DEF Row, Recurs
  <2> QED
    BY <1>3, <2>1, <2>2, <2>3, DoingStep
<1> QED
  BY <1>1, <1>2, <1>3 DEF Recurs, Doing, InFlight

\* The UPDATE of a completion hands its chain on to the INSERT, unless the task
\* has no due date to count from.
LEMMA CompletionHandsOn ==
  ASSUME ChainInv, AllDates, Recurs, NEW r \in Requests, DoneUpdate(r),
         req[r].id \in Live, tasks[req[r].id].type = "recurring",
         tasks'[req[r].id] # tasks[req[r].id]
  PROVE  \/ req'[r].op = "insert" /\ req'[r].id = req[r].id
         \/ req[r].task.due = NULL /\ req'[r] = Idle
<1>1. req[r] \in DoneRequest /\ r \in InFlight("done") /\ req \in [Requests -> Request]
  BY RequestType DEF ChainInv, DoneUpdate, InFlight, TypeOK
<1>2. req' = [req EXCEPT ![r] = IF HasNextDate(req[r].task)
                                  THEN [req[r] EXCEPT !.op = "insert"] ELSE Idle]
  BY DEF DoneUpdate
<1>3. req[r].task.type = "recurring"
  BY <1>1 DEF ChainInv, SnapshotsCurrent
<1>4. /\ req[r].task.rec # NULL /\ IsDate(req[r].task.due)
      /\ req[r].task \in Row
  BY <1>1, <1>3 DEF Recurs, AllDates, Doing, DoneRequest
<1>5. req[r].task.due # NULL => HasNextDate(req[r].task)
  BY <1>3, <1>4, NullAssumption DEF HasNextDate, IsRecurring, IsDate, Row
<1>6. HasNextDate(req[r].task) => req'[r] = [req[r] EXCEPT !.op = "insert"]
  BY <1>1, <1>2
<1>7. ~HasNextDate(req[r].task) => req'[r] = Idle
  BY <1>1, <1>2
<1> QED
  BY <1>1, <1>5, <1>6, <1>7 DEF DoneRequest

LEMMA ChoreStep ==
  ASSUME ChainInv, AllDates, CopiesCurrent, Recurs, ~Aborts, [Next]_vars,
         NEW c \in Live, tasks[c].type = "recurring", ToDo(c),
         \A i \in Live : Root(i) = c => i \in Live'
  PROVE  \/ ToDo(c)'
         \/ \E r \in InFlight("done") :
              req[r].id \in Chain(c) /\ req[r].task.due = NULL /\ req'[r] = Idle
<1>0. TypeOK /\ lastId \in Nat /\ Live \subseteq 1..lastId /\ NULL \notin 1..lastId
  BY NullIsNoId DEF ChainInv, TypeOK
\* The chain keeps its tasks.
<1>1. ASSUME NEW i \in Chain(c) PROVE i \in Live /\ tasks[i].type = "recurring" /\ i \in Chain(c)'
  <2>1. i \in Live /\ Root(i) = c /\ i \in Live'
    BY <1>1 DEF Chain
  <2>2. tasks[i].type = "recurring"
    BY <2>1 DEF ChainInv, ChainShape, Root
  <2>3. tasks'[i].parent = tasks[i].parent
    BY <1>0, <2>1, IdentityStep
  <2> QED
    BY <2>1, <2>2, <2>3 DEF Chain, Root
<1>2. ASSUME NEW i \in Chain(c), tasks[i].status # "done", tasks'[i].status = "done"
      PROVE  \E r \in InFlight("done") :
               /\ DoneUpdate(r) /\ req[r].id = i /\ tasks'[i] # tasks[i]
  <2>1. i \in Live \cap Live' /\ tasks[i] \in Row
    BY <1>0, <1>1, <1>2 DEF Chain, TypeOK
  <2>2. RowChanged(i)
    BY <1>0, <2>1, RowStep
  <2>3. tasks'[i] # Reopened(tasks[i])
    BY <1>2, <2>1 DEF Reopened, Row
  <2>4. \A due : tasks'[i] # Snoozed(tasks[i], due)
    BY <1>2, <2>1 DEF Snoozed, Row
  <2>5. \A r \in Requests, f \in Fields : tasks'[i] # [tasks[i] EXCEPT ![f] = req[r].edit[f]]
    BY <1>2, <2>1 DEF Row, Fields, Earlier
  <2> QED
    BY <1>2, <2>2, <2>3, <2>4, <2>5 DEF RowChanged, InFlight
<1>3. ASSUME NEW i \in Chain(c), tasks[i].status # "done"
      PROVE  \/ ToDo(c)'
             \/ \E r \in InFlight("done") :
                  req[r].id \in Chain(c) /\ req[r].task.due = NULL /\ req'[r] = Idle
  <2>1. CASE tasks'[i].status # "done"
    BY <1>1, <1>3, <2>1 DEF ToDo
  <2>2. CASE tasks'[i].status = "done"
    <3>1. PICK r \in InFlight("done") : DoneUpdate(r) /\ req[r].id = i /\ tasks'[i] # tasks[i]
      BY <1>2, <1>3, <2>2
    <3>2. \/ req'[r].op = "insert" /\ req'[r].id = i
          \/ req[r].task.due = NULL /\ req'[r] = Idle
      BY <1>1, <1>3, <3>1, CompletionHandsOn DEF InFlight
    <3> QED
      BY <1>1, <1>3, <3>1, <3>2 DEF ToDo, InFlight
  <2> QED
    BY <2>1, <2>2
<1>4. ASSUME NEW r \in InFlight("insert"), req[r].id \in Chain(c)
      PROVE  ToDo(c)'
  <2>1. req[r].id \in Live /\ r \in Requests /\ req[r].op = "insert"
    BY <1>1, <1>4 DEF InFlight
  <2>2. CASE req'[r] = req[r]
    BY <1>1, <1>4, <2>1, <2>2 DEF ToDo, InFlight
  <2>3. CASE DoneInsert(r)
    <3> DEFINE row == Successor(req[r].id, req[r].task)
    <3>1. ForeignKeysHold(row) /\ Insert(row, req[r].id)
      BY <1>4, <2>1, <2>3, SuccessorFits DEF DoneInsert
    <3>2. row.parent = c
      BY <1>4, <2>1, <3>1, SuccessorRoot DEF Chain
    <3>3. row.status = "pending"
      <4>1. req[r].task \in Row
        BY <1>0, <1>4, RequestType DEF InFlight, InsertRequest
      <4> QED
        BY <4>1 DEF Successor, Row
    <3>4. PICK n : n = lastId + 1
      OBVIOUS
    <3>5. n \in Live' /\ tasks'[n] = row
      BY <3>1, <3>4 DEF Insert, Live
    <3>6. n \in Chain(c)' /\ tasks'[n].status # "done"
      BY <1>0, <3>2, <3>3, <3>5 DEF Chain, Root
    <3> QED
      BY <3>6 DEF ToDo
  <2> QED
    BY <1>0, <2>1, <2>2, <2>3, InsertStep
<1> QED
  BY <1>3, <1>4 DEF ToDo

\* Under the same conditions a recurring chore is never lost: its chain always has
\* a task to do or one about to be made, until somebody deletes one of its tasks
\* or completes one whose due date was removed.
THEOREM ChoresGoOn ==
  ASSUME OneAtATime, DatesAsText, ~Aborts
  PROVE  Spec => ChoreGoesOn
<1>1. Init => AllDates /\ CopiesCurrent /\ Recurs
  BY DEF Init, AllDates, CopiesCurrent, Recurs, Live, Doing, InFlight, Idle
<1>2. ChainInv /\ AllDates /\ CopiesCurrent /\ Recurs /\ [Next]_vars
      => AllDates' /\ CopiesCurrent' /\ Recurs'
  BY AllDatesStep, CopiesStep, RecursStep DEF ChainInv
<1>3. ChainInv /\ AllDates /\ CopiesCurrent /\ Recurs /\ [Next]_vars
      => [\A c \in Live : tasks[c].type = "recurring" /\ ToDo(c) =>
            \/ ToDo(c)'
            \/ \E i \in Live \ Live' : Root(i) = c
            \/ \E r \in InFlight("done") :
                 req[r].id \in Chain(c) /\ req[r].task.due = NULL /\ req'[r] = Idle]_vars
  BY ChoreStep
<1> QED
  BY <1>1, <1>2, <1>3, ChainInvariant, PTL DEF Spec, ChoreGoesOn

=============================================================================
