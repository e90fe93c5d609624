------------------------------ MODULE MCTasks ------------------------------
(* Small values for Tasks: one weekly chore in three shapes, and edits that *)
(* touch the columns a completion copies.                                   *)
EXTENDS Tasks, TLC

CONSTANTS p1, c1, t1, n1

Symmetric == Permutations(Requests)

\* The shared runs' properties and every action ignore owed and reopened.
WithoutUnusedHistory ==
  <<tasks, lastId, people, categories, retired, today, req, from>>

Daily == 1
MCRecs == {Daily}
On(d) == [day |-> d, form |-> "date"]

Chore == [title |-> t1, notes |-> n1, type |-> "recurring", rec |-> Daily,
          due |-> On(0), assignee |-> NULL, category |-> NULL]

\* Two clients: a chore, which an edit may assign.
SharedDrafts == {Chore}

\* A title and then an assignee, whose UPDATE a removed person fails.
Untouched == [title |-> Absent, due |-> Absent, assignee |-> Absent,
              category |-> Absent, notes |-> Absent, rec |-> Absent]
SharedEdits == {[Untouched EXCEPT !.title = t1, !.assignee = p1]}

\* One client: a chore, a one-off task, and an edit that writes every field.
SoloDrafts == {[Chore EXCEPT !.assignee = p1, !.category = c1],
               [Chore EXCEPT !.type = "one-off", !.rec = NULL]}
SoloEdits == {[title |-> t1, due |-> NULL, assignee |-> p1, category |-> c1,
               notes |-> n1, rec |-> Daily]}

\* A one-off task has no chain: one beside the chores is enough.
FewOneOffs ==
  \A i, j \in Live : tasks[i].type = "one-off" /\ tasks[j].type = "one-off" => i = j
=============================================================================
