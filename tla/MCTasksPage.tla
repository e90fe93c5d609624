---------------------------- MODULE MCTasksPage ----------------------------
(* Small values for TasksPage.                                              *)
EXTENDS TasksPage

CONSTANT p1

MCName == [p \in Persons |-> p]

\* What steps to come depend on: not on requests and loads that are over.
ActsToCome == [a \in Acts |->
  IF act[a].step = "over" /\ act[a].left = {} THEN "over" ELSE act[a]]
LoadsToCome == [l \in Loads |->
  IF l \in Open THEN load[l] ELSE <<load[l].step, l = asked /\ load[l].stale>>]
WithoutPast ==
  <<server, filter, window, lists, loading, error, selection, deleting, dialog,
    LoadsToCome, asked, ActsToCome, acted, last = asked>>

\* Changes of others are followed through two loads, all else through three; they and
\* people that are missing are followed outside the batch mode, which they touch through
\* the lists only.
Followed ==
  /\ asked + changes <= MaxLoads
  /\ changes > 0 \/ people # Persons => ~batch /\ ~confirm
=============================================================================
