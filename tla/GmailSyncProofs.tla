-------------------------- MODULE GmailSyncProofs --------------------------
(***************************************************************************)
(* Safety of the Gmail sync for every set of mails, accounts and syncs,     *)
(* every number of days and whatever fails or is cut short.                 *)
(***************************************************************************)
EXTENDS GmailSync, TLAPS

-----------------------------------------------------------------------------
(* Type correctness.                                                        *)

\* A batch is part of what was not sent yet.
LEMMA BatchPart == \A unsent : \A b \in Batches(unsent) : b \subseteq unsent
  BY DEF Batches

\* Replacing the locals of one sync by a well-typed request.
LEMMA BecomesType ==
  ASSUME TypeOK, NEW s \in Syncs, NEW q \in Request,
         q.step # "idle" => q.account \in Accounts /\ q.refresh \in Accounts,
         Becomes(s, q)
  PROVE  /\ sync' \in [Syncs -> Request]
         /\ \A a \in Active' : sync'[a].account \in Accounts /\ sync'[a].refresh \in Accounts
  BY DEF TypeOK, Becomes, Active

LEMMA IdleType == Idle \in Request /\ Idle.step = "idle"
  BY DEF Idle, Request

LEMMA TypeStep == TypeOK /\ [Next]_vars => TypeOK'
<1> SUFFICES ASSUME TypeOK, [Next]_vars PROVE TypeOK'
  OBVIOUS
<1> USE DEF mailbox, connections
<1>1. CASE NextDay
  BY <1>1 DEF NextDay, TypeOK, Active
<1>2. CASE GmailDisconnect
  BY <1>2 DEF GmailDisconnect, TypeOK, Active
<1>3. ASSUME NEW e \in Emails, Arrive(e) PROVE TypeOK'
  BY <1>3 DEF Arrive, TypeOK, Active
<1>4. ASSUME NEW a \in Accounts, GmailCallback(a) PROVE TypeOK'
  <2>1. row' \in Integration \cup {NULL}
    BY <1>4 DEF GmailCallback, TypeOK, Integration
  <2>2. /\ connects' \in 0..MaxConnects /\ users' \subseteq Accounts
        /\ crossed' \in BOOLEAN
    BY <1>4, GmailAssumption DEF GmailCallback, Connects, TypeOK
  <2> QED
    BY <1>4, <2>1, <2>2 DEF GmailCallback, TypeOK, Active
<1>5. ASSUME NEW t \in tasks, DeleteTask(t) PROVE TypeOK'
  BY <1>5 DEF DeleteTask, TypeOK, Active
<1>6. ASSUME NEW s \in Syncs, SyncStart(s) PROVE TypeOK'
  <2> DEFINE q == [Idle EXCEPT !.step = "fetch", !.account = row.access,
                               !.refresh = row.refresh, !.since = Since]
  <2>1. row \in Integration
    BY <1>6 DEF SyncStart, TypeOK
  <2>2. Since \in Int
    BY <2>1, GmailAssumption DEF Since, TypeOK, Integration
  <2>3. q \in Request /\ q.account \in Accounts /\ q.refresh \in Accounts
    BY <2>1, <2>2 DEF Idle, Request, Integration
  <2>4. Becomes(s, q)
    BY <1>6 DEF SyncStart
  <2> HIDE DEF q
  <2> QED
    BY <1>6, <2>3, <2>4, BecomesType DEF SyncStart, TypeOK, Syncs
<1>7. ASSUME NEW s \in Syncs, Fetch(s) PROVE TypeOK'
  <2> PICK renewed \in BOOLEAN, failed \in SUBSET Emails :
        LET account == IF renewed THEN sync[s].refresh ELSE sync[s].account
            mails == Listed(account, sync[s].since) \ failed
        IN /\ Becomes(s, [sync[s] EXCEPT !.step = IF renewed THEN "token" ELSE "work",
                            !.account = account, !.mails = mails, !.unchecked = mails])
           /\ ahead' = (ahead \/ \E d \in Dated(mails) : d > day)
           /\ settled' = settled \cup failed
    BY <1>7 DEF Fetch, Listed
  <2> DEFINE account == IF renewed THEN sync[s].refresh ELSE sync[s].account
             mails == Listed(account, sync[s].since) \ failed
             q == [sync[s] EXCEPT !.step = IF renewed THEN "token" ELSE "work",
                     !.account = account, !.mails = mails, !.unchecked = mails]
  <2>1. sync[s] \in Request /\ s \in Active
    BY <1>7 DEF Fetch, TypeOK, Active
  <2>2. account \in Accounts /\ sync[s].refresh \in Accounts
    BY <2>1 DEF TypeOK
  <2>3. q \in Request /\ q.account \in Accounts /\ q.refresh \in Accounts
    BY <2>1, <2>2 DEF Request, Listed
  <2>4. ahead' \in BOOLEAN
    BY DEF TypeOK
  <2>5. Becomes(s, q)
    OBVIOUS
  <2> HIDE DEF q
  <2> QED
    BY <1>7, <2>3, <2>4, <2>5, BecomesType DEF Fetch, TypeOK
<1>8. ASSUME NEW s \in Syncs, SaveToken(s) PROVE TypeOK'
  <2> DEFINE q == [sync[s] EXCEPT !.step = "work"]
  <2>1. sync[s] \in Request /\ sync[s].account \in Accounts /\ sync[s].refresh \in Accounts
    BY <1>8 DEF SaveToken, TypeOK, Active
  <2>2. q \in Request /\ q.account \in Accounts /\ q.refresh \in Accounts
    BY <2>1 DEF Request
  <2>3. row' \in Integration \cup {NULL}
    BY <1>8, <2>1 DEF SaveToken, TypeOK, Integration
  <2>4. Becomes(s, q)
    BY <1>8 DEF SaveToken
  <2> HIDE DEF q
  <2> QED
    BY <1>8, <2>2, <2>3, <2>4, BecomesType DEF SaveToken, TypeOK
<1>9. ASSUME NEW s \in Syncs, NEW e \in Emails, Count(s, e) PROVE TypeOK'
  <2>1. sync[s] \in Request /\ sync[s].account \in Accounts /\ sync[s].refresh \in Accounts
    BY <1>9 DEF Count, TypeOK, Active
  <2>2. PICK q \in Request : Becomes(s, q) /\ q.account \in Accounts /\ q.refresh \in Accounts
    <3>1. CASE e \in Refs
      <4> DEFINE q == [sync[s] EXCEPT !.unchecked = @ \ {e}]
      <4>1. q \in Request /\ q.account \in Accounts /\ q.refresh \in Accounts
        BY <2>1 DEF Request
      <4>2. Becomes(s, q)
        BY <1>9, <3>1 DEF Count
      <4> QED
        BY <4>1, <4>2
    <3>2. CASE e \notin Refs
      <4> DEFINE q == [sync[s] EXCEPT !.unchecked = @ \ {e}, !.fresh = @ \cup {e},
                                      !.unsent = @ \cup {e}]
      <4>1. q \in Request /\ q.account \in Accounts /\ q.refresh \in Accounts
        BY <2>1 DEF Request
      <4>2. Becomes(s, q)
        BY <1>9, <3>2 DEF Count
      <4> QED
        BY <4>1, <4>2
    <3> QED
      BY <3>1, <3>2
  <2>3. raced' \subseteq Emails
    BY <1>9 DEF Count, TypeOK
  <2> QED
    BY <1>9, <2>2, <2>3, BecomesType DEF Count, TypeOK
<1>10. ASSUME NEW s \in Syncs, Extract(s) \/ ExtractFails(s) PROVE TypeOK'
  <2>1. sync[s] \in Request /\ sync[s].account \in Accounts /\ sync[s].refresh \in Accounts
    BY <1>10 DEF Extract, ExtractFails, Counted, TypeOK, Active
  <2>2. PICK batch \in SUBSET Emails, answer \in SUBSET Find :
          /\ Becomes(s, [sync[s] EXCEPT !.unsent = @ \ batch, !.found = answer])
          /\ settled' = settled \cup batch
    <3>1. CASE Extract(s)
      BY <3>1, <2>1, BatchPart DEF Extract, Request
    <3>2. CASE ExtractFails(s)
      <4>1. sync[s].found = {} /\ \A b : [sync[s] EXCEPT !.unsent = @ \ b]
              = [sync[s] EXCEPT !.unsent = @ \ b, !.found = {}]
        BY <3>2, <2>1 DEF ExtractFails, Request
      <4> QED
        BY <3>2, <2>1, <4>1, BatchPart DEF ExtractFails, Request
    <3> QED
      BY <1>10, <3>1, <3>2
  <2> DEFINE q == [sync[s] EXCEPT !.unsent = @ \ batch, !.found = answer]
  <2>3. q \in Request /\ q.account \in Accounts /\ q.refresh \in Accounts
    BY <2>1 DEF Request
  <2>4. Becomes(s, q)
    BY <2>2
  <2> HIDE DEF q
  <2> QED
    BY <1>10, <2>2, <2>3, <2>4, BecomesType DEF Extract, ExtractFails, TypeOK
<1>11. ASSUME NEW s \in Syncs, InsertTask(s) PROVE TypeOK'
  <2> PICK t \in sync[s].found :
        /\ tasks' = tasks \cup {[find |-> t, by |-> s]} \/ tasks' = tasks
        /\ Becomes(s, [sync[s] EXCEPT !.found = @ \ {t}])
    BY <1>11 DEF InsertTask
  <2> DEFINE q == [sync[s] EXCEPT !.found = @ \ {t}]
  <2>1. sync[s] \in Request /\ (s \in Active => sync[s].account \in Accounts /\ sync[s].refresh \in Accounts)
    BY DEF TypeOK
  <2>2. q \in Request /\ q.step = sync[s].step /\ q.account = sync[s].account
        /\ q.refresh = sync[s].refresh /\ t \in Find
    BY <2>1 DEF Request
  <2>3. tasks' \subseteq Row
    BY <2>2 DEF TypeOK, Row
  <2>4. Becomes(s, q)
    OBVIOUS
  <2> HIDE DEF q
  <2>5. q.step # "idle" => q.account \in Accounts /\ q.refresh \in Accounts
    BY <2>1, <2>2 DEF Active
  <2> QED
    BY <1>11, <2>2, <2>3, <2>4, <2>5, BecomesType DEF InsertTask, TypeOK
<1>12. ASSUME NEW s \in Syncs, Stamp(s) PROVE TypeOK'
  <2>1. \A d \in Latest(sync[s].mails) : d \in Int
    BY GmailAssumption DEF Latest, Dated, TypeOK, Request
  <2>2. row' \in Integration \cup {NULL}
    BY <1>12, <2>1 DEF Stamp, TypeOK, Integration
  <2> QED
    BY <1>12, <2>2, IdleType, BecomesType DEF Stamp, TypeOK
<1>13. ASSUME NEW s \in Syncs, Abort(s) PROVE TypeOK'
  BY <1>13, IdleType, BecomesType DEF Abort, TypeOK
<1>14. CASE UNCHANGED vars
  BY <1>14 DEF vars, TypeOK, Active
<1> QED
  BY <1>1, <1>2, <1>3, <1>4, <1>5, <1>6, <1>7, <1>8, <1>9, <1>10, <1>11, <1>12, <1>13, <1>14
  DEF Next

LEMMA TypeInit == Init => TypeOK
<1> SUFFICES ASSUME Init PROVE TypeOK
  OBVIOUS
<1>1. sync \in [Syncs -> Request] /\ Active = {}
  BY IdleType DEF Init, Active
<1>2. started \in 0..MaxSyncs /\ connects \in 0..MaxConnects
  BY GmailAssumption DEF Init
<1>3. day \in Nat \ {0} /\ arrived \in [Emails -> Nat]
  BY DEF Init
<1> QED
  BY <1>1, <1>2, <1>3 DEF Init, TypeOK

\* Every variable keeps its type in every reachable state.
THEOREM TypeCorrect == Spec => []TypeOK
  BY TypeInit, TypeStep, PTL DEF Spec

-----------------------------------------------------------------------------
(* One sync per mail.                                                       *)

\* What a sync is about to make tasks of, it found without one; whoever else did,
\* or has made one since, makes the mail raced.
Serial ==
  /\ \A s \in Syncs : \A t \in sync[s].found : t.ref \in sync[s].fresh
  /\ \A s \in Syncs : sync[s].unsent \subseteq sync[s].fresh
  /\ \A s \in Syncs : \A t \in tasks :
       t.find.ref \in sync[s].fresh /\ t.by # s => t.find.ref \in raced
  /\ \A s1, s2 \in Syncs : s1 # s2 => sync[s1].fresh \cap sync[s2].fresh \subseteq raced
  /\ OneSyncPerMail

\* Locals that become poorer keep it.
LEMMA SerialShrinks ==
  ASSUME TypeOK, Serial, NEW s \in Syncs, NEW q \in Request, Becomes(s, q),
         q.fresh \in {sync[s].fresh, {}}, q.unsent \subseteq q.fresh,
         \A t \in q.found : t.ref \in q.fresh,
         tasks' \subseteq tasks, raced \subseteq raced'
  PROVE  Serial'
<1>1. /\ sync'[s] = q /\ \A a \in Syncs : a # s => sync'[a] = sync[a]
      /\ \A a \in Syncs : sync'[a].fresh \subseteq sync[a].fresh
  BY DEF Becomes, TypeOK
<1> QED
  BY <1>1 DEF Serial, OneSyncPerMail

LEMMA SerialStep == TypeOK /\ Serial /\ [Next]_vars => Serial'
<1> SUFFICES ASSUME TypeOK, Serial, [Next]_vars PROVE Serial'
  OBVIOUS
<1> USE DEF mailbox, connections
<1>0. /\ Idle \in Request /\ Idle.fresh = {} /\ Idle.unsent = {} /\ Idle.found = {}
      /\ \A s \in Syncs : sync[s] \in Request
  BY IdleType DEF Idle, TypeOK
<1>1. CASE NextDay \/ GmailDisconnect \/ UNCHANGED vars
  BY <1>1 DEF NextDay, GmailDisconnect, vars, Serial, OneSyncPerMail, Active
<1>2. ASSUME NEW e \in Emails, Arrive(e) PROVE Serial'
  BY <1>2 DEF Arrive, Serial, OneSyncPerMail, Active
<1>3. ASSUME NEW a \in Accounts, GmailCallback(a) PROVE Serial'
  BY <1>3 DEF GmailCallback, Serial, OneSyncPerMail, Active
<1>4. ASSUME NEW t \in tasks, DeleteTask(t) PROVE Serial'
  BY <1>4 DEF DeleteTask, Serial, OneSyncPerMail, Active
<1>5. ASSUME NEW s \in Syncs, SyncStart(s) PROVE Serial'
  <2> DEFINE q == [Idle EXCEPT !.step = "fetch", !.account = row.access,
                               !.refresh = row.refresh, !.since = Since]
  <2>1. q \in Request
    <3>1. row \in Integration
      BY <1>5 DEF SyncStart, TypeOK
    <3>2. Since \in Int
      BY <3>1, GmailAssumption DEF Since, TypeOK, Integration
    <3> QED
      BY <3>1, <3>2 DEF Idle, Request, Integration
  <2>2. q.fresh = {} /\ q.unsent = {} /\ q.found = {}
    BY DEF Idle
  <2>3. Becomes(s, q) /\ tasks' = tasks /\ raced' = raced
    BY <1>5 DEF SyncStart
  <2> HIDE DEF q
  <2> QED
    BY <2>1, <2>2, <2>3, SerialShrinks
<1>6. ASSUME NEW s \in Syncs, Fetch(s) PROVE Serial'
  <2> PICK step \in {"token", "work"}, account \in Accounts, mails \in SUBSET Emails :
        Becomes(s, [sync[s] EXCEPT !.step = step, !.account = account, !.mails = mails,
                                   !.unchecked = mails])
    BY <1>6 DEF Fetch, Listed, TypeOK, Active
  <2> DEFINE q == [sync[s] EXCEPT !.step = step, !.account = account, !.mails = mails,
                                  !.unchecked = mails]
  <2>1. /\ q \in Request /\ q.fresh = sync[s].fresh /\ q.unsent = sync[s].unsent
        /\ q.found = sync[s].found
    BY <1>0 DEF Request
  <2>2. s \in Active
    BY <1>6 DEF Fetch, Active
  <2>3. Becomes(s, q) /\ tasks' = tasks /\ raced' = raced
    BY <1>6 DEF Fetch
  <2> HIDE DEF q
  <2> QED
    BY <2>1, <2>2, <2>3, SerialShrinks DEF Serial
<1>7. ASSUME NEW s \in Syncs, SaveToken(s) PROVE Serial'
  <2> DEFINE q == [sync[s] EXCEPT !.step = "work"]
  <2>1. /\ q \in Request /\ q.fresh = sync[s].fresh /\ q.unsent = sync[s].unsent
        /\ q.found = sync[s].found
    BY <1>0 DEF Request
  <2>2. s \in Active /\ Becomes(s, q) /\ tasks' = tasks /\ raced' = raced
    BY <1>7 DEF SaveToken, Active
  <2> HIDE DEF q
  <2> QED
    BY <2>1, <2>2, SerialShrinks DEF Serial
<1>8. ASSUME NEW s \in Syncs, NEW e \in Emails, Count(s, e) PROVE Serial'
  <2>1. CASE e \in Refs
    <3> DEFINE q == [sync[s] EXCEPT !.unchecked = @ \ {e}]
    <3>1. /\ q \in Request /\ q.fresh = sync[s].fresh /\ q.unsent = sync[s].unsent
          /\ q.found = sync[s].found
      BY <1>0 DEF Request
    <3>2. s \in Active /\ Becomes(s, q) /\ tasks' = tasks /\ raced' = raced
      BY <1>8, <2>1 DEF Count, Active
    <3> HIDE DEF q
    <3> QED
      BY <3>1, <3>2, SerialShrinks DEF Serial
  <2>2. CASE e \notin Refs
    <3> DEFINE q == [sync[s] EXCEPT !.unchecked = @ \ {e}, !.fresh = @ \cup {e},
                                    !.unsent = @ \cup {e}]
    <3>1. /\ q.fresh = sync[s].fresh \cup {e} /\ q.unsent = sync[s].unsent \cup {e}
          /\ q.found = sync[s].found
      BY <1>0 DEF Request
    <3>2. /\ sync'[s] = q /\ \A a \in Syncs : a # s => sync'[a] = sync[a]
      BY <1>8, <2>2 DEF Count, Becomes, TypeOK
    <3>3. tasks' = tasks /\ s \in Active
          /\ raced' = raced \cup {f \in {e} : \E a \in Syncs \ {s} : f \in sync[a].fresh}
      BY <1>8, <2>2 DEF Count, Active
    <3>4. \A t \in tasks : t.find.ref # e
      BY <2>2 DEF Refs
    <3>5. \A a \in Syncs : a # s /\ e \in sync[a].fresh => e \in raced'
      BY <3>3
    <3> HIDE DEF q
    <3> QED
      BY <3>1, <3>2, <3>3, <3>4, <3>5 DEF Serial, OneSyncPerMail
  <2> QED
    BY <2>1, <2>2
<1>9. ASSUME NEW s \in Syncs, Extract(s) \/ ExtractFails(s) PROVE Serial'
  <2> PICK batch \in SUBSET sync[s].unsent :
        \/ Becomes(s, [sync[s] EXCEPT !.unsent = @ \ batch])
        \/ \E answer \in SUBSET Find :
             /\ \A t \in answer : t.ref \in batch
             /\ Becomes(s, [sync[s] EXCEPT !.unsent = @ \ batch, !.found = answer])
    BY <1>9, BatchPart DEF Extract, ExtractFails
  <2>1. tasks' = tasks /\ raced' = raced
    BY <1>9 DEF Extract, ExtractFails
  <2>2. CASE Becomes(s, [sync[s] EXCEPT !.unsent = @ \ batch])
    <3> DEFINE q == [sync[s] EXCEPT !.unsent = @ \ batch]
    <3>1. /\ q \in Request /\ q.fresh = sync[s].fresh /\ q.unsent \subseteq sync[s].unsent
          /\ q.found = sync[s].found
      BY <1>0 DEF Request
    <3>2. Becomes(s, q)
      BY <2>2
    <3> HIDE DEF q
    <3> QED
      BY <2>1, <3>1, <3>2, SerialShrinks DEF Serial
  <2>3. ASSUME NEW answer \in SUBSET Find, \A t \in answer : t.ref \in batch,
               Becomes(s, [sync[s] EXCEPT !.unsent = @ \ batch, !.found = answer])
        PROVE Serial'
    <3> DEFINE q == [sync[s] EXCEPT !.unsent = @ \ batch, !.found = answer]
    <3>1. /\ q \in Request /\ q.fresh = sync[s].fresh /\ q.unsent \subseteq sync[s].unsent
          /\ q.found = answer
      BY <1>0 DEF Request
    <3>2. Becomes(s, q)
      BY <2>3
    <3>3. \A t \in answer : t.ref \in sync[s].fresh
      BY <2>3 DEF Serial
    <3> HIDE DEF q
    <3> QED
      BY <2>1, <3>1, <3>2, <3>3, SerialShrinks DEF Serial
  <2> QED
    BY <2>2, <2>3
<1>10. ASSUME NEW s \in Syncs, InsertTask(s) PROVE Serial'
  <2> PICK t \in sync[s].found :
        /\ tasks' = tasks \cup {[find |-> t, by |-> s]} \/ tasks' = tasks
        /\ Becomes(s, [sync[s] EXCEPT !.found = @ \ {t}])
    BY <1>10 DEF InsertTask
  <2>1. /\ \A a \in Syncs : sync'[a].fresh = sync[a].fresh /\ sync'[a].unsent = sync[a].unsent
        /\ \A a \in Syncs : sync'[a].found \subseteq sync[a].found
    BY <1>0 DEF Becomes, TypeOK, Request
  <2>2. raced' = raced /\ t.ref \in sync[s].fresh
    BY <1>10 DEF InsertTask, Serial
  <2> DEFINE new == [find |-> t, by |-> s]
  <2>3. new.find = t /\ new.by = s /\ tasks' \subseteq tasks \cup {new}
    OBVIOUS
  <2> HIDE DEF new
  <2>4. \A a \in Syncs : t.ref \in sync[a].fresh /\ a # s => t.ref \in raced
    BY <2>2 DEF Serial
  <2>5. \A u \in tasks : u.find.ref = t.ref /\ u.by # s => t.ref \in raced
    BY <2>2 DEF Serial
  <2> QED
    BY <2>1, <2>2, <2>3, <2>4, <2>5 DEF Serial, OneSyncPerMail
<1>11. ASSUME NEW s \in Syncs, Stamp(s) \/ Abort(s) PROVE Serial'
  <2>1. Becomes(s, Idle) /\ tasks' = tasks /\ raced' = raced
    BY <1>11 DEF Stamp, Abort
  <2> QED
    BY <1>0, <2>1, SerialShrinks
<1> QED
  BY <1>1, <1>2, <1>3, <1>4, <1>5, <1>6, <1>7, <1>8, <1>9, <1>10, <1>11 DEF Next

LEMMA SerialInit == Init => Serial
  BY DEF Init, Idle, Serial, OneSyncPerMail

\* The tasks of a mail come from one sync, unless two syncs counted it before
\* either made a task of it.
THEOREM MailGivesToOneSync == Spec => []OneSyncPerMail
<1>1. TypeOK /\ Serial /\ [Next]_vars => TypeOK' /\ Serial'
  BY TypeStep, SerialStep
<1>2. Init => TypeOK /\ Serial
  BY TypeInit, SerialInit
<1>3. Serial => OneSyncPerMail
  BY DEF Serial
<1> QED
  BY <1>1, <1>2, <1>3, PTL DEF Spec

-----------------------------------------------------------------------------
(* The tokens of one account.                                               *)

\* While no account was crossed, every sync under way holds the tokens of the
\* account that the row, if it is there, belongs to.
Tokens ==
  /\ TokensOfOneAccount
  /\ \A s \in Active : ~crossed =>
       /\ sync[s].account = sync[s].refresh
       /\ row # NULL => sync[s].refresh = row.refresh
  /\ \A s \in Syncs : sync[s].step = "token" => sync[s].account = sync[s].refresh
  /\ \A s \in Active : sync[s].account \in users /\ sync[s].refresh \in users
  /\ row # NULL => row.access \in users /\ row.refresh \in users

LEMMA TokensStep == TypeOK /\ Tokens /\ [Next]_vars => Tokens'
<1> SUFFICES ASSUME TypeOK, Tokens, [Next]_vars PROVE Tokens'
  OBVIOUS
<1> USE DEF mailbox, connections, TokensOfOneAccount, Active
<1>0. Idle.step = "idle" /\ \A s \in Syncs : sync[s] \in Request
  BY IdleType DEF TypeOK
<1>1. CASE NextDay \/ GmailDisconnect \/ UNCHANGED vars
  BY <1>1 DEF NextDay, GmailDisconnect, vars, Tokens
<1>2. ASSUME NEW e \in Emails, Arrive(e) PROVE Tokens'
  BY <1>2 DEF Arrive, Tokens
<1>3. ASSUME NEW a \in Accounts, GmailCallback(a) PROVE Tokens'
  <2>1. row # NULL => row \in Integration
    BY DEF TypeOK
  <2>2. row'.access = a /\ row'.refresh = a
    BY <1>3, <2>1 DEF GmailCallback, Integration
  <2>3. /\ sync' = sync /\ users' = users \cup {a}
        /\ crossed' = (crossed \/ \E s \in Active : sync[s].refresh # a)
    BY <1>3 DEF GmailCallback, Connects
  <2> QED
    BY <2>2, <2>3 DEF Tokens
<1>4. ASSUME NEW t \in tasks, DeleteTask(t) PROVE Tokens'
  BY <1>4 DEF DeleteTask, Tokens
<1>5. ASSUME NEW s \in Syncs, SyncStart(s) PROVE Tokens'
  <2>1. /\ sync'[s].account = row.access /\ sync'[s].refresh = row.refresh
        /\ sync'[s].step = "fetch" /\ row # NULL
        /\ \A a \in Syncs : a # s => sync'[a] = sync[a]
    BY <1>5 DEF SyncStart, Becomes, TypeOK, Idle
  <2> QED
    BY <1>5, <2>1 DEF SyncStart, Tokens
<1>6. ASSUME NEW s \in Syncs, Fetch(s) PROVE Tokens'
  <2>1. PICK renewed \in BOOLEAN :
          /\ sync'[s].account = (IF renewed THEN sync[s].refresh ELSE sync[s].account)
          /\ sync'[s].refresh = sync[s].refresh
          /\ sync'[s].step = (IF renewed THEN "token" ELSE "work")
          /\ \A a \in Syncs : a # s => sync'[a] = sync[a]
    BY <1>0, <1>6 DEF Fetch, Becomes, TypeOK, Request
  <2> QED
    BY <1>6, <2>1 DEF Fetch, Tokens
<1>7. ASSUME NEW s \in Syncs, SaveToken(s) PROVE Tokens'
  <2>1. /\ sync'[s].account = sync[s].account /\ sync'[s].refresh = sync[s].refresh
        /\ sync'[s].step = "work"
        /\ \A a \in Syncs : a # s => sync'[a] = sync[a]
    BY <1>0, <1>7 DEF SaveToken, Becomes, TypeOK, Request
  <2>2. row # NULL => row \in Integration
    BY DEF TypeOK
  <2>3. row # NULL => row'.access = sync[s].account /\ row'.refresh = row.refresh
    BY <1>7, <2>2 DEF SaveToken, Integration
  <2> QED
    BY <1>7, <2>1, <2>3 DEF SaveToken, Tokens
<1>8. ASSUME NEW s \in Syncs,
             \/ \E e \in Emails : Count(s, e)
             \/ Extract(s) \/ ExtractFails(s) \/ InsertTask(s)
      PROVE  Tokens'
  <2>1. /\ sync'[s].account = sync[s].account /\ sync'[s].refresh = sync[s].refresh
        /\ sync'[s].step = sync[s].step
        /\ \A a \in Syncs : a # s => sync'[a] = sync[a]
    <3>1. CASE \E e \in Emails : Count(s, e)
      <4> PICK e \in Emails : Count(s, e)
        BY <3>1
      <4>1. CASE e \in Refs
        BY <1>0, <4>1 DEF Count, Becomes, TypeOK, Request
      <4>2. CASE e \notin Refs
        <5> DEFINE q == [sync[s] EXCEPT !.unchecked = @ \ {e}, !.fresh = @ \cup {e},
                                        !.unsent = @ \cup {e}]
        <5>1. q.account = sync[s].account /\ q.refresh = sync[s].refresh /\ q.step = sync[s].step
          BY <1>0 DEF Request
        <5>2. Becomes(s, q)
          BY <4>2 DEF Count
        <5> HIDE DEF q
        <5> QED
          BY <5>1, <5>2 DEF Becomes, TypeOK
      <4> QED
        BY <4>1, <4>2
    <3>2. CASE Extract(s)
      BY <1>0, <3>2 DEF Extract, Becomes, TypeOK, Request
    <3>3. CASE ExtractFails(s)
      BY <1>0, <3>3 DEF ExtractFails, Becomes, TypeOK, Request
    <3>4. CASE InsertTask(s)
      BY <1>0, <3>4 DEF InsertTask, Becomes, TypeOK, Request
    <3> QED
      BY <1>8, <3>1, <3>2, <3>3, <3>4
  <2>2. row' = row /\ users' = users /\ crossed' = crossed
    BY <1>8 DEF Count, Extract, ExtractFails, InsertTask
  <2> QED
    BY <2>1, <2>2 DEF Tokens
<1>9. ASSUME NEW s \in Syncs, Stamp(s) \/ Abort(s) PROVE Tokens'
  <2>1. sync'[s] = Idle /\ \A a \in Syncs : a # s => sync'[a] = sync[a]
    BY <1>9 DEF Stamp, Abort, Becomes, TypeOK
  <2>2. row' # NULL => /\ row # NULL /\ row'.access = row.access /\ row'.refresh = row.refresh
    BY <1>9 DEF Stamp, Abort, TypeOK, Integration
  <2>3. users' = users /\ crossed' = crossed
    BY <1>9 DEF Stamp, Abort
  <2> QED
    BY <1>0, <2>1, <2>2, <2>3 DEF Tokens
<1> QED
  BY <1>1, <1>2, <1>3, <1>4, <1>5, <1>6, <1>7, <1>8, <1>9 DEF Next

LEMMA TokensInit == Init => Tokens
  BY DEF Init, Idle, Tokens, TokensOfOneAccount, Active

\* The two tokens of the row belong to one account, unless another account was
\* connected while a sync was under way.
THEOREM TokensStayTogether == Spec => []TokensOfOneAccount
<1>1. TypeOK /\ Tokens /\ [Next]_vars => TypeOK' /\ Tokens'
  BY TypeStep, TokensStep
<1>2. Init => TypeOK /\ Tokens
  BY TypeInit, TokensInit
<1>3. Tokens => TokensOfOneAccount
  BY DEF Tokens
<1> QED
  BY <1>1, <1>2, <1>3, PTL DEF Spec

\* Only GmailCallback brings the row back after a disconnect, with no watermark:
\* a sync that is still running writes to no row.
THEOREM DisconnectsAreFinal == Spec => DisconnectIsFinal
<1>1. ASSUME Next, row = NULL, row' # NULL PROVE row'.mark = NULL /\ sync' = sync
  <2>1. CASE NextDay \/ GmailDisconnect
    BY <1>1, <2>1 DEF NextDay, GmailDisconnect
  <2>2. ASSUME NEW a \in Accounts, GmailCallback(a) PROVE row'.mark = NULL /\ sync' = sync
    BY <1>1, <2>2 DEF GmailCallback
  <2>3. CASE (\E e \in Emails : Arrive(e)) \/ (\E t \in tasks : DeleteTask(t))
    BY <1>1, <2>3 DEF Arrive, DeleteTask
  <2>4. ASSUME NEW s \in Syncs, SyncStart(s) \/ Fetch(s) \/ SaveToken(s) \/ Stamp(s) \/ Abort(s)
        PROVE  FALSE
    BY <1>1, <2>4 DEF SyncStart, Fetch, SaveToken, Stamp, Abort
  <2>5. ASSUME NEW s \in Syncs,
               (\E e \in Emails : Count(s, e)) \/ Extract(s) \/ ExtractFails(s) \/ InsertTask(s)
        PROVE  FALSE
    BY <1>1, <2>5 DEF Count, Extract, ExtractFails, InsertTask
  <2> QED
    BY <1>1, <2>1, <2>2, <2>3, <2>4, <2>5 DEF Next
<1>2. [Next]_vars => [row = NULL /\ row' # NULL => row'.mark = NULL /\ sync' = sync]_vars
  BY <1>1
<1> QED
  BY <1>2, PTL DEF Spec, DisconnectIsFinal

-----------------------------------------------------------------------------
(* Nothing skipped.                                                         *)

\* A mail that arrived before day d.
Behind(e, d) == arrived[e] > 0 /\ arrived[e] < d

\* The premise of NothingSkipped for one mail.
Plain(e) == ~ahead /\ users = {Of[e]}

\* The watermark, where a sync begins, and every date a sync may stamp lie no
\* later than today, and what is behind them is settled, or is still in the
\* hands of the sync that will settle it before it stamps.
Frontier ==
  /\ Refs \subseteq settled
  /\ \A s \in Syncs : \A t \in sync[s].found : t.ref \in settled /\ s \in Active
  /\ \A s \in Syncs : \A e \in sync[s].mails : arrived[e] > 0
  /\ \A e \in Emails : Plain(e) /\ row # NULL /\ row.mark # NULL =>
       row.mark <= day /\ (Behind(e, row.mark) => e \in settled)
  /\ \A e \in Emails, s \in Active : Plain(e) =>
       sync[s].since <= day /\ (Behind(e, sync[s].since) => e \in settled)
  /\ \A e \in Emails, s \in Active : Plain(e) =>
       \A d \in Dated(sync[s].mails) :
         d <= day /\ (Behind(e, d) => e \in settled \cup sync[s].unchecked \cup sync[s].unsent)

\* A step that hands mails of one sync on, or settles them, keeps it.
LEMMA FrontierHandsOn ==
  ASSUME TypeOK, Frontier, NEW s \in Syncs, NEW q,
         sync'[s] = q, \A a \in Syncs : a # s => sync'[a] = sync[a],
         day' = day, arrived' = arrived, users' = users, ahead' = ahead,
         row' # NULL => row # NULL /\ row'.mark = row.mark,
         settled \subseteq settled', Refs' \subseteq settled',
         \A t \in q.found : t.ref \in settled',
         s \in Active, s \in Active', q.mails = sync[s].mails, q.since = sync[s].since,
         sync[s].unchecked \cup sync[s].unsent \subseteq settled' \cup q.unchecked \cup q.unsent
  PROVE  Frontier'
<1>1. \A e : Plain(e)' = Plain(e)
  BY DEF Plain
<1>2. \A e, d : Behind(e, d)' = Behind(e, d)
  BY DEF Behind
<1>3. \A mails : Dated(mails)' = Dated(mails)
  BY DEF Dated
<1>4. \A a \in Syncs : a \in Active' <=> a \in Active
  BY DEF Active
<1>5. \A a \in Syncs : /\ sync'[a].mails = sync[a].mails /\ sync'[a].since = sync[a].since
                       /\ \A t \in sync'[a].found : t.ref \in settled'
                       /\ sync[a].unchecked \cup sync[a].unsent
                            \subseteq settled' \cup sync'[a].unchecked \cup sync'[a].unsent
  BY DEF Frontier
<1>6. \A a \in Active' : a \in Syncs
  BY DEF Active
<1> QED
  BY <1>1, <1>2, <1>3, <1>4, <1>5, <1>6 DEF Frontier

LEMMA FrontierStep == TypeOK /\ Tokens /\ Frontier /\ [Next]_vars => Frontier'
<1> SUFFICES ASSUME TypeOK, Tokens, Frontier, [Next]_vars PROVE Frontier'
  OBVIOUS
<1> USE DEF mailbox, connections
<1>0. /\ Idle \in Request /\ Idle.step = "idle" /\ Idle.mails = {} /\ Idle.found = {}
      /\ \A s \in Syncs : sync[s] \in Request
      /\ day \in Nat /\ arrived \in [Emails -> Nat]
  BY IdleType DEF Idle, TypeOK
<1>1. CASE NextDay
  BY <1>0, <1>1, GmailAssumption
  DEF NextDay, Frontier, Plain, Behind, Dated, Active, Refs, TypeOK, Request, Integration
<1>2. CASE GmailDisconnect \/ (\E t \in tasks : DeleteTask(t)) \/ UNCHANGED vars
  BY <1>2 DEF GmailDisconnect, DeleteTask, vars, Frontier, Plain, Behind, Dated, Active, Refs
<1>3. ASSUME NEW e \in Emails, Arrive(e) PROVE Frontier'
  <2>1. /\ day' = day /\ row' = row /\ sync' = sync /\ settled' = settled /\ tasks' = tasks
        /\ arrived' = [arrived EXCEPT ![e] = day] /\ users' = users /\ ahead' = ahead
        /\ arrived[e] = 0
    BY <1>3 DEF Arrive
  <2>2. \A f \in Emails, d \in Int : d <= day /\ Behind(f, d)' => Behind(f, d)
    BY <1>0, <2>1 DEF Behind
  <2>3. \A s \in Syncs : Dated(sync[s].mails)' = Dated(sync[s].mails)
    BY <1>0, <2>1 DEF Dated, Frontier, Request
  <2>4. \A s \in Syncs : Dated(sync[s].mails) \subseteq Int
    BY <1>0, GmailAssumption DEF Dated, Request
  <2>5. row # NULL /\ row.mark # NULL => row.mark \in Int
    BY DEF TypeOK, Integration
  <2>6. \A s \in Syncs : sync[s].since \in Int
    BY <1>0 DEF Request
  <2>7. \A s \in Syncs : \A f \in sync[s].mails : arrived'[f] > 0
    BY <1>0, <2>1 DEF Frontier, Request, TypeOK
  <2>8. \A f : Plain(f)' = Plain(f)
    BY <2>1 DEF Plain
  <2>9. Refs' = Refs /\ Active' = Active
    BY <2>1 DEF Refs, Active
  <2> QED
    BY <2>1, <2>2, <2>3, <2>4, <2>5, <2>6, <2>7, <2>8, <2>9 DEF Frontier, Active
<1>4. ASSUME NEW a \in Accounts, GmailCallback(a) PROVE Frontier'
  <2>1. /\ day' = day /\ sync' = sync /\ settled' = settled /\ tasks' = tasks
        /\ arrived' = arrived /\ users' = users \cup {a} /\ ahead' = ahead
    BY <1>4 DEF GmailCallback, Connects
  <2>2. row' # NULL /\ row'.mark # NULL => row # NULL /\ row'.mark = row.mark
    BY <1>4 DEF GmailCallback, TypeOK, Integration
  <2>3. \A e \in Emails : Plain(e)' /\ (row # NULL \/ Active # {}) => Plain(e)
    BY <2>1 DEF Plain, Tokens
  <2>4. \A e, d : Behind(e, d)' = Behind(e, d)
    BY <2>1 DEF Behind
  <2>5. \A mails : Dated(mails)' = Dated(mails)
    BY <2>1 DEF Dated
  <2>6. Refs' = Refs /\ Active' = Active
    BY <2>1 DEF Refs, Active
  <2> QED
    BY <2>1, <2>2, <2>3, <2>4, <2>5, <2>6 DEF Frontier
<1>5. ASSUME NEW s \in Syncs, SyncStart(s) PROVE Frontier'
  <2>1. /\ day' = day /\ row' = row /\ tasks' = tasks /\ arrived' = arrived
        /\ users' = users /\ ahead' = ahead /\ row # NULL
        /\ settled' = settled \cup {e \in Emails : row.mark = NULL /\ arrived[e] \in 1..(Since - 1)}
    BY <1>5 DEF SyncStart
  <2>2. /\ sync'[s].since = Since /\ sync'[s].mails = {} /\ sync'[s].found = {}
        /\ \A a \in Syncs : a # s => sync'[a] = sync[a]
    BY <1>5 DEF SyncStart, Becomes, TypeOK, Idle
  <2>3. row.mark # NULL => row.mark \in Int
    BY <2>1 DEF TypeOK, Integration
  <2>4. Since \in Int
    BY <1>0, <2>3, GmailAssumption DEF Since
  <2>5. \A e \in Emails : Plain(e) => Since <= day /\ (Behind(e, Since) => e \in settled')
    <3>1. CASE row.mark = NULL
      BY <1>0, <2>1, <2>4, <3>1, GmailAssumption DEF Since, Behind
    <3>2. CASE row.mark # NULL
      BY <2>1, <3>2 DEF Since, Frontier
    <3> QED
      BY <3>1, <3>2
  <2>6. \A e, d : Behind(e, d)' = Behind(e, d)
    BY <2>1 DEF Behind
  <2>7. \A mails : Dated(mails)' = Dated(mails)
    BY <2>1 DEF Dated
  <2>8. \A e : Plain(e)' = Plain(e)
    BY <2>1 DEF Plain
  <2>9. Dated({}) = {} /\ Refs' = Refs
    BY <2>1 DEF Dated, Refs
  <2>10. \A a \in Syncs : a # s => (a \in Active' <=> a \in Active)
    BY <2>2 DEF Active
  <2>11. \A a \in Active' : a \in Syncs
    BY DEF Active
  <2> QED
    BY <2>1, <2>2, <2>5, <2>6, <2>7, <2>8, <2>9, <2>10, <2>11 DEF Frontier
<1>6. ASSUME NEW s \in Syncs, Fetch(s) PROVE Frontier'
  <2> PICK renewed \in BOOLEAN, failed \in SUBSET Emails :
        LET account == IF renewed THEN sync[s].refresh ELSE sync[s].account
            mails == Listed(account, sync[s].since) \ failed
        IN /\ Becomes(s, [sync[s] EXCEPT !.step = IF renewed THEN "token" ELSE "work",
                            !.account = account, !.mails = mails, !.unchecked = mails])
           /\ ahead' = (ahead \/ \E d \in Dated(mails) : d > day)
           /\ settled' = settled \cup failed
    BY <1>6 DEF Fetch, Listed
  <2> DEFINE account == IF renewed THEN sync[s].refresh ELSE sync[s].account
             mails == Listed(account, sync[s].since) \ failed
  <2>1. /\ day' = day /\ row' = row /\ tasks' = tasks /\ arrived' = arrived /\ users' = users
        /\ s \in Active /\ ahead' = (ahead \/ \E d \in Dated(mails) : d > day)
        /\ settled' = settled \cup failed
    BY <1>6 DEF Fetch, Active
  <2>2. /\ sync'[s].since = sync[s].since /\ sync'[s].mails = mails
        /\ sync'[s].unchecked = mails /\ sync'[s].found = sync[s].found
        /\ sync'[s].step = (IF renewed THEN "token" ELSE "work")
        /\ \A a \in Syncs : a # s => sync'[a] = sync[a]
    BY <1>0 DEF Becomes, TypeOK, Request
  <2>3. account \in users
    BY <2>1 DEF Tokens
  <2>4. Dated(mails) \subseteq Int
    BY <1>0, GmailAssumption DEF Dated, Listed
  <2>5. \A e \in Emails : Plain(e)' => Plain(e) /\ Of[e] = account /\ \A d \in Dated(mails) : d <= day
    <3>1. \A e \in Emails : Plain(e)' => Plain(e) /\ Of[e] = account
      BY <2>1, <2>3 DEF Plain
    <3> HIDE DEF mails
    <3>2. ~ahead' => \A d \in Dated(mails) : ~(d > day)
      BY <2>1
    <3>3. \A d \in Dated(mails) : ~(d > day) => d <= day
      BY <1>0, <2>4
    <3> QED
      BY <3>1, <3>2, <3>3 DEF Plain
  <2>6. ASSUME NEW e \in Emails, Plain(e)', NEW d \in Dated(mails), Behind(e, d)
        PROVE  e \in settled' \cup mails
    <3>1. CASE arrived[e] < sync[s].since
      BY <2>1, <2>5, <2>6, <3>1 DEF Frontier, Behind
    <3>2. CASE arrived[e] >= sync[s].since
      BY <2>1, <2>5, <2>6, <3>2 DEF Listed, Behind
    <3> QED
      BY <1>0, <3>1, <3>2 DEF Request
  <2>7. \A e \in mails : arrived[e] > 0
    BY DEF Listed
  <2>8. \A e, d : Behind(e, d)' = Behind(e, d)
    BY <2>1 DEF Behind
  <2>9. \A some : Dated(some)' = Dated(some)
    BY <2>1 DEF Dated
  <2>10. Refs' = Refs
    BY <2>1 DEF Refs
  <2>11. /\ \A a \in Syncs : a \in Active' => a \in Active
         /\ \A a \in Syncs : a # s => (a \in Active' <=> a \in Active)
         /\ \A a \in Active' : a \in Syncs
         /\ sync'[s].found = {} \/ s \in Active'
    BY <1>6, <2>1, <2>2 DEF Active, Fetch
  <2> HIDE DEF mails, account
  <2> QED
    BY <2>1, <2>2, <2>5, <2>6, <2>7, <2>8, <2>9, <2>10, <2>11 DEF Frontier
<1>7. ASSUME NEW s \in Syncs, SaveToken(s) PROVE Frontier'
  <2> DEFINE q == [sync[s] EXCEPT !.step = "work"]
  <2>1. /\ q.mails = sync[s].mails /\ q.since = sync[s].since /\ q.found = sync[s].found
        /\ q.unchecked = sync[s].unchecked /\ q.unsent = sync[s].unsent
    BY <1>0 DEF Request
  <2>2. /\ s \in Active /\ sync'[s] = q /\ \A a \in Syncs : a # s => sync'[a] = sync[a]
        /\ row' # NULL => row # NULL /\ row'.mark = row.mark
    BY <1>7 DEF SaveToken, Active, Becomes, TypeOK, Integration
  <2>3. /\ day' = day /\ arrived' = arrived /\ users' = users /\ ahead' = ahead
        /\ settled' = settled /\ Refs' = Refs
    BY <1>7 DEF SaveToken, Refs
  <2>4. Refs \subseteq settled /\ \A t \in sync[s].found : t.ref \in settled
    BY DEF Frontier
  <2>5. s \in Active'
    BY <1>0, <2>2 DEF Active, Request
  <2> HIDE DEF q
  <2> QED
    BY <2>1, <2>2, <2>3, <2>4, <2>5, FrontierHandsOn
<1>8. ASSUME NEW s \in Syncs, NEW e \in Emails, Count(s, e) PROVE Frontier'
  <2>1. PICK q : /\ Becomes(s, q) /\ q.step = sync[s].step /\ q.mails = sync[s].mails /\ q.since = sync[s].since
                 /\ q.found = sync[s].found
                 /\ sync[s].unchecked \cup sync[s].unsent \subseteq settled \cup q.unchecked \cup q.unsent
    <3>1. CASE e \in Refs
      <4> DEFINE q == [sync[s] EXCEPT !.unchecked = @ \ {e}]
      <4>1. Becomes(s, q)
        BY <1>8, <3>1 DEF Count
      <4>2. /\ q.step = sync[s].step /\ q.mails = sync[s].mails /\ q.since = sync[s].since /\ q.found = sync[s].found
            /\ sync[s].unchecked \cup sync[s].unsent \subseteq settled \cup q.unchecked \cup q.unsent
        BY <1>0, <3>1 DEF Request, Frontier
      <4> QED
        BY <4>1, <4>2
    <3>2. CASE e \notin Refs
      <4> DEFINE q == [sync[s] EXCEPT !.unchecked = @ \ {e}, !.fresh = @ \cup {e},
                                      !.unsent = @ \cup {e}]
      <4>1. Becomes(s, q)
        BY <1>8, <3>2 DEF Count
      <4>2. /\ q.step = sync[s].step /\ q.mails = sync[s].mails /\ q.since = sync[s].since /\ q.found = sync[s].found
            /\ sync[s].unchecked \cup sync[s].unsent \subseteq settled \cup q.unchecked \cup q.unsent
        BY <1>0 DEF Request
      <4> QED
        BY <4>1, <4>2
    <3> QED
      BY <3>1, <3>2
  <2>2. /\ s \in Active /\ s \in Active'
        /\ sync'[s] = q /\ \A a \in Syncs : a # s => sync'[a] = sync[a]
    BY <1>8, <2>1 DEF Count, Active, Becomes, TypeOK
  <2>3. /\ day' = day /\ arrived' = arrived /\ users' = users /\ ahead' = ahead
        /\ row' = row /\ settled' = settled /\ Refs' = Refs
    BY <1>8 DEF Count, Refs
  <2>4. Refs \subseteq settled /\ \A t \in sync[s].found : t.ref \in settled
    BY DEF Frontier
  <2> QED
    BY <2>1, <2>2, <2>3, <2>4, FrontierHandsOn
<1>9. ASSUME NEW s \in Syncs, Extract(s) \/ ExtractFails(s) PROVE Frontier'
  <2>1. PICK q, batch :
          /\ Becomes(s, q) /\ q.step = sync[s].step
          /\ q.mails = sync[s].mails /\ q.since = sync[s].since
          /\ q.unchecked = sync[s].unchecked /\ q.unsent = sync[s].unsent \ batch
          /\ \A t \in q.found : t.ref \in batch \cup settled
          /\ settled' = settled \cup batch
    <3>1. CASE Extract(s)
      <4> PICK batch \in Batches(sync[s].unsent), answer \in SUBSET Find :
            /\ \A t \in answer : t.ref \in batch
            /\ Becomes(s, [sync[s] EXCEPT !.unsent = @ \ batch, !.found = answer])
            /\ settled' = settled \cup batch
        BY <3>1 DEF Extract
      <4> DEFINE q == [sync[s] EXCEPT !.unsent = @ \ batch, !.found = answer]
      <4>1. /\ q.step = sync[s].step /\ q.mails = sync[s].mails /\ q.since = sync[s].since /\ q.found = answer
            /\ q.unchecked = sync[s].unchecked /\ q.unsent = sync[s].unsent \ batch
        BY <1>0 DEF Request
      <4>2. Becomes(s, q)
        OBVIOUS
      <4> HIDE DEF q
      <4> QED
        BY <4>1, <4>2
    <3>2. CASE ExtractFails(s)
      <4> PICK batch \in Batches(sync[s].unsent) :
            /\ Becomes(s, [sync[s] EXCEPT !.unsent = @ \ batch])
            /\ settled' = settled \cup batch
        BY <3>2 DEF ExtractFails
      <4> DEFINE q == [sync[s] EXCEPT !.unsent = @ \ batch]
      <4>1. /\ q.step = sync[s].step /\ q.mails = sync[s].mails /\ q.since = sync[s].since /\ q.found = sync[s].found
            /\ q.unchecked = sync[s].unchecked /\ q.unsent = sync[s].unsent \ batch
        BY <1>0 DEF Request
      <4>2. Becomes(s, q)
        OBVIOUS
      <4> HIDE DEF q
      <4> QED
        BY <4>1, <4>2 DEF Frontier
    <3> QED
      BY <1>9, <3>1, <3>2
  <2>2. /\ s \in Active /\ s \in Active'
        /\ sync'[s] = q /\ \A a \in Syncs : a # s => sync'[a] = sync[a]
    BY <1>9, <2>1 DEF Extract, ExtractFails, Counted, Active, Becomes, TypeOK
  <2>3. /\ day' = day /\ arrived' = arrived /\ users' = users /\ ahead' = ahead
        /\ row' = row /\ Refs' = Refs
    BY <1>9 DEF Extract, ExtractFails, Refs
  <2>4. Refs' \subseteq settled'
    BY <2>1, <2>3 DEF Frontier
  <2> QED
    BY <2>1, <2>2, <2>3, <2>4, FrontierHandsOn
<1>10. ASSUME NEW s \in Syncs, InsertTask(s) PROVE Frontier'
  <2> PICK t \in sync[s].found :
        /\ tasks' = tasks \cup {[find |-> t, by |-> s]} \/ tasks' = tasks
        /\ Becomes(s, [sync[s] EXCEPT !.found = @ \ {t}])
    BY <1>10 DEF InsertTask
  <2> DEFINE q == [sync[s] EXCEPT !.found = @ \ {t}]
  <2>1. /\ q.step = sync[s].step /\ q.mails = sync[s].mails /\ q.since = sync[s].since
        /\ q.found = sync[s].found \ {t}
        /\ q.unchecked = sync[s].unchecked /\ q.unsent = sync[s].unsent
    BY <1>0 DEF Request
  <2>2. /\ sync'[s] = q /\ \A a \in Syncs : a # s => sync'[a] = sync[a]
    BY DEF Becomes, TypeOK
  <2>3. /\ day' = day /\ arrived' = arrived /\ users' = users /\ ahead' = ahead
        /\ row' = row /\ settled' = settled
    BY <1>10 DEF InsertTask
  <2>4. s \in Active /\ s \in Active'
    BY <2>1, <2>2 DEF Active, Frontier
  <2>5. Refs' \subseteq settled' /\ \A u \in q.found : u.ref \in settled'
    BY <2>1, <2>3 DEF Refs, Frontier
  <2> HIDE DEF q
  <2> QED
    BY <2>1, <2>2, <2>3, <2>4, <2>5, FrontierHandsOn
<1>11. ASSUME NEW s \in Syncs, Stamp(s) \/ Abort(s) PROVE Frontier'
  <2>1. /\ day' = day /\ tasks' = tasks /\ arrived' = arrived /\ users' = users
        /\ ahead' = ahead /\ settled' = settled
        /\ sync'[s] = Idle /\ \A a \in Syncs : a # s => sync'[a] = sync[a]
    BY <1>11 DEF Stamp, Abort, Becomes, TypeOK
  <2>2. \A e \in Emails : Plain(e) /\ row' # NULL /\ row'.mark # NULL =>
          row'.mark <= day /\ (Behind(e, row'.mark) => e \in settled)
    <3>1. CASE row' = row
      BY <3>1 DEF Frontier
    <3>2. CASE row' # row
      <4>1. /\ s \in Active /\ sync[s].unchecked = {} /\ sync[s].unsent = {} /\ row # NULL
            /\ \E d \in Dated(sync[s].mails) : row' = [row EXCEPT !.mark = d]
        BY <1>11, <3>2 DEF Stamp, Abort, Extracted, Counted, Latest, Active
      <4> PICK d \in Dated(sync[s].mails) : row' = [row EXCEPT !.mark = d]
        BY <4>1
      <4>2. row'.mark = d
        BY <4>1 DEF TypeOK, Integration
      <4> QED
        BY <4>1, <4>2 DEF Frontier
    <3> QED
      BY <3>1, <3>2
  <2>3. \A e, d : Behind(e, d)' = Behind(e, d)
    BY <2>1 DEF Behind
  <2>4. \A mails : Dated(mails)' = Dated(mails)
    BY <2>1 DEF Dated
  <2>5. \A e : Plain(e)' = Plain(e)
    BY <2>1 DEF Plain
  <2>6. /\ Refs' = Refs /\ \A a \in Active' : a \in Active /\ a # s /\ a \in Syncs
        /\ \A a \in Active : a # s => a \in Active'
    BY <1>0, <2>1 DEF Refs, Active
  <2> QED
    BY <1>0, <2>1, <2>2, <2>3, <2>4, <2>5, <2>6 DEF Frontier
<1> QED
  BY <1>1, <1>2, <1>3, <1>4, <1>5, <1>6, <1>7, <1>8, <1>9, <1>10, <1>11 DEF Next

LEMMA FrontierInit == Init => Frontier
  BY DEF Init, Idle, Frontier, Active, Refs, Plain

\* A mail from before the watermark, which no later sync will list, was shown to
\* Claude or given up knowingly, with one account and Date headers not ahead of
\* the fetch.
THEOREM NeverSkipped == Spec => []NothingSkipped
<1>1. TypeOK /\ Tokens /\ Frontier /\ [Next]_vars => TypeOK' /\ Tokens' /\ Frontier'
  BY TypeStep, TokensStep, FrontierStep
<1>2. Init => TypeOK /\ Tokens /\ Frontier
  BY TypeInit, TokensInit, FrontierInit
<1>3. Frontier => NothingSkipped
  BY DEF Frontier, NothingSkipped, Plain, Behind
<1> QED
  BY <1>1, <1>2, <1>3, PTL DEF Spec
=============================================================================
