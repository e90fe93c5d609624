------------------------- MODULE WhatsAppSyncProofs -------------------------
(***************************************************************************)
(* Safety of the WhatsApp buffer for every set of messages, contacts and    *)
(* concurrent syncs, every batch size and every answer of Claude.           *)
(***************************************************************************)
EXTENDS WhatsAppSync, FiniteSetTheorems, TLAPS

-----------------------------------------------------------------------------
(* Type correctness.                                                        *)

\* Claude's answer is a set of finds about messages of the batch.
LEMMA AnswersType ==
  ASSUME NEW batch \in SUBSET Msgs, NEW answer \in Answers(batch)
  PROVE  answer \subseteq Found /\ \A t \in answer : t.ref \in batch
  BY DEF Answers, Found

\* The category a find names is one that exists or none.
LEMMA NamedType == \A t \in Found : Named[t.item] \in Categories \cup {NULL}
  BY SyncAssumption DEF Found

LEMMA IdleType == Idle \in Request
  BY DEF Idle, Request

\* A request stays one when its locals are assigned values of their kind ...
LEMMA LocalsType ==
  ASSUME NEW q \in Request
  PROVE  /\ \A batch : \A answer \in SUBSET Found :
              [q EXCEPT !.unsent = q.unsent \ batch, !.found = answer,
                        !.told = q.told \cup answer] \in Request
         /\ \A t : \A row \in Row :
              [q EXCEPT !.step = "insert", !.row = row, !.found = q.found \ {t}] \in Request
         /\ \A n \in Nat :
              [q EXCEPT !.step = "batch", !.row = NULL, !.created = q.created + n] \in Request
         /\ \A m : [q EXCEPT !.unmarked = q.unmarked \ {m}] \in Request
         /\ [q EXCEPT !.step = "stamp"] \in Request
<1>1. ASSUME NEW batch, NEW answer \in SUBSET Found
      PROVE  [q EXCEPT !.unsent = q.unsent \ batch, !.found = answer,
                       !.told = q.told \cup answer] \in Request
  BY DEF Request
<1>2. ASSUME NEW t, NEW row \in Row
      PROVE  [q EXCEPT !.step = "insert", !.row = row, !.found = q.found \ {t}] \in Request
  BY DEF Request
<1>3. ASSUME NEW n \in Nat
      PROVE  [q EXCEPT !.step = "batch", !.row = NULL, !.created = q.created + n] \in Request
  <2>1. q.created + n \in Nat
    BY <1>3 DEF Request
  <2> QED
    BY <2>1 DEF Request
<1>4. ASSUME NEW m PROVE [q EXCEPT !.unmarked = q.unmarked \ {m}] \in Request
  BY DEF Request
<1>5. [q EXCEPT !.step = "stamp"] \in Request
  BY DEF Request
<1> QED
  BY <1>1, <1>2, <1>3, <1>4, <1>5

\* ... and so does the function of all requests.
LEMMA RequestsType ==
  ASSUME TypeOK, NEW s \in Syncs, NEW q \in Request, q.step = "insert" => q.row \in Row,
         Becomes(s, q)
  PROVE  /\ sync' \in [Syncs -> Request]
         /\ \A a \in Syncs : sync'[a].step = "insert" => sync'[a].row \in Row
  BY DEF TypeOK, Becomes

LEMMA TypeStep == TypeOK /\ [Next]_vars => TypeOK'
<1> SUFFICES ASSUME TypeOK, [Next]_vars PROVE TypeOK'
  OBVIOUS
<1> USE DEF events, Buffered
<1>1. ASSUME NEW h \in Handlers, NEW m \in Msgs, Receive(h, m) PROVE TypeOK'
  BY <1>1 DEF Receive, TypeOK
<1>2. ASSUME NEW h \in Handlers, Store(h) PROVE TypeOK'
  BY <1>2 DEF Store, TypeOK
<1>3. ASSUME NEW h \in Handlers, Drop(h) PROVE TypeOK'
  BY <1>3 DEF Drop, TypeOK
<1>4. ASSUME NEW j \in Jids, AddContact(j) \/ RemoveContact(j) PROVE TypeOK'
  BY <1>4 DEF AddContact, RemoveContact, TypeOK
<1>5. ASSUME NEW c \in Categories, RemoveCategory(c) PROVE TypeOK'
  BY <1>5 DEF RemoveCategory, TypeOK
<1>6. ASSUME NEW s \in Syncs, SyncStart(s) PROVE TypeOK'
  <2> DEFINE msgs == Buffered \ Processed
             q == [Idle EXCEPT !.step = "batch", !.read = msgs,
                               !.unsent = msgs, !.unmarked = msgs]
  <2>1. msgs \subseteq Msgs
    BY DEF TypeOK
  <2>2. q \in Request /\ q.step = "batch"
    BY <2>1, IdleType DEF Request, Idle
  <2>3. Becomes(s, q)
    BY <1>6 DEF SyncStart
  <2>4. exposed' \subseteq Msgs /\ started' \in 0..MaxSyncs
    BY <1>6, <2>1, SyncAssumption DEF SyncStart, TypeOK, Syncs
  <2> HIDE DEF q, msgs
  <2> QED
    BY <1>6, <2>2, <2>3, <2>4, RequestsType DEF SyncStart, TypeOK
<1>7. ASSUME NEW s \in Syncs, Extract(s) PROVE TypeOK'
  <2> PICK batch \in Batches(sync[s].unsent) :
        /\ asked' = asked \cup batch
        /\ \E answer \in Answers(batch) :
             Becomes(s, [sync[s] EXCEPT !.unsent = sync[s].unsent \ batch, !.found = answer,
                                        !.told = sync[s].told \cup answer])
    BY <1>7 DEF Extract
  <2>1. batch \in SUBSET Msgs
    BY DEF Batches, TypeOK, Request
  <2> PICK answer \in Answers(batch) :
        Becomes(s, [sync[s] EXCEPT !.unsent = sync[s].unsent \ batch, !.found = answer,
                                   !.told = sync[s].told \cup answer])
    OBVIOUS
  <2>2. answer \in SUBSET Found
    BY <2>1, AnswersType
  <2> DEFINE q == [sync[s] EXCEPT !.unsent = sync[s].unsent \ batch, !.found = answer,
                                  !.told = sync[s].told \cup answer]
  <2>3. q \in Request
    BY <2>2, LocalsType DEF TypeOK
  <2>4. q.step = "batch"
    BY <1>7 DEF Extract, TypeOK, Request
  <2>5. Becomes(s, q)
    OBVIOUS
  <2> HIDE DEF q
  <2> QED
    BY <1>7, <2>1, <2>3, <2>4, <2>5, RequestsType DEF Extract, TypeOK
<1>8. ASSUME NEW s \in Syncs, Lookup(s) PROVE TypeOK'
  <2> DEFINE category(t) == IF Named[t.item] \in categories THEN Named[t.item] ELSE NULL
             row(t) == [find |-> t, category |-> category(t)]
             q(t) == [sync[s] EXCEPT !.step = "insert", !.row = row(t),
                                     !.found = sync[s].found \ {t}]
  <2> PICK t \in sync[s].found : Becomes(s, q(t))
    BY <1>8 DEF Lookup
  <2>1. t \in Found /\ sync[s] \in Request
    BY DEF TypeOK, Request
  <2>2. category(t) \in Categories \cup {NULL}
    BY <2>1, NamedType
  <2>3. row(t) \in Row
    BY <2>1, <2>2 DEF Row
  <2> HIDE DEF row
  <2>4. q(t) \in Request /\ q(t).row \in Row
    BY <2>1, <2>3, LocalsType DEF Request
  <2> HIDE DEF q
  <2> QED
    BY <1>8, <2>4, RequestsType DEF Lookup, TypeOK
<1>9. ASSUME NEW s \in Syncs, InsertTask(s) PROVE TypeOK'
  <2> DEFINE n == IF sync[s].row.category \in categories \cup {NULL} THEN 1 ELSE 0
             q == [sync[s] EXCEPT !.step = "batch", !.row = NULL,
                                  !.created = sync[s].created + n]
  <2>1. sync[s].row.find \in Found /\ sync[s] \in Request /\ n \in Nat
    BY <1>9 DEF InsertTask, TypeOK, Row
  <2>2. made' \subseteq Task
    BY <1>9, <2>1 DEF InsertTask, TypeOK, Task
  <2>3. Becomes(s, q)
    BY <1>9 DEF InsertTask
  <2> HIDE DEF n
  <2>4. q \in Request /\ q.step = "batch"
    <3>1. q \in Request
      BY <2>1, LocalsType
    <3>2. q.step = "batch"
      BY <2>1 DEF Request
    <3> QED
      BY <3>1, <3>2
  <2> HIDE DEF q
  <2> QED
    BY <1>9, <2>2, <2>3, <2>4, RequestsType DEF InsertTask, TypeOK
<1>10. ASSUME NEW s \in Syncs, MarkProcessed(s) PROVE TypeOK'
  <2> PICK m \in sync[s].unmarked :
        /\ buffer' = [buffer EXCEPT ![m] = TRUE]
        /\ Becomes(s, [sync[s] EXCEPT !.unmarked = sync[s].unmarked \ {m}])
    BY <1>10 DEF MarkProcessed
  <2> DEFINE q == [sync[s] EXCEPT !.unmarked = sync[s].unmarked \ {m}]
  <2>1. q \in Request
    BY LocalsType DEF TypeOK
  <2>2. q.step = "batch"
    BY <1>10 DEF MarkProcessed, Extracted, TypeOK, Request
  <2>3. Becomes(s, q)
    OBVIOUS
  <2> HIDE DEF q
  <2> QED
    BY <1>10, <2>1, <2>2, <2>3, RequestsType DEF MarkProcessed, TypeOK
<1>11. ASSUME NEW s \in Syncs, LogSync(s) PROVE TypeOK'
  <2> DEFINE q == [sync[s] EXCEPT !.step = "stamp"]
  <2>1. q \in Request
    BY LocalsType DEF TypeOK
  <2>2. q.step = "stamp"
    BY DEF TypeOK, Request
  <2>3. Becomes(s, q)
    BY <1>11 DEF LogSync
  <2> HIDE DEF q
  <2>4. [read |-> Cardinality(sync[s].read), created |-> sync[s].created]
          \in [read : Nat, created : Nat]
    <3>1. IsFiniteSet(sync[s].read) /\ sync[s].created \in Nat
      BY SyncAssumption, FS_Subset DEF TypeOK, Request
    <3> QED
      BY <3>1, FS_CardinalityType
  <2>5. log' \in Seq([read : Nat, created : Nat])
    BY <1>11, <2>4 DEF LogSync, TypeOK
  <2> QED
    BY <1>11, <2>1, <2>2, <2>3, <2>5, RequestsType DEF LogSync, TypeOK
<1>12. ASSUME NEW s \in Syncs, UpdateLastSynced(s) PROVE TypeOK'
  <2>1. Len(log) \in Nat /\ Idle.step = "idle"
    BY DEF TypeOK, Idle
  <2> QED
    BY <1>12, <2>1, IdleType, RequestsType DEF UpdateLastSynced, TypeOK
<1>13. ASSUME NEW s \in Syncs, Abort(s) PROVE TypeOK'
  <2>1. sync[s].unmarked \subseteq Msgs /\ Idle.step = "idle"
    BY DEF TypeOK, Request, Idle
  <2> QED
    BY <1>13, <2>1, IdleType, RequestsType DEF Abort, TypeOK
<1>14. CASE UNCHANGED vars
  BY <1>14 DEF vars, TypeOK
<1> QED
  BY <1>1, <1>2, <1>3, <1>4, <1>5, <1>6, <1>7, <1>8, <1>9, <1>10, <1>11, <1>12,
     <1>13, <1>14 DEF Next, SyncStep

LEMMA InitType == Init => TypeOK
<1>1. 0 \in 0..MaxSyncs
  BY SyncAssumption
<1> QED
  BY <1>1, IdleType DEF Init, TypeOK, Buffered, Idle

\* Every variable keeps its kind, whatever syncs, events and failures overlap.
THEOREM TypeCorrect == Spec => []TypeOK
  BY InitType, TypeStep, PTL DEF Spec

-----------------------------------------------------------------------------
(* What a sync has read, sent and been told is in the buffer and was asked.  *)

LocalsOK(q, seen, stored) ==
  /\ q.read \subseteq stored /\ q.unsent \subseteq q.read /\ q.unmarked \subseteq q.read
  /\ q.read \subseteq seen \cup q.unsent
  /\ \A t \in q.found \cup q.told : t.ref \in seen
  /\ q.step = "insert" => q.row.find.ref \in seen

\* The inductive invariant behind the refinement.
SyncInv ==
  /\ TypeOK
  /\ asked \subseteq Buffered /\ Processed \subseteq asked
  /\ \A s \in Syncs : LocalsOK(sync[s], asked, Buffered) /\ (s > started => sync[s] = Idle)

LEMMA LocalsGrow ==
  ASSUME NEW q, NEW seen, NEW stored, LocalsOK(q, seen, stored),
         NEW seen2, NEW stored2, seen \subseteq seen2, stored \subseteq stored2
  PROVE  LocalsOK(q, seen2, stored2)
  BY DEF LocalsOK

LEMMA IdleOK == \A seen, stored : LocalsOK(Idle, seen, stored)
  BY DEF LocalsOK, Idle

\* One request takes a step; the others' locals stay right as the tables grow.
LEMMA SyncInvAfter ==
  ASSUME SyncInv, TypeOK', NEW s \in Syncs, NEW q, Becomes(s, q),
         LocalsOK(q, asked', Buffered'),
         started <= started', q = Idle \/ s <= started',
         asked \subseteq asked', Buffered \subseteq Buffered',
         asked' \subseteq Buffered', Processed' \subseteq asked'
  PROVE  SyncInv'
<1>1. ASSUME NEW a \in Syncs
      PROVE  LocalsOK(sync'[a], asked', Buffered') /\ (a > started' => sync'[a] = Idle)
  <2>1. LocalsOK(sync[a], asked', Buffered')
    BY LocalsGrow DEF SyncInv
  <2>2. sync'[a] = IF a = s THEN q ELSE sync[a]
    BY DEF Becomes, SyncInv, TypeOK
  <2>3. started \in Nat /\ started' \in Nat /\ a \in Nat /\ s \in Nat
    BY DEF SyncInv, TypeOK, Syncs
  <2>4. a > started' => sync'[a] = Idle
    BY <2>2, <2>3 DEF SyncInv
  <2> QED
    BY <2>1, <2>2, <2>4
<1> QED
  BY <1>1 DEF SyncInv, LocalsOK

\* A sync under way was started.
LEMMA Underway ==
  ASSUME SyncInv, NEW s \in Syncs, sync[s].step # "idle"
  PROVE  s <= started
<1>1. sync[s] # Idle /\ s \in Nat /\ started \in Nat
  BY DEF Idle, SyncInv, TypeOK, Syncs
<1> QED
  BY <1>1 DEF SyncInv

LEMMA SyncInvStep == SyncInv /\ [Next]_vars => SyncInv'
<1> SUFFICES ASSUME SyncInv, [Next]_vars PROVE SyncInv'
  OBVIOUS
<1> USE DEF events, Buffered
<1>0. TypeOK /\ TypeOK' /\ started <= started
  BY TypeStep DEF SyncInv, TypeOK
<1>1. ASSUME UNCHANGED <<sync, buffer, asked, started>> PROVE SyncInv'
  BY <1>0, <1>1 DEF SyncInv, Processed, LocalsOK
<1>2. ASSUME NEW h \in Handlers, Store(h) PROVE SyncInv'
  <2>1. /\ Buffered \subseteq Buffered' /\ Processed' \subseteq Processed
        /\ UNCHANGED <<sync, asked, started>>
    BY <1>2 DEF Store, Processed
  <2> HIDE DEF Buffered
  <2>2. \A s \in Syncs : LocalsOK(sync[s], asked, Buffered')
    BY <2>1, LocalsGrow DEF SyncInv
  <2> QED
    BY <1>0, <2>1, <2>2 DEF SyncInv, LocalsOK
<1>3. ASSUME NEW s \in Syncs, SyncStart(s) PROVE SyncInv'
  <2> DEFINE msgs == Buffered \ Processed
             q == [Idle EXCEPT !.step = "batch", !.read = msgs,
                               !.unsent = msgs, !.unmarked = msgs]
  <2>1. Becomes(s, q) /\ UNCHANGED <<buffer, asked>>
    BY <1>3 DEF SyncStart
  <2>2. LocalsOK(q, asked, Buffered)
    BY DEF LocalsOK, Idle
  <2>3. started <= started' /\ s <= started'
    BY <1>0, <1>3 DEF SyncStart, TypeOK, Syncs
  <2> HIDE DEF q
  <2> QED
    BY <1>0, <2>1, <2>2, <2>3, SyncInvAfter DEF SyncInv, Processed
<1>4. ASSUME NEW s \in Syncs, Extract(s) PROVE SyncInv'
  <2> PICK batch \in Batches(sync[s].unsent) :
        /\ asked' = asked \cup batch
        /\ \E answer \in Answers(batch) :
             Becomes(s, [sync[s] EXCEPT !.unsent = sync[s].unsent \ batch, !.found = answer,
                                        !.told = sync[s].told \cup answer])
    BY <1>4 DEF Extract
  <2> PICK answer \in Answers(batch) :
        Becomes(s, [sync[s] EXCEPT !.unsent = sync[s].unsent \ batch, !.found = answer,
                                   !.told = sync[s].told \cup answer])
    OBVIOUS
  <2> DEFINE q == [sync[s] EXCEPT !.unsent = sync[s].unsent \ batch, !.found = answer,
                                  !.told = sync[s].told \cup answer]
  <2>1. sync[s] \in Request /\ LocalsOK(sync[s], asked, Buffered) /\ sync[s].step = "batch"
    BY <1>4 DEF SyncInv, TypeOK, Extract
  <2>2. batch \subseteq sync[s].unsent /\ batch \in SUBSET Msgs
    BY <2>1 DEF Batches, Request
  <2>3. \A t \in answer : t.ref \in batch
    BY <2>2, AnswersType
  <2>4. /\ q.step = "batch" /\ q.read = sync[s].read /\ q.unmarked = sync[s].unmarked
        /\ q.unsent = sync[s].unsent \ batch /\ q.found = answer
        /\ q.told = sync[s].told \cup answer
    BY <2>1 DEF Request
  <2>5. Becomes(s, q) /\ asked' = asked \cup batch /\ buffer' = buffer
    BY <1>4 DEF Extract
  <2> HIDE DEF q
  <2>6. LocalsOK(q, asked', Buffered')
    BY <2>1, <2>2, <2>3, <2>4, <2>5 DEF LocalsOK
  <2>7. asked' \subseteq Buffered'
    BY <2>1, <2>2, <2>5 DEF LocalsOK, SyncInv
  <2>8. s <= started /\ started' = started
    BY <1>4, Underway DEF Extract
  <2> QED
    BY <1>0, <2>5, <2>6, <2>7, <2>8, SyncInvAfter DEF SyncInv, Processed
<1>5. ASSUME NEW s \in Syncs, Lookup(s) PROVE SyncInv'
  <2> DEFINE category(t) == IF Named[t.item] \in categories THEN Named[t.item] ELSE NULL
             row(t) == [find |-> t, category |-> category(t)]
             q(t) == [sync[s] EXCEPT !.step = "insert", !.row = row(t),
                                     !.found = sync[s].found \ {t}]
  <2> PICK t \in sync[s].found : Becomes(s, q(t))
    BY <1>5 DEF Lookup
  <2>1. sync[s] \in Request /\ LocalsOK(sync[s], asked, Buffered)
    BY DEF SyncInv, TypeOK
  <2>2. row(t).find = t
    OBVIOUS
  <2> HIDE DEF row
  <2>3. /\ q(t).step = "insert" /\ q(t).read = sync[s].read
        /\ q(t).unmarked = sync[s].unmarked /\ q(t).unsent = sync[s].unsent
        /\ q(t).found \subseteq sync[s].found /\ q(t).told = sync[s].told
        /\ q(t).row = row(t)
    BY <2>1 DEF Request
  <2> HIDE DEF q
  <2>4. LocalsOK(q(t), asked, Buffered)
    BY <2>1, <2>2, <2>3 DEF LocalsOK
  <2>5. UNCHANGED <<buffer, asked, started>> /\ s <= started
    BY <1>5, Underway DEF Lookup
  <2> QED
    BY <1>0, <2>4, <2>5, SyncInvAfter DEF SyncInv, Processed
<1>6. ASSUME NEW s \in Syncs, InsertTask(s) PROVE SyncInv'
  <2> DEFINE n == IF sync[s].row.category \in categories \cup {NULL} THEN 1 ELSE 0
             q == [sync[s] EXCEPT !.step = "batch", !.row = NULL,
                                  !.created = sync[s].created + n]
  <2>1. sync[s] \in Request /\ LocalsOK(sync[s], asked, Buffered)
    BY DEF SyncInv, TypeOK
  <2>2. Becomes(s, q) /\ UNCHANGED <<buffer, asked, started>> /\ s <= started
    BY <1>6, Underway DEF InsertTask
  <2> HIDE DEF n
  <2>3. LocalsOK(q, asked, Buffered)
    BY <2>1 DEF Request, LocalsOK
  <2> HIDE DEF q
  <2> QED
    BY <1>0, <2>2, <2>3, SyncInvAfter DEF SyncInv, Processed
<1>7. ASSUME NEW s \in Syncs, MarkProcessed(s) PROVE SyncInv'
  <2> PICK m \in sync[s].unmarked :
        /\ buffer' = [buffer EXCEPT ![m] = TRUE]
        /\ Becomes(s, [sync[s] EXCEPT !.unmarked = sync[s].unmarked \ {m}])
    BY <1>7 DEF MarkProcessed
  <2> DEFINE q == [sync[s] EXCEPT !.unmarked = sync[s].unmarked \ {m}]
  <2>1. /\ sync[s] \in Request /\ LocalsOK(sync[s], asked, Buffered)
        /\ sync[s].unsent = {} /\ asked' = asked
    BY <1>7 DEF SyncInv, TypeOK, MarkProcessed, Extracted
  <2>2. m \in asked
    BY <2>1 DEF LocalsOK
  <2>3. Buffered' = Buffered /\ Processed' \subseteq Processed \cup {m}
    BY DEF Processed
  <2>4. LocalsOK(q, asked, Buffered)
    BY <2>1 DEF Request, LocalsOK
  <2>5. Becomes(s, q) /\ started' = started /\ s <= started
    BY <1>7, <2>1, Underway DEF MarkProcessed, Extracted
  <2> HIDE DEF q, Buffered
  <2> QED
    BY <1>0, <2>1, <2>2, <2>3, <2>4, <2>5, SyncInvAfter DEF SyncInv
<1>8. ASSUME NEW s \in Syncs, LogSync(s) PROVE SyncInv'
  <2> DEFINE q == [sync[s] EXCEPT !.step = "stamp"]
  <2>1. sync[s] \in Request /\ LocalsOK(sync[s], asked, Buffered)
    BY DEF SyncInv, TypeOK
  <2>2. LocalsOK(q, asked, Buffered)
    BY <2>1 DEF Request, LocalsOK
  <2>3. Becomes(s, q) /\ UNCHANGED <<buffer, asked, started>> /\ s <= started
    BY <1>8, Underway DEF LogSync, Extracted
  <2> HIDE DEF q
  <2> QED
    BY <1>0, <2>2, <2>3, SyncInvAfter DEF SyncInv, Processed
<1>9. ASSUME NEW s \in Syncs, UpdateLastSynced(s) \/ Abort(s) PROVE SyncInv'
  BY <1>0, <1>9, IdleOK, SyncInvAfter DEF UpdateLastSynced, Abort, SyncInv, Processed
<1>10. CASE \/ UNCHANGED vars
            \/ \E h \in Handlers : Drop(h) \/ \E m \in Msgs : Receive(h, m)
            \/ \E j \in Jids : AddContact(j) \/ RemoveContact(j)
            \/ \E c \in Categories : RemoveCategory(c)
  BY <1>1, <1>10 DEF vars, Drop, Receive, AddContact, RemoveContact, RemoveCategory
<1> QED
  BY <1>2, <1>3, <1>4, <1>5, <1>6, <1>7, <1>8, <1>9, <1>10 DEF Next, SyncStep

\* What a sync holds in its locals stays true of the buffer until it is over.
THEOREM SyncInvariant == Spec => []SyncInv
<1>1. Init => SyncInv
  <2> SUFFICES ASSUME Init PROVE SyncInv
    OBVIOUS
  <2>1. TypeOK
    BY InitType
  <2> QED
    BY <2>1, IdleOK DEF Init, SyncInv, Buffered, Processed
<1> QED
  BY <1>1, SyncInvStep, PTL DEF Spec

-----------------------------------------------------------------------------
(* The whitelist. An event waits between the COUNT and the INSERT, so what   *)
(* holds of the buffer must hold of the events on their way to it.           *)

WhitelistInv ==
  /\ TypeOK /\ WhitelistHeld
  /\ contacts \subseteq known
  /\ \A h \in Handlers : handling[h] # NULL =>
       handling[h] \notin Ignored /\ Sender[handling[h]] \in known

LEMMA WhitelistStep == WhitelistInv /\ [Next]_vars => WhitelistInv'
<1> SUFFICES ASSUME WhitelistInv, [Next]_vars PROVE WhitelistInv'
  OBVIOUS
<1>0. TypeOK /\ TypeOK'
  BY TypeStep DEF WhitelistInv
<1>1. ASSUME NEW h \in Handlers, NEW m \in Msgs, Receive(h, m) PROVE WhitelistInv'
  BY <1>0, <1>1 DEF Receive, WhitelistInv, WhitelistHeld, Buffered, TypeOK
<1>2. ASSUME NEW h \in Handlers, Store(h) PROVE WhitelistInv'
  <2>1. Buffered' = Buffered \cup {handling[h]} /\ handling[h] # NULL
    BY <1>2 DEF Store, Buffered
  <2>2. WhitelistHeld'
    BY <1>2, <2>1 DEF Store, WhitelistInv, WhitelistHeld
  <2> QED
    BY <1>0, <1>2, <2>2 DEF Store, WhitelistInv, TypeOK
<1>3. ASSUME NEW h \in Handlers, Drop(h) PROVE WhitelistInv'
  BY <1>0, <1>3 DEF Drop, WhitelistInv, WhitelistHeld, Buffered, TypeOK
<1>4. ASSUME NEW j \in Jids, AddContact(j) \/ RemoveContact(j) PROVE WhitelistInv'
  BY <1>0, <1>4 DEF AddContact, RemoveContact, WhitelistInv, WhitelistHeld, Buffered
<1>5. ASSUME NEW s \in Syncs, MarkProcessed(s) PROVE WhitelistInv'
  <2>1. Buffered' = Buffered
    BY <1>5 DEF MarkProcessed, Buffered
  <2> QED
    BY <1>0, <1>5, <2>1 DEF MarkProcessed, WhitelistInv, WhitelistHeld, events
<1>6. CASE UNCHANGED <<events, buffer>>
  BY <1>0, <1>6 DEF WhitelistInv, WhitelistHeld, Buffered, events
<1> QED
  BY <1>1, <1>2, <1>3, <1>4, <1>5, <1>6
  DEF Next, SyncStep, vars, events, RemoveCategory, SyncStart, Extract, Lookup, InsertTask,
      LogSync, UpdateLastSynced, Abort

\* Whoever is removed from the whitelist while an event waits to be stored, the
\* buffer holds no message of a sender who never was on it.
THEOREM WhitelistAlwaysHeld == Spec => []WhitelistHeld
<1>1. Init => WhitelistInv
  <2> SUFFICES ASSUME Init PROVE WhitelistInv
    OBVIOUS
  <2>1. TypeOK
    BY InitType
  <2> QED
    BY <2>1 DEF Init, WhitelistInv, WhitelistHeld, Buffered
<1>2. WhitelistInv => WhitelistHeld
  BY DEF WhitelistInv
<1> QED
  BY <1>1, <1>2, WhitelistStep, PTL DEF Spec

-----------------------------------------------------------------------------
(* The buffer implements the pipeline.                                      *)

StageNow == [m \in Msgs |-> Stage(m)]
MadeNow == [m \in Msgs |-> {t \in made : t.find.ref = m}]

LEMMA PipelineStep == SyncInv /\ SyncInv' /\ [Next]_vars => [Pipeline!Next]_<<StageNow, MadeNow>>
<1> SUFFICES ASSUME SyncInv, SyncInv', [Next]_vars PROVE [Pipeline!Next]_<<StageNow, MadeNow>>
  OBVIOUS
<1> USE DEF events, Buffered
<1>1. ASSUME UNCHANGED <<buffer, asked>> PROVE StageNow' = StageNow
  BY <1>1 DEF StageNow, Stage
<1>0. ASSUME made' = made PROVE MadeNow' = MadeNow
  BY <1>0 DEF MadeNow
<1>2. ASSUME NEW h \in Handlers, Store(h) PROVE [Pipeline!Next]_<<StageNow, MadeNow>>
  <2> DEFINE m == handling[h]
  <2>1. m \in Msgs
    BY <1>2 DEF Store, SyncInv, TypeOK
  <2>2. CASE m \in Buffered
    <3>1. buffer = [k \in Buffered |-> buffer[k]] /\ Buffered \cup {m} = Buffered
      BY <2>2 DEF SyncInv, TypeOK
    <3>2. buffer' = [k \in Buffered |-> IF k \in Buffered THEN buffer[k] ELSE FALSE]
      BY <1>2, <3>1 DEF Store
    <3>3. buffer' = buffer
      BY <3>1, <3>2
    <3> QED
      BY <1>0, <1>1, <1>2, <3>3 DEF Store
  <2>3. CASE m \notin Buffered
    <3>1. StageNow[m] = "unseen" /\ m \notin asked
      BY <2>1, <2>3 DEF StageNow, Stage, SyncInv
    <3>2. /\ Buffered' = Buffered \cup {m} /\ buffer'[m] = FALSE
          /\ \A k \in Buffered : buffer'[k] = buffer[k]
          /\ asked' = asked /\ made' = made
      BY <1>2, <2>3 DEF Store
    <3>3. StageNow' = [StageNow EXCEPT ![m] = "buffered"]
      BY <2>1, <3>1, <3>2 DEF StageNow, Stage
    <3>4. Pipeline!Buffer(m)
      BY <1>0, <3>1, <3>2, <3>3 DEF Pipeline!Buffer, StageNow, MadeNow
    <3> QED
      BY <2>1, <3>4 DEF Pipeline!Next
  <2> QED
    BY <2>2, <2>3
<1>3. ASSUME NEW s \in Syncs, Extract(s) PROVE [Pipeline!Next]_<<StageNow, MadeNow>>
  <2> PICK batch \in Batches(sync[s].unsent) : asked' = asked \cup batch
    BY <1>3 DEF Extract
  <2>1. batch \subseteq Buffered /\ batch \in SUBSET Msgs
    <3>1. LocalsOK(sync[s], asked, Buffered) /\ Buffered \subseteq Msgs
      BY DEF SyncInv, TypeOK
    <3>2. batch \subseteq sync[s].unsent
      BY DEF Batches
    <3> QED
      BY <3>1, <3>2 DEF LocalsOK
  <2>2. buffer' = buffer /\ made' = made
    BY <1>3 DEF Extract
  <2>3. /\ StageNow' = [m \in Msgs |-> IF m \in batch /\ StageNow[m] = "buffered"
                                         THEN "asked" ELSE StageNow[m]]
        /\ \A m \in batch : StageNow[m] # "unseen"
    BY <2>1, <2>2 DEF StageNow, Stage
  <2>4. Pipeline!Ask(batch)
    BY <1>0, <2>2, <2>3 DEF Pipeline!Ask, StageNow, MadeNow
  <2> QED
    BY <2>1, <2>4 DEF Pipeline!Next
<1>4. ASSUME NEW s \in Syncs, InsertTask(s) PROVE [Pipeline!Next]_<<StageNow, MadeNow>>
  <2> DEFINE ref == sync[s].row.find.ref
             task == [find |-> sync[s].row.find, by |-> s]
  <2>1. /\ ref \in Msgs /\ ref \in asked /\ asked \subseteq Buffered
        /\ task \in Task
    BY <1>4 DEF InsertTask, SyncInv, TypeOK, Row, Found, Task, LocalsOK
  <2>2. StageNow' = StageNow
    BY <1>1, <1>4 DEF InsertTask
  <2>3. StageNow[ref] \in {"asked", "processed"}
    BY <2>1 DEF StageNow, Stage
  <2>4. made' = made \/ made' = made \cup {task}
    BY <1>4 DEF InsertTask
  <2>5. ASSUME made' = made \cup {task} PROVE Pipeline!MakeTask(ref)
    <3> DEFINE of(m, tasks) == {t \in tasks : t.find.ref = m}
    <3>1. task.find.ref = ref
      OBVIOUS
    <3>2. \A m \in Msgs : of(m, made \cup {task}) =
            IF m = ref THEN of(m, made) \cup {task} ELSE of(m, made)
      BY <3>1
    <3>3. MadeNow = [m \in Msgs |-> of(m, made)] /\ MadeNow' = [m \in Msgs |-> of(m, made \cup {task})]
      BY <2>5 DEF MadeNow
    <3> HIDE DEF of, task, ref
    <3>4. MadeNow' = [MadeNow EXCEPT ![ref] = @ \cup {task}]
      BY <2>1, <3>2, <3>3
    <3> QED
      BY <2>1, <2>2, <2>3, <3>4 DEF Pipeline!MakeTask, StageNow, MadeNow
  <2>6. (UNCHANGED <<StageNow, MadeNow>>) \/ Pipeline!MakeTask(ref)
    BY <1>0, <2>2, <2>4, <2>5
  <2>7. Pipeline!MakeTask(ref) => \E m \in Msgs : Pipeline!MakeTask(m)
    BY <2>1 DEF Pipeline!MakeTask
  <2> QED
    BY <2>6, <2>7 DEF Pipeline!Next
<1>5. ASSUME NEW s \in Syncs, MarkProcessed(s) PROVE [Pipeline!Next]_<<StageNow, MadeNow>>
  <2> PICK m \in sync[s].unmarked : buffer' = [buffer EXCEPT ![m] = TRUE]
    BY <1>5 DEF MarkProcessed
  <2>1. m \in asked /\ m \in Buffered /\ m \in Msgs
    BY <1>5 DEF MarkProcessed, Extracted, SyncInv, LocalsOK, TypeOK
  <2>2. asked' = asked /\ made' = made
    BY <1>5 DEF MarkProcessed
  <2>3. CASE buffer[m]
    <3>1. buffer' = buffer
      BY <2>1, <2>3 DEF SyncInv, TypeOK
    <3> QED
      BY <1>0, <1>1, <2>2, <3>1
  <2>4. CASE ~buffer[m]
    <3>1. StageNow[m] = "asked" /\ StageNow' = [StageNow EXCEPT ![m] = "processed"]
      BY <2>1, <2>2, <2>4 DEF StageNow, Stage
    <3>2. Pipeline!Process(m)
      BY <1>0, <2>2, <3>1 DEF Pipeline!Process, StageNow, MadeNow
    <3> QED
      BY <2>1, <3>2 DEF Pipeline!Next
  <2> QED
    BY <2>3, <2>4
<1>6. CASE /\ ~\E h \in Handlers : Store(h)
           /\ ~\E s \in Syncs : Extract(s) \/ InsertTask(s) \/ MarkProcessed(s)
  <2>1. UNCHANGED <<buffer, asked, made>>
    BY <1>6 DEF Next, vars, Receive, Drop, AddContact, RemoveContact, RemoveCategory,
       SyncStart, SyncStep, Lookup, LogSync, UpdateLastSynced, Abort
  <2> QED
    BY <1>0, <1>1, <2>1
<1> QED
  BY <1>2, <1>3, <1>4, <1>5, <1>6

\* Redelivery, overlapping syncs and crashes never move a message back, and none
\* is marked as processed, or given a task, before Claude was asked about it.
THEOREM ImplementsPipeline == Spec => PipelineSpec
<1>1. Init => Pipeline!Init
  BY DEF Init, Pipeline!Init, Stage, Buffered
<1>2. SyncInv /\ SyncInv' /\ [Next]_vars => [Pipeline!Next]_<<StageNow, MadeNow>>
  BY PipelineStep
<1> QED
  BY <1>1, <1>2, SyncInvariant, PTL DEF Spec, PipelineSpec, Pipeline!Spec, StageNow, MadeNow

-----------------------------------------------------------------------------
(* What each statement of a sync does to its locals; the other syncs keep     *)
(* theirs.                                                                    *)

LEMMA BecomesShape ==
  ASSUME TypeOK, NEW s \in Syncs, NEW q, Becomes(s, q)
  PROVE  sync'[s] = q /\ \A a \in Syncs \ {s} : sync'[a] = sync[a]
  BY DEF Becomes, TypeOK

LEMMA StartShape ==
  ASSUME SyncInv, NEW s \in Syncs, SyncStart(s)
  PROVE  /\ sync[s] = Idle /\ sync'[s].step = "batch"
         /\ sync'[s].read = Buffered \ Processed /\ sync'[s].unsent = Buffered \ Processed
         /\ sync'[s].unmarked = Buffered \ Processed
         /\ sync'[s].told = {} /\ sync'[s].found = {}
         /\ \A a \in Syncs \ {s} : sync'[a] = sync[a]
<1> DEFINE msgs == Buffered \ Processed
           q == [Idle EXCEPT !.step = "batch", !.read = msgs,
                             !.unsent = msgs, !.unmarked = msgs]
<1>1. TypeOK /\ Becomes(s, q) /\ sync[s] = Idle
  BY DEF SyncStart, SyncInv, TypeOK
<1>2. /\ q.step = "batch" /\ q.read = msgs /\ q.unsent = msgs /\ q.unmarked = msgs
      /\ q.told = {} /\ q.found = {}
  BY DEF Idle
<1> HIDE DEF q
<1>3. sync'[s] = q /\ \A a \in Syncs \ {s} : sync'[a] = sync[a]
  BY <1>1, BecomesShape
<1> QED
  BY <1>1, <1>2, <1>3

\* Each call of Claude gets at least one of the messages not sent yet.
LEMMA BatchNotEmpty ==
  ASSUME NEW unsent \in SUBSET Msgs, unsent # {}, NEW batch \in Batches(unsent)
  PROVE  batch # {}
<1>1. IsFiniteSet(unsent) /\ BatchSize \in Nat \ {0}
  BY SyncAssumption, FS_Subset
<1>2. Cardinality(unsent) \in Nat /\ Cardinality(unsent) # 0
  BY <1>1, FS_EmptySet, FS_CardinalityType
<1>3. Cardinality(batch) # 0
  BY <1>1, <1>2 DEF Batches
<1> QED
  BY <1>3, FS_EmptySet

LEMMA ExtractShape ==
  ASSUME TypeOK, NEW s \in Syncs, Extract(s)
  PROVE  /\ sync[s].step = "batch" /\ sync[s].found = {} /\ sync[s].unsent # {}
         /\ sync'[s].step = "batch" /\ sync'[s].read = sync[s].read
         /\ sync'[s].unmarked = sync[s].unmarked
         /\ \E batch \in SUBSET sync[s].unsent :
              /\ sync'[s].unsent = sync[s].unsent \ batch /\ batch # {}
              /\ \A t \in sync'[s].found : t.ref \in batch
         /\ sync'[s].told = sync[s].told \cup sync'[s].found
         /\ \A a \in Syncs \ {s} : sync'[a] = sync[a]
<1> PICK batch \in Batches(sync[s].unsent) :
      \E answer \in Answers(batch) :
        Becomes(s, [sync[s] EXCEPT !.unsent = sync[s].unsent \ batch, !.found = answer,
                                   !.told = sync[s].told \cup answer])
  BY DEF Extract
<1> PICK answer \in Answers(batch) :
      Becomes(s, [sync[s] EXCEPT !.unsent = sync[s].unsent \ batch, !.found = answer,
                                 !.told = sync[s].told \cup answer])
  OBVIOUS
<1>1. batch \subseteq sync[s].unsent /\ batch \in SUBSET Msgs /\ batch # {}
  <2>1. sync[s].unsent \in SUBSET Msgs /\ sync[s].unsent # {}
    BY DEF Extract, TypeOK, Request
  <2> QED
    BY <2>1, BatchNotEmpty DEF Batches
<1>2. \A t \in answer : t.ref \in batch
  BY <1>1, AnswersType
<1> DEFINE q == [sync[s] EXCEPT !.unsent = sync[s].unsent \ batch, !.found = answer,
                                !.told = sync[s].told \cup answer]
<1>3. /\ q.step = sync[s].step /\ q.read = sync[s].read /\ q.unmarked = sync[s].unmarked
      /\ q.unsent = sync[s].unsent \ batch /\ q.found = answer
      /\ q.told = sync[s].told \cup answer
  BY DEF TypeOK, Request
<1>4. Becomes(s, q)
  OBVIOUS
<1> HIDE DEF q
<1>5. sync'[s] = q /\ \A a \in Syncs \ {s} : sync'[a] = sync[a]
  BY <1>4, BecomesShape
<1> QED
  BY <1>1, <1>2, <1>3, <1>5 DEF Extract

LEMMA LookupShape ==
  ASSUME TypeOK, NEW s \in Syncs, Lookup(s)
  PROVE  /\ sync[s].step = "batch" /\ sync'[s].step = "insert"
         /\ sync'[s].read = sync[s].read /\ sync'[s].unmarked = sync[s].unmarked
         /\ sync'[s].unsent = sync[s].unsent /\ sync'[s].told = sync[s].told
         /\ \E t \in sync[s].found :
              /\ sync'[s].found = sync[s].found \ {t} /\ sync'[s].row.find = t
              /\ sync'[s].row.category \in {Named[t.item], NULL}
         /\ \A a \in Syncs \ {s} : sync'[a] = sync[a]
<1> DEFINE category(t) == IF Named[t.item] \in categories THEN Named[t.item] ELSE NULL
           row(t) == [find |-> t, category |-> category(t)]
           q(t) == [sync[s] EXCEPT !.step = "insert", !.row = row(t),
                                   !.found = sync[s].found \ {t}]
<1> PICK t \in sync[s].found : Becomes(s, q(t))
  BY DEF Lookup
<1>1. sync[s] \in Request
  BY DEF TypeOK
<1>2. row(t).find = t /\ row(t).category \in {Named[t.item], NULL}
  OBVIOUS
<1> HIDE DEF row
<1>3. /\ q(t).step = "insert" /\ q(t).read = sync[s].read
      /\ q(t).unmarked = sync[s].unmarked /\ q(t).unsent = sync[s].unsent
      /\ q(t).found = sync[s].found \ {t} /\ q(t).told = sync[s].told
      /\ q(t).row = row(t)
  BY <1>1 DEF Request
<1> HIDE DEF q
<1>4. sync'[s] = q(t) /\ \A a \in Syncs \ {s} : sync'[a] = sync[a]
  BY BecomesShape
<1> QED
  BY <1>2, <1>3, <1>4 DEF Lookup

LEMMA InsertShape ==
  ASSUME TypeOK, NEW s \in Syncs, InsertTask(s)
  PROVE  /\ sync[s].step = "insert" /\ sync'[s].step = "batch"
         /\ sync'[s].read = sync[s].read /\ sync'[s].unmarked = sync[s].unmarked
         /\ sync'[s].unsent = sync[s].unsent /\ sync'[s].told = sync[s].told
         /\ sync'[s].found = sync[s].found
         /\ sync[s].row \in Row
         /\ made' = IF sync[s].row.category \in categories \cup {NULL}
                     THEN made \cup {[find |-> sync[s].row.find, by |-> s]} ELSE made
         /\ \A a \in Syncs \ {s} : sync'[a] = sync[a]
<1> DEFINE n == IF sync[s].row.category \in categories \cup {NULL} THEN 1 ELSE 0
           q == [sync[s] EXCEPT !.step = "batch", !.row = NULL,
                                !.created = sync[s].created + n]
<1>1. sync[s] \in Request /\ sync[s].row \in Row
  BY DEF InsertTask, TypeOK
<1>2. Becomes(s, q)
  BY DEF InsertTask
<1>3. made' = IF sync[s].row.category \in categories \cup {NULL}
              THEN made \cup {[find |-> sync[s].row.find, by |-> s]} ELSE made
  BY DEF InsertTask
<1> HIDE DEF n
<1>4. /\ q.step = "batch" /\ q.read = sync[s].read /\ q.unmarked = sync[s].unmarked
      /\ q.unsent = sync[s].unsent /\ q.told = sync[s].told /\ q.found = sync[s].found
  BY <1>1 DEF Request
<1> HIDE DEF q
<1>5. sync'[s] = q /\ \A a \in Syncs \ {s} : sync'[a] = sync[a]
  BY <1>2, BecomesShape
<1> QED
  BY <1>1, <1>3, <1>4, <1>5 DEF InsertTask

LEMMA MarkShape ==
  ASSUME TypeOK, NEW s \in Syncs, MarkProcessed(s)
  PROVE  /\ Extracted(s) /\ sync'[s].step = "batch"
         /\ sync'[s].unsent = {} /\ sync'[s].found = {}
         /\ sync'[s].read = sync[s].read /\ sync'[s].told = sync[s].told
         /\ \E m \in sync[s].unmarked :
              /\ sync'[s].unmarked = sync[s].unmarked \ {m}
              /\ m \in Buffered => Processed' = Processed \cup {m}
         /\ Buffered' = Buffered
         /\ \A a \in Syncs \ {s} : sync'[a] = sync[a]
<1> PICK m \in sync[s].unmarked :
      /\ buffer' = [buffer EXCEPT ![m] = TRUE]
      /\ Becomes(s, [sync[s] EXCEPT !.unmarked = sync[s].unmarked \ {m}])
  BY DEF MarkProcessed
<1> DEFINE q == [sync[s] EXCEPT !.unmarked = sync[s].unmarked \ {m}]
<1>1. Extracted(s) /\ sync[s] \in Request
  BY DEF MarkProcessed, TypeOK
<1>2. /\ q.step = "batch" /\ q.read = sync[s].read /\ q.told = sync[s].told
      /\ q.unsent = {} /\ q.found = {} /\ q.unmarked = sync[s].unmarked \ {m}
  BY <1>1 DEF Request, Extracted
<1>3. Becomes(s, q)
  OBVIOUS
<1> HIDE DEF q
<1>4. sync'[s] = q /\ \A a \in Syncs \ {s} : sync'[a] = sync[a]
  BY <1>3, BecomesShape
<1>5. Buffered' = Buffered
  BY DEF Buffered
<1>6. ASSUME m \in Buffered PROVE Processed' = Processed \cup {m}
  BY <1>5, <1>6 DEF Processed, Buffered
<1> QED
  BY <1>1, <1>2, <1>4, <1>5, <1>6

LEMMA LogShape ==
  ASSUME TypeOK, NEW s \in Syncs, LogSync(s)
  PROVE  /\ Extracted(s) /\ sync'[s].step = "stamp"
         /\ sync[s].unmarked = {} /\ sync'[s].unmarked = {}
         /\ sync'[s].unsent = {} /\ sync'[s].found = {}
         /\ sync'[s].read = sync[s].read /\ sync'[s].told = sync[s].told
         /\ \A a \in Syncs \ {s} : sync'[a] = sync[a]
<1> DEFINE q == [sync[s] EXCEPT !.step = "stamp"]
<1>1. Extracted(s) /\ sync[s] \in Request /\ sync[s].unmarked = {}
  BY DEF LogSync, TypeOK
<1>2. /\ q.step = "stamp" /\ q.read = sync[s].read /\ q.told = sync[s].told
      /\ q.unsent = {} /\ q.found = {} /\ q.unmarked = {}
  BY <1>1 DEF Request, Extracted
<1>3. Becomes(s, q)
  BY DEF LogSync
<1> HIDE DEF q
<1>4. sync'[s] = q /\ \A a \in Syncs \ {s} : sync'[a] = sync[a]
  BY <1>3, BecomesShape
<1> QED
  BY <1>1, <1>2, <1>4

LEMMA ResetShape ==
  ASSUME TypeOK, NEW s \in Syncs, UpdateLastSynced(s) \/ Abort(s)
  PROVE  /\ sync'[s] = Idle
         /\ \A a \in Syncs \ {s} : sync'[a] = sync[a]
  BY BecomesShape DEF UpdateLastSynced, Abort

-----------------------------------------------------------------------------
(* One sync for one message. A sync still has a message in hand while it is   *)
(* to be sent, or a find in it is to be stored; what it has in hand it has    *)
(* not marked, and nothing is marked before nothing is in hand.               *)

InHand(q, m) ==
  \/ m \in q.unsent
  \/ \E t \in q.found : t.ref = m
  \/ q.step = "insert" /\ q.row.find.ref = m

MarksLast(q) ==
  /\ q.step = "idle" => q = Idle
  /\ q.unsent # {} \/ q.found # {} \/ q.step = "insert" => q.unmarked = q.read
  /\ q.step = "stamp" => q.unmarked = {} /\ q.unsent = {} /\ q.found = {}

Orderly(q) == MarksLast(q) /\ \A m \in Msgs : InHand(q, m) => m \in q.unmarked

OrderInv == \A s \in Syncs : Orderly(sync[s])

LEMMA IdleOrderly == Orderly(Idle) /\ \A m : ~InHand(Idle, m) /\ m \notin Idle.unmarked
  BY DEF Orderly, MarksLast, InHand, Idle

LEMMA OrderStep ==
  ASSUME SyncInv, OrderInv, [Next]_vars
  PROVE  OrderInv'
<1> USE DEF SyncInv
<1>1. ASSUME UNCHANGED sync PROVE OrderInv'
  BY <1>1 DEF OrderInv, Orderly, MarksLast, InHand
<1>2. ASSUME NEW s \in Syncs, Orderly(sync'[s]), \A a \in Syncs \ {s} : sync'[a] = sync[a]
      PROVE  OrderInv'
  <2>1. ASSUME NEW a \in Syncs PROVE Orderly(sync'[a])
    BY <1>2 DEF OrderInv
  <2> QED
    BY <2>1 DEF OrderInv, Orderly, MarksLast, InHand
<1>3. ASSUME NEW s \in Syncs, SyncStart(s) PROVE OrderInv'
  <2>1. Orderly(sync'[s])
    BY <1>3, StartShape DEF Orderly, MarksLast, InHand
  <2> QED
    BY <1>2, <1>3, <2>1, StartShape
<1>4. ASSUME NEW s \in Syncs, Extract(s) PROVE OrderInv'
  <2>1. Orderly(sync[s]) /\ sync[s].unmarked \subseteq sync[s].read /\ sync[s] \in Request
    BY DEF OrderInv, LocalsOK, TypeOK
  <2>2. sync'[s].unmarked = sync[s].read /\ sync'[s].read = sync[s].read
    BY <1>4, <2>1, ExtractShape DEF Orderly, MarksLast
  <2>4. MarksLast(sync'[s])
    BY <1>4, <2>2, ExtractShape DEF MarksLast
  <2>5. ASSUME NEW m \in Msgs, InHand(sync'[s], m) PROVE InHand(sync[s], m)
    BY <1>4, <2>5, ExtractShape DEF InHand
  <2>6. Orderly(sync'[s])
    BY <1>4, <2>1, <2>4, <2>5, ExtractShape DEF Orderly
  <2> QED
    BY <1>2, <1>4, <2>6, ExtractShape
<1>5. ASSUME NEW s \in Syncs, Lookup(s) PROVE OrderInv'
  <2>1. Orderly(sync[s])
    BY DEF OrderInv
  <2>2. PICK t \in sync[s].found :
          sync'[s].found = sync[s].found \ {t} /\ sync'[s].row.find = t
    BY <1>5, LookupShape
  <2>4. MarksLast(sync'[s])
    BY <1>5, <2>1, <2>2, LookupShape DEF Orderly, MarksLast
  <2>5. ASSUME NEW m \in Msgs, InHand(sync'[s], m) PROVE InHand(sync[s], m)
    BY <1>5, <2>2, <2>5, LookupShape DEF InHand
  <2>6. Orderly(sync'[s])
    BY <1>5, <2>1, <2>4, <2>5, LookupShape DEF Orderly
  <2> QED
    BY <1>2, <1>5, <2>6, LookupShape
<1>6. ASSUME NEW s \in Syncs, InsertTask(s) PROVE OrderInv'
  <2>1. Orderly(sync[s])
    BY DEF OrderInv
  <2>2. Orderly(sync'[s])
    BY <1>6, <2>1, InsertShape DEF Orderly, MarksLast, InHand
  <2> QED
    BY <1>2, <1>6, <2>2, InsertShape
<1>7. ASSUME NEW s \in Syncs, MarkProcessed(s) PROVE OrderInv'
  <2>1. Orderly(sync'[s])
    BY <1>7, MarkShape DEF Orderly, MarksLast, InHand
  <2> QED
    BY <1>2, <1>7, <2>1, MarkShape
<1>8. ASSUME NEW s \in Syncs, LogSync(s) PROVE OrderInv'
  <2>1. Orderly(sync'[s])
    BY <1>8, LogShape DEF Orderly, MarksLast, InHand
  <2> QED
    BY <1>2, <1>8, <2>1, LogShape
<1>9. ASSUME NEW s \in Syncs, UpdateLastSynced(s) \/ Abort(s) PROVE OrderInv'
  BY <1>2, <1>9, ResetShape, IdleOrderly
<1>10. CASE ~\E s \in Syncs : SyncStart(s) \/ SyncStep(s) \/ Abort(s)
  BY <1>1, <1>10 DEF Next, vars, Store, Receive, Drop, AddContact, RemoveContact, RemoveCategory
<1> QED
  BY <1>3, <1>4, <1>5, <1>6, <1>7, <1>8, <1>9, <1>10 DEF SyncStep

\* A message one sync only ever had: its tasks come from one sync, which still has
\* to mark it, or has marked it; and then no sync has it any more.
OneSync(m) ==
  /\ \A s, a \in Syncs : m \in sync[s].unmarked /\ m \in sync[a].unmarked => s = a
  /\ m \in Processed => \A s \in Syncs : m \notin sync[s].unmarked
  /\ \A t \in made : t.find.ref = m => m \in Processed \/ m \in sync[t.by].unmarked
  /\ \A t, u \in made : t.find.ref = m /\ u.find.ref = m => t.by = u.by

OneSyncInv == \A m \in Msgs \ exposed : OneSync(m)

\* It stays so when no sync is handed the message, none gives it up unmarked, and
\* it gets no task.
LEMMA OneSyncKept ==
  ASSUME TypeOK, NEW m \in Msgs, OneSync(m),
         \A t \in made' : t.find.ref = m => t \in made,
         m \in Processed => m \in Processed',
         \A s \in Syncs :
           /\ m \in sync'[s].unmarked => m \in sync[s].unmarked /\ m \notin Processed' \ Processed
           /\ m \in sync[s].unmarked => m \in sync'[s].unmarked \/ m \in Processed'
  PROVE  OneSync(m)'
<1>1. \A t \in made : t.by \in Syncs
  BY DEF TypeOK, Task
<1>2. ASSUME NEW t \in made', t.find.ref = m
      PROVE  m \in Processed' \/ m \in sync'[t.by].unmarked
  BY <1>1, <1>2 DEF OneSync
<1>3. \A s, a \in Syncs : m \in sync'[s].unmarked /\ m \in sync'[a].unmarked => s = a
  BY DEF OneSync
<1>4. m \in Processed' => \A s \in Syncs : m \notin sync'[s].unmarked
  BY DEF OneSync
<1>5. \A t, u \in made' : t.find.ref = m /\ u.find.ref = m => t.by = u.by
  BY DEF OneSync
<1> QED
  BY <1>2, <1>3, <1>4, <1>5 DEF OneSync

LEMMA OneSyncStep ==
  ASSUME SyncInv, OrderInv, OneSyncInv, [Next]_vars
  PROVE  OneSyncInv'
<1> SUFFICES ASSUME NEW m \in Msgs, m \notin exposed' PROVE OneSync(m)'
  BY DEF OneSyncInv
<1> USE DEF SyncInv
<1>1. exposed \subseteq exposed' /\ OneSync(m)
  BY DEF OneSyncInv, Next, vars, Store, Drop, Receive, AddContact, RemoveContact,
     RemoveCategory, SyncStart, SyncStep, Extract, Lookup, InsertTask, MarkProcessed,
     LogSync, UpdateLastSynced, Abort
<1>2. ASSUME UNCHANGED <<made, Processed>>,
             \A s \in Syncs : m \in sync'[s].unmarked <=> m \in sync[s].unmarked
      PROVE  OneSync(m)'
  BY <1>1, <1>2, OneSyncKept
<1>3. ASSUME NEW h \in Handlers, Store(h) PROVE OneSync(m)'
  <2>1. Processed' = Processed
    BY <1>3 DEF Store, Processed, Buffered
  <2> QED
    BY <1>2, <1>3, <2>1 DEF Store
<1>4. ASSUME NEW s \in Syncs, SyncStart(s) PROVE OneSync(m)'
  <2>1. made' = made /\ Processed' = Processed
    BY <1>4 DEF SyncStart, Processed, Buffered
  <2>2. m \notin sync[s].unmarked
    BY <1>4, StartShape, IdleOrderly
  <2>3. CASE m \notin Buffered \ Processed
    BY <1>2, <1>4, <2>1, <2>2, <2>3, StartShape
  <2>4. CASE m \in Buffered \ Processed
    <3>1. ASSUME NEW a \in Syncs PROVE m \notin sync[a].unmarked
      <4>1. CASE a \in Active
        BY <1>4, <2>4, <4>1 DEF SyncStart
      <4>2. CASE a \notin Active
        BY <4>2, IdleOrderly DEF Active, OrderInv, Orderly, MarksLast
      <4> QED
        BY <4>1, <4>2
    <3>2. \A t \in made : t.find.ref # m
      BY <1>1, <2>4, <3>1 DEF OneSync, TypeOK, Task
    <3>3. \A a \in Syncs : m \in sync'[a].unmarked => a = s
      BY <1>4, <3>1, StartShape
    <3> QED
      BY <2>1, <2>4, <3>2, <3>3 DEF OneSync
  <2> QED
    BY <2>3, <2>4
<1>5. ASSUME NEW s \in Syncs, Extract(s) PROVE OneSync(m)'
  <2>1. UNCHANGED <<made, Processed>>
    BY <1>5 DEF Extract, Processed, Buffered
  <2> QED
    BY <1>2, <1>5, <2>1, ExtractShape
<1>6. ASSUME NEW s \in Syncs, Lookup(s) PROVE OneSync(m)'
  <2>1. UNCHANGED <<made, Processed>>
    BY <1>6 DEF Lookup, Processed, Buffered
  <2> QED
    BY <1>2, <1>6, <2>1, LookupShape
<1>7. ASSUME NEW s \in Syncs, InsertTask(s) PROVE OneSync(m)'
  <2> DEFINE ref == sync[s].row.find.ref
             task == [find |-> sync[s].row.find, by |-> s]
  <2>1. Processed' = Processed
    BY <1>7 DEF InsertTask, Processed, Buffered
  <2>2. \A a \in Syncs : sync'[a].unmarked = sync[a].unmarked
    BY <1>7, InsertShape
  <2>3. made' = made \/ made' = made \cup {task}
    BY <1>7, InsertShape
  <2>4. CASE \A t \in made' : t.find.ref = m => t \in made
    BY <1>1, <2>1, <2>2, <2>4, OneSyncKept
  <2>5. CASE made' = made \cup {task} /\ ref = m
    <3>1. m \in sync[s].unmarked
      BY <1>7, <2>5, InsertShape DEF InHand, OrderInv, Orderly
    <3>2. ASSUME NEW t \in made, t.find.ref = m PROVE t.by = s
      <4>1. m \in sync[t.by].unmarked /\ t.by \in Syncs
        BY <1>1, <3>1, <3>2 DEF OneSync, TypeOK, Task
      <4> QED
        BY <1>1, <3>1, <4>1 DEF OneSync
    <3>3. \A t \in made' : t.find.ref = m => t.by = s
      BY <2>5, <3>2
    <3>4. \A t \in made' : t.find.ref = m => m \in sync'[t.by].unmarked
      BY <2>2, <3>1, <3>3
    <3> QED
      BY <1>1, <2>1, <2>2, <3>3, <3>4 DEF OneSync
  <2> QED
    BY <2>3, <2>4, <2>5
<1>8. ASSUME NEW s \in Syncs, MarkProcessed(s) PROVE OneSync(m)'
  <2>1. PICK n \in sync[s].unmarked :
          sync'[s].unmarked = sync[s].unmarked \ {n} /\ Processed' = Processed \cup {n}
    BY <1>8, MarkShape DEF LocalsOK
  <2>2. made' = made
    BY <1>8 DEF MarkProcessed
  <2>3. \A a \in Syncs \ {s} : sync'[a] = sync[a]
    BY <1>8, MarkShape
  <2>4. \A a \in Syncs : n = m /\ m \in sync[a].unmarked => a = s
    BY <1>1, <2>1 DEF OneSync
  <2> QED
    BY <1>1, <2>1, <2>2, <2>3, <2>4, OneSyncKept
<1>9. ASSUME NEW s \in Syncs, LogSync(s) PROVE OneSync(m)'
  <2>1. UNCHANGED <<made, Processed>>
    BY <1>9 DEF LogSync, Processed, Buffered
  <2> QED
    BY <1>2, <1>9, <2>1, LogShape
<1>10. ASSUME NEW s \in Syncs, UpdateLastSynced(s) \/ Abort(s) PROVE OneSync(m)'
  <2>1. m \notin sync[s].unmarked
    BY <1>10 DEF UpdateLastSynced, Abort, OrderInv, Orderly, MarksLast
  <2>2. UNCHANGED <<made, Processed>>
    BY <1>10 DEF UpdateLastSynced, Abort, Processed, Buffered
  <2> QED
    BY <1>2, <1>10, <2>1, <2>2, ResetShape, IdleOrderly
<1>11. CASE /\ ~\E h \in Handlers : Store(h)
            /\ ~\E s \in Syncs : SyncStart(s) \/ SyncStep(s) \/ Abort(s)
  <2>1. UNCHANGED <<buffer, made, sync>>
    BY <1>11 DEF Next, vars, Drop, Receive, AddContact, RemoveContact, RemoveCategory
  <2> QED
    BY <1>2, <2>1 DEF Processed, Buffered
<1> QED
  BY <1>3, <1>4, <1>5, <1>6, <1>7, <1>8, <1>9, <1>10, <1>11 DEF SyncStep

\* However many tasks Claude finds in a message, two syncs make tasks of it only when
\* the second read it before the first had marked it, or after it was cut short.
THEOREM DuplicatesAlwaysExplained == Spec => []DuplicatesExplained
<1>1. Init => OrderInv /\ OneSyncInv
  <2> SUFFICES ASSUME Init PROVE OrderInv /\ OneSyncInv
    OBVIOUS
  <2>1. \A s \in Syncs : sync[s] = Idle
    BY DEF Init
  <2>2. made = {}
    BY DEF Init
  <2> QED
    BY <2>1, <2>2, IdleOrderly DEF OrderInv, OneSyncInv, OneSync
<1>2. SyncInv /\ (OrderInv /\ OneSyncInv) /\ [Next]_vars => (OrderInv /\ OneSyncInv)'
  BY OrderStep, OneSyncStep
<1>3. SyncInv /\ OneSyncInv => DuplicatesExplained
  BY DEF SyncInv, TypeOK, Task, Found, OneSyncInv, OneSync, DuplicatesExplained
<1> QED
  BY <1>1, <1>2, <1>3, SyncInvariant, PTL DEF Spec

-----------------------------------------------------------------------------
(* Every find of an answer is still to be looked up, in the row about to be   *)
(* inserted, or dealt with: stored, or lost with its category.                *)

InRow(q, t) == q.step = "insert" /\ q.row.find = t /\ q.row.category \in {Named[t.item], NULL}

DealtWith(s, t) ==
  [find |-> t, by |-> s] \in made \/ Named[t.item] \in Categories \ categories

FindsKept(s, q) == \A t \in q.told : t \in q.found \/ InRow(q, t) \/ DealtWith(s, t)

FindsInv == \A s \in Syncs : FindsKept(s, sync[s])

\* A row is never deleted here, nor a category made.
LEMMA DealtWithForGood ==
  ASSUME TypeOK, [Next]_vars, NEW s \in Syncs, NEW t \in Found, DealtWith(s, t)
  PROVE  DealtWith(s, t)'
<1>1. made \subseteq made' /\ categories' \subseteq categories
  <2>1. ASSUME NEW a \in Syncs, InsertTask(a)
        PROVE  made \subseteq made' /\ categories' = categories
    BY <2>1, InsertShape DEF InsertTask
  <2>2. ASSUME NEW c \in Categories, RemoveCategory(c)
        PROVE  made' = made /\ categories' \subseteq categories
    BY <2>2 DEF RemoveCategory
  <2>3. CASE UNCHANGED <<made, categories>>
    BY <2>3
  <2> QED
    BY <2>1, <2>2, <2>3 DEF Next, vars, Store, Drop, Receive, AddContact, RemoveContact,
       SyncStart, SyncStep, Extract, Lookup, MarkProcessed, LogSync, UpdateLastSynced, Abort
<1> QED
  BY <1>1 DEF DealtWith

LEMMA FindsStep ==
  ASSUME SyncInv, FindsInv, [Next]_vars
  PROVE  FindsInv'
<1> USE DEF SyncInv
<1>1. ASSUME NEW s \in Syncs, NEW t \in sync[s].told
      PROVE  t \in Found /\ (t \in sync[s].found \/ InRow(sync[s], t) \/ DealtWith(s, t)')
  BY DealtWithForGood DEF TypeOK, Request, FindsInv, FindsKept
<1>2. ASSUME NEW s \in Syncs, sync'[s] = sync[s] PROVE FindsKept(s, sync[s])'
  <2>1. \A t : InRow(sync[s], t)' <=> InRow(sync[s], t)
    BY <1>2 DEF InRow
  <2> QED
    BY <1>1, <1>2, <2>1 DEF FindsKept
<1>3. ASSUME NEW s \in Syncs, \A a \in Syncs \ {s} : sync'[a] = sync[a],
             \A t \in sync'[s].told : t \in sync'[s].found \/ InRow(sync'[s], t) \/ DealtWith(s, t)'
      PROVE  FindsInv'
  <2>1. \A t : InRow(sync[s], t)' <=> InRow(sync'[s], t)
    BY DEF InRow
  <2>2. FindsKept(s, sync[s])'
    BY <1>3, <2>1 DEF FindsKept
  <2>3. \A a \in Syncs : FindsKept(a, sync[a])'
    BY <1>2, <1>3, <2>2
  <2> QED
    BY <2>3 DEF FindsInv
<1>4. ASSUME NEW s \in Syncs, SyncStart(s) PROVE FindsInv'
  BY <1>3, <1>4, StartShape
<1>5. ASSUME NEW s \in Syncs, Extract(s) PROVE FindsInv'
  <2>1. \A t \in sync[s].told : DealtWith(s, t)'
    BY <1>1, <1>5, ExtractShape DEF InRow
  <2> QED
    BY <1>3, <1>5, <2>1, ExtractShape
<1>6. ASSUME NEW s \in Syncs, Lookup(s) PROVE FindsInv'
  <2>1. ASSUME NEW t \in sync'[s].told
        PROVE  t \in sync'[s].found \/ InRow(sync'[s], t) \/ DealtWith(s, t)'
    BY <1>1, <1>6, LookupShape DEF InRow
  <2> QED
    BY <1>3, <1>6, <2>1, LookupShape
<1>7. ASSUME NEW s \in Syncs, InsertTask(s) PROVE FindsInv'
  <2>1. ASSUME NEW t \in sync[s].told, InRow(sync[s], t) PROVE DealtWith(s, t)'
    <3>1. t \in Found /\ categories' = categories
      BY <1>1, <1>7 DEF InsertTask
    <3>2. CASE sync[s].row.category \in categories \cup {NULL}
      BY <1>7, <2>1, <3>2, InsertShape DEF InRow, DealtWith
    <3>3. CASE sync[s].row.category \notin categories \cup {NULL}
      <4>1. Named[t.item] \in Categories \ categories
        BY <2>1, <3>1, <3>3, NamedType DEF InRow
      <4> QED
        BY <3>1, <4>1 DEF DealtWith
    <3> QED
      BY <3>2, <3>3
  <2>2. ASSUME NEW t \in sync'[s].told PROVE t \in sync'[s].found \/ DealtWith(s, t)'
    BY <1>1, <1>7, <2>1, InsertShape
  <2> QED
    BY <1>3, <1>7, <2>2, InsertShape
<1>8. ASSUME NEW s \in Syncs, MarkProcessed(s) PROVE FindsInv'
  <2>1. \A t \in sync'[s].told : DealtWith(s, t)'
    BY <1>1, <1>8, MarkShape DEF Extracted, InRow
  <2> QED
    BY <1>3, <1>8, <2>1, MarkShape
<1>9. ASSUME NEW s \in Syncs, LogSync(s) PROVE FindsInv'
  <2>1. \A t \in sync'[s].told : DealtWith(s, t)'
    BY <1>1, <1>9, LogShape DEF Extracted, InRow
  <2> QED
    BY <1>3, <1>9, <2>1, LogShape
<1>10. ASSUME NEW s \in Syncs, UpdateLastSynced(s) \/ Abort(s) PROVE FindsInv'
  BY <1>3, <1>10, ResetShape DEF Idle
<1>11. CASE UNCHANGED sync
  <2>1. \A s \in Syncs : FindsKept(s, sync[s])'
    BY <1>2, <1>11
  <2> QED
    BY <2>1 DEF FindsInv
<1>12. CASE ~\E s \in Syncs : SyncStart(s) \/ SyncStep(s) \/ Abort(s)
  BY <1>11, <1>12 DEF Next, vars, Store, Drop, Receive, AddContact, RemoveContact, RemoveCategory
<1> QED
  BY <1>4, <1>5, <1>6, <1>7, <1>8, <1>9, <1>10, <1>12 DEF SyncStep

\* A sync marks no message before all that Claude found in it is stored, or the
\* category is gone: the marks come after the loop, and the loop drops no find.
THEOREM MarkedAlwaysStored == Spec => []MarkedOnlyWhenStored
<1>1. Init => OrderInv /\ FindsInv
  <2> SUFFICES ASSUME Init PROVE OrderInv /\ FindsInv
    OBVIOUS
  <2>1. \A s \in Syncs : sync[s] = Idle
    BY DEF Init
  <2>2. FindsInv
    BY <2>1 DEF FindsInv, FindsKept, Idle
  <2> QED
    BY <2>1, <2>2, IdleOrderly DEF OrderInv
<1>2. SyncInv /\ (OrderInv /\ FindsInv) /\ [Next]_vars => (OrderInv /\ FindsInv)'
  BY OrderStep, FindsStep
<1>3. OrderInv /\ FindsInv => MarkedOnlyWhenStored
  <2> SUFFICES ASSUME OrderInv, FindsInv, NEW s \in Active, NEW t \in sync[s].told,
                      t.ref \in sync[s].read \ sync[s].unmarked
               PROVE  [find |-> t, by |-> s] \in made \/ Named[t.item] \in Categories \ categories
    BY DEF MarkedOnlyWhenStored
  <2>1. t \notin sync[s].found /\ ~InRow(sync[s], t)
    BY DEF OrderInv, Orderly, MarksLast, InRow, Active
  <2> QED
    BY <2>1 DEF FindsInv, FindsKept, DealtWith, Active
<1> QED
  BY <1>1, <1>2, <1>3, SyncInvariant, PTL DEF Spec

-----------------------------------------------------------------------------
(* What safety says of ReadIsProcessed. Each step of a sync brings it closer  *)
(* to its end by a measure that cannot fall for ever, and until that end a    *)
(* message is in the hands of the sync that read it. That a sync under way    *)
(* always has a next step, and takes it, is fairness and left to TLC.         *)

\* Batches not sent, then finds not stored, then messages not marked.
Closer(q, p) ==
  \/ p.unsent \subseteq q.unsent /\ p.unsent # q.unsent
  \/ /\ p.unsent = q.unsent
     /\ \/ p.found \subseteq q.found /\ p.found # q.found
        \/ /\ p.found = q.found
           /\ \/ q.step = "insert" /\ p.step = "batch"
              \/ /\ p.step = q.step
                 /\ p.unmarked \subseteq q.unmarked /\ p.unmarked # q.unmarked
              \/ q.step = "batch" /\ p.step = "stamp" /\ p.unmarked = q.unmarked

\* What a sync was handed it keeps until it is processed or left behind, and it
\* never goes back: it waits, ends, or comes closer to its end.
MovesOn(s) ==
  /\ \A m \in sync[s].unmarked : m \in sync'[s].unmarked \cup Processed' \cup exposed'
  /\ sync'[s] # sync[s] => sync[s] = Idle \/ sync'[s] = Idle \/ Closer(sync[s], sync'[s])

SyncsMoveOn == [][\A s \in Syncs : MovesOn(s)]_vars

LEMMA MovesOnStep ==
  ASSUME SyncInv, OrderInv, [Next]_vars
  PROVE  \A s \in Syncs : MovesOn(s)
<1> USE DEF SyncInv
<1> DEFINE Goal == \A s \in Syncs : MovesOn(s)
<1>1. ASSUME NEW s \in Syncs, sync'[s] = sync[s] PROVE MovesOn(s)
  BY <1>1 DEF MovesOn
\* At most one sync takes a step.
<1>2. ASSUME NEW s \in Syncs, MovesOn(s), \A a \in Syncs \ {s} : sync'[a] = sync[a]
      PROVE  Goal
  BY <1>1, <1>2
<1> HIDE DEF Goal
<1>3. ASSUME NEW s \in Syncs, SyncStart(s) PROVE Goal
  <2>1. MovesOn(s)
    BY <1>3, StartShape, IdleOrderly DEF MovesOn
  <2> QED
    BY <1>2, <1>3, <2>1, StartShape
<1>4. ASSUME NEW s \in Syncs, Extract(s) PROVE Goal
  <2>1. sync'[s].unsent \subseteq sync[s].unsent /\ sync'[s].unsent # sync[s].unsent
    BY <1>4, ExtractShape
  <2>2. sync'[s].unmarked = sync[s].unmarked
    BY <1>4, ExtractShape
  <2> QED
    BY <1>2, <1>4, <2>1, <2>2, ExtractShape DEF MovesOn, Closer
<1>5. ASSUME NEW s \in Syncs, Lookup(s) PROVE Goal
  <2>1. sync'[s].found \subseteq sync[s].found /\ sync'[s].found # sync[s].found
    BY <1>5, LookupShape
  <2>2. sync'[s].unmarked = sync[s].unmarked /\ sync'[s].unsent = sync[s].unsent
    BY <1>5, LookupShape
  <2> QED
    BY <1>2, <1>5, <2>1, <2>2, LookupShape DEF MovesOn, Closer
<1>6. ASSUME NEW s \in Syncs, InsertTask(s) PROVE Goal
  <2>1. MovesOn(s)
    BY <1>6, InsertShape DEF MovesOn, Closer
  <2> QED
    BY <1>2, <1>6, <2>1, InsertShape
<1>7. ASSUME NEW s \in Syncs, MarkProcessed(s) PROVE Goal
  <2>1. PICK m \in sync[s].unmarked :
          /\ sync'[s].unmarked = sync[s].unmarked \ {m}
          /\ m \in Buffered => Processed' = Processed \cup {m}
    BY <1>7, MarkShape
  <2>2. m \in Buffered
    BY DEF LocalsOK
  <2>3. /\ sync'[s].unsent = sync[s].unsent /\ sync'[s].found = sync[s].found
        /\ sync'[s].step = sync[s].step
    BY <1>7, MarkShape DEF Extracted
  <2>4. MovesOn(s)
    BY <2>1, <2>2, <2>3 DEF MovesOn, Closer
  <2> QED
    BY <1>2, <1>7, <2>4, MarkShape
<1>8. ASSUME NEW s \in Syncs, LogSync(s) PROVE Goal
  <2>1. MovesOn(s)
    BY <1>8, LogShape DEF MovesOn, Closer, Extracted
  <2> QED
    BY <1>2, <1>8, <2>1, LogShape
<1>9. ASSUME NEW s \in Syncs, UpdateLastSynced(s) PROVE Goal
  <2>1. sync[s].unmarked = {}
    BY <1>9 DEF UpdateLastSynced, OrderInv, Orderly, MarksLast
  <2>2. MovesOn(s)
    BY <1>9, <2>1, ResetShape DEF MovesOn
  <2> QED
    BY <1>2, <1>9, <2>2, ResetShape
<1>10. ASSUME NEW s \in Syncs, Abort(s) PROVE Goal
  <2>1. sync[s].unmarked \subseteq exposed'
    BY <1>10 DEF Abort
  <2>2. MovesOn(s)
    BY <1>10, <2>1, ResetShape DEF MovesOn
  <2> QED
    BY <1>2, <1>10, <2>2, ResetShape
<1>11. ASSUME UNCHANGED sync PROVE Goal
  BY <1>1, <1>11 DEF Goal
<1>12. ASSUME ~\E s \in Syncs : SyncStart(s) \/ SyncStep(s) \/ Abort(s) PROVE Goal
  BY <1>11, <1>12 DEF Next, vars, Store, Drop, Receive, AddContact, RemoveContact, RemoveCategory
<1>13. Goal
  BY <1>3, <1>4, <1>5, <1>6, <1>7, <1>8, <1>9, <1>10, <1>12 DEF SyncStep
<1> QED
  BY <1>13 DEF Goal

\* A sync never goes back over its batches, finds or marks, and gives up a message
\* it read only by marking it or by being cut short.
THEOREM SyncsAlwaysMoveOn == Spec => SyncsMoveOn
<1>1. Init => OrderInv
  BY IdleOrderly DEF Init, OrderInv
<1>2. SyncInv /\ OrderInv /\ [Next]_vars => OrderInv'
  BY OrderStep
<1>3. SyncInv /\ OrderInv /\ [Next]_vars => [\A s \in Syncs : MovesOn(s)]_vars
  BY MovesOnStep
<1> QED
  BY <1>1, <1>2, <1>3, SyncInvariant, PTL DEF Spec, SyncsMoveOn

=============================================================================
