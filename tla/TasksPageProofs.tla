-------------------------- MODULE TasksPageProofs --------------------------
(***************************************************************************)
(* Proofs about TasksPage, for any number of tasks, people, loads and        *)
(* requests: type correctness; what is shown passes the filter, holds the   *)
(* page's own changes and stands under one heading; only what is listed is  *)
(* selected; the signs that something is under way are true.                *)
(***************************************************************************)
EXTENDS TasksPage, TLAPS

-----------------------------------------------------------------------------
(* Lists.                                                                   *)

\* A list, by what it needs to be one.
LEMMA ListParts ==
  ASSUME NEW ids, NEW list \in UNION {[s -> Row] : s \in SUBSET ids}
  PROVE  DOMAIN list \subseteq ids /\ \A i \in DOMAIN list : list[i] \in Row
OBVIOUS

LEMMA ListMade ==
  ASSUME NEW ids, NEW s \in SUBSET ids, NEW list \in [s -> Row]
  PROVE  list \in UNION {[t -> Row] : t \in SUBSET ids}
OBVIOUS

\* Kept takes a part of a list, and With writes one row.
LEMMA KeptParts ==
  ASSUME NEW list, NEW some
  PROVE  /\ DOMAIN Kept(list, some) = DOMAIN list \cap some
         /\ \A i \in DOMAIN list \cap some : Kept(list, some)[i] = list[i]
BY DEF Kept

LEMMA KeptList ==
  ASSUME NEW ids, NEW list \in UNION {[s -> Row] : s \in SUBSET ids}, NEW some
  PROVE  Kept(list, some) \in UNION {[s -> Row] : s \in SUBSET ids}
<1>1. DOMAIN list \cap some \in SUBSET ids /\ Kept(list, some) \in [DOMAIN list \cap some -> Row]
  BY ListParts DEF Kept
<1>2. QED
  BY <1>1, ListMade

LEMMA WithList ==
  ASSUME NEW ids, NEW list \in UNION {[s -> Row] : s \in SUBSET ids}, NEW i \in ids, NEW row \in Row
  PROVE  With(list, i, row) \in UNION {[s -> Row] : s \in SUBSET ids}
<1>1. DOMAIN list \subseteq ids /\ \A j \in DOMAIN list : list[j] \in Row
  BY ListParts
<1>2. DOMAIN list \cup {i} \in SUBSET ids /\ With(list, i, row) \in [DOMAIN list \cup {i} -> Row]
  BY <1>1 DEF With
<1>3. QED
  BY <1>2, ListMade

LEMMA ListWidens ==
  ASSUME NEW n \in Nat, NEW m \in Nat, n <= m, NEW list \in UNION {[s -> Row] : s \in SUBSET (1..n)}
  PROVE  list \in UNION {[s -> Row] : s \in SUBSET (1..m)}
<1>1. PICK s \in SUBSET (1..n) : list \in [s -> Row]
  OBVIOUS
<1>2. s \in SUBSET (1..m)
  BY <1>1
<1>3. QED
  BY <1>1, <1>2, ListMade

-----------------------------------------------------------------------------
(* Type correctness, by parts of the state.                                 *)

LoadRecord == [step : {"none", "open", "over"}, filter : Filters \cup {NULL},
               tasks : Lists \cup {NULL}, people : (SUBSET Persons) \cup {NULL},
               torn : BOOLEAN, missed : SUBSET Ids, stale : BOOLEAN]
ActRecord == [step : {"none", "sent", "over"}, left : SUBSET (Ids \cup {0}),
              done : SUBSET Ids, to : Statuses \cup {"gone", "saved", "sync", NULL},
              who : Persons \cup {NULL}, filter : Filters \cup {NULL},
              batch : BOOLEAN, failed : BOOLEAN]

ServerOK ==
  /\ lastId \in 0..MaxId
  /\ rows \in UNION {[ids -> Row] : ids \in SUBSET (1..lastId)}
  /\ people \subseteq Persons /\ changes \in 0..MaxChanges
  /\ \A i \in DOMAIN rows : rows[i].who \in people \cup {NULL}
ListsOK ==
  /\ tasks \in Lists /\ known \subseteq Persons /\ torn \in BOOLEAN
  /\ unseen \subseteq Ids /\ lapsed \subseteq Ids
PageOK ==
  /\ filter \in Filters /\ window \in BOOLEAN
  /\ loading \in BOOLEAN /\ error \in BOOLEAN
  /\ batch \in BOOLEAN /\ selected \subseteq Ids /\ confirm \in BOOLEAN /\ deleting \in BOOLEAN
  /\ form \in Ids \cup {0, NULL} /\ saving \in 0..MaxActs
LoadsOK == asked \in Loads /\ last \in 0..MaxLoads /\ load \in [Loads -> LoadRecord]
ActsOK == acted \in 0..MaxActs /\ act \in [Acts -> ActRecord]

LEMMA TypeParts == TypeOK <=> ServerOK /\ ListsOK /\ PageOK /\ LoadsOK /\ ActsOK
BY DEF TypeOK, ServerOK, ListsOK, PageOK, LoadsOK, ActsOK, LoadRecord, ActRecord

LEMMA ServerKept == ServerOK /\ UNCHANGED server => ServerOK'
BY DEF ServerOK, server
LEMMA ListsKept == ListsOK /\ UNCHANGED lists => ListsOK'
BY DEF ListsOK, lists
LEMMA LoadsKept == LoadsOK /\ UNCHANGED <<load, asked, last>> => LoadsOK'
BY DEF LoadsOK
LEMMA ActsKept == ActsOK /\ UNCHANGED <<act, acted>> => ActsOK'
BY DEF ActsOK

LEMMA NewLoadTyped == NewLoad \in LoadRecord
BY DEF NewLoad, LoadRecord

LEMMA NewActTyped == NewAct \in ActRecord
BY DEF NewAct, ActRecord

LEMMA TypeInit == Init => TypeOK
<1> SUFFICES ASSUME Init PROVE TypeOK
  OBVIOUS
<1>1. rows \in [1..lastId -> Row] /\ lastId \in 0..MaxId
  BY DEF Init, Row, Statuses
<1>2. rows \in UNION {[ids -> Row] : ids \in SUBSET (1..lastId)}
  BY <1>1, ListMade
<1>3. ServerOK
  BY <1>1, <1>2, PageAssumption DEF Init, ServerOK, Row
<1>4. tasks \in Lists
  <2>1. rows \in Lists
    BY <1>1, <1>2, ListWidens, PageAssumption DEF Lists, Ids
  <2>2. QED
    BY <2>1, KeptList DEF Init, Lists
<1>5. ListsOK
  BY <1>4 DEF Init, ListsOK
<1>6. PageOK
  <2>1. saving \in 0..MaxActs
    BY PageAssumption DEF Init
  <2>2. QED
    BY <2>1, PageAssumption DEF Init, PageOK
<1>7. LoadsOK
  <2>1. [NewLoad EXCEPT !.step = "open", !.filter = "pending"] \in LoadRecord
    BY NewLoadTyped, PageAssumption DEF LoadRecord
  <2>2. load \in [Loads -> LoadRecord]
    BY <2>1, NewLoadTyped DEF Init
  <2>3. QED
    BY <2>2, PageAssumption DEF Init, LoadsOK, Loads
<1>8. ActsOK
  BY NewActTyped, PageAssumption DEF Init, ActsOK
<1>9. QED
  BY <1>3, <1>5, <1>6, <1>7, <1>8, TypeParts

\* A new load, and what a load becomes when it ends.
LEMMA AsksTyped ==
  ASSUME LoadsOK, NEW f \in Filters \cup {NULL}, NEW set, Asks(f, set)
  PROVE  /\ asked' \in Loads /\ load' \in [Loads -> LoadRecord]
         /\ loading' \in BOOLEAN /\ error' \in BOOLEAN
         /\ asked' = asked + 1
         /\ load' = [load EXCEPT ![asked'] = [NewLoad EXCEPT !.step = "open", !.filter = f,
                                                             !.stale = (f # set)]]
<1> DEFINE q == [NewLoad EXCEPT !.step = "open", !.filter = f, !.stale = (f # set)]
<1>1. q \in LoadRecord
  BY NewLoadTyped DEF LoadRecord
<1>2. asked' = asked + 1 /\ asked' \in Loads
  BY PageAssumption DEF Asks, LoadsOK, Loads
<1>3. load' = [load EXCEPT ![asked'] = q]
  BY <1>2 DEF Asks
<1> HIDE DEF q
<1>4. load' \in [Loads -> LoadRecord]
  BY <1>1, <1>2, <1>3 DEF LoadsOK
<1>5. QED
  BY <1>2, <1>3, <1>4 DEF q, Asks

LEMMA EndedTyped ==
  ASSUME LoadsOK, NEW l \in Loads, Ended(l)
  PROVE  /\ load' \in [Loads -> LoadRecord] /\ last' = l /\ loading' = FALSE
         /\ load' = [load EXCEPT ![l] = [NewLoad EXCEPT !.step = "over", !.filter = load[l].filter,
                                                        !.stale = load[l].stale]]
<1> DEFINE q == [NewLoad EXCEPT !.step = "over", !.filter = load[l].filter, !.stale = load[l].stale]
<1>1. load[l] \in LoadRecord
  BY DEF LoadsOK
<1>2. q \in LoadRecord
  BY <1>1, NewLoadTyped DEF LoadRecord
<1>3. load' = [load EXCEPT ![l] = q]
  BY DEF Ended
<1> HIDE DEF q
<1>4. load' \in [Loads -> LoadRecord]
  BY <1>2, <1>3 DEF LoadsOK
<1>5. QED
  BY <1>3, <1>4 DEF q, Ended

LEMMA LoadingTyped ==
  ASSUME TypeOK, NEW l \in Loads, Loading(l)
  PROVE  TypeOK'
<1>1. ServerOK /\ ListsOK /\ PageOK /\ LoadsOK /\ ActsOK
  BY TypeParts
<1>2. load[l] \in LoadRecord
  BY <1>1 DEF LoadsOK
<1>3. rows \in Lists
  BY <1>1, ListWidens, PageAssumption DEF ServerOK, Lists, Ids
<1>4. CASE ReadTasks(l)
  <2> DEFINE f == load[l].filter
             list == Kept(rows, {i \in DOMAIN rows : f = "all" \/ rows[i].status = f})
             q == [load[l] EXCEPT !.tasks = list]
  <2>1. list \in Lists
    BY <1>3, KeptList DEF Lists
  <2> HIDE DEF list
  <2>2. q \in LoadRecord
    BY <1>2, <2>1 DEF LoadRecord
  <2>3. load' = [load EXCEPT ![l] = q]
    BY <1>4 DEF ReadTasks, list
  <2> HIDE DEF q
  <2>4. LoadsOK'
    BY <1>1, <1>4, <2>2, <2>3 DEF LoadsOK, ReadTasks
  <2>5. ServerOK' /\ ListsOK' /\ PageOK' /\ ActsOK'
    BY <1>1, <1>4, ServerKept, ListsKept, ActsKept DEF ReadTasks, PageOK, selection, dialog
  <2>6. QED
    BY <2>4, <2>5, TypeParts, PTL
<1>5. CASE ReadPeople(l)
  <2> DEFINE q == [load[l] EXCEPT !.people = people]
  <2>1. q \in LoadRecord
    BY <1>1, <1>2 DEF LoadRecord, ServerOK
  <2>2. load' = [load EXCEPT ![l] = q]
    BY <1>5 DEF ReadPeople
  <2> HIDE DEF q
  <2>3. LoadsOK'
    BY <1>1, <1>5, <2>1, <2>2 DEF LoadsOK, ReadPeople
  <2>4. ServerOK' /\ ListsOK' /\ PageOK' /\ ActsOK'
    BY <1>1, <1>5, ServerKept, ListsKept, ActsKept DEF ReadPeople, PageOK, selection, dialog
  <2>5. QED
    BY <2>3, <2>4, TypeParts, PTL
<1>6. CASE Loaded(l)
  <2>1. LoadsOK' /\ loading' \in BOOLEAN
    <3>1. load' \in [Loads -> LoadRecord] /\ last' = l /\ loading' = FALSE /\ UNCHANGED asked
      BY <1>1, <1>6, EndedTyped DEF Loaded
    <3>2. l \in 0..MaxLoads
      BY PageAssumption DEF Loads
    <3>3. QED
      BY <1>1, <3>1, <3>2 DEF LoadsOK
  <2>2. ListsOK'
    BY <1>1, <1>2, <1>6 DEF Loaded, Shows, ListsOK, LoadRecord
  <2>3. ServerOK' /\ PageOK' /\ ActsOK'
    BY <1>1, <1>6, <2>1, ServerKept, ActsKept DEF Loaded, PageOK, dialog
  <2>4. QED
    BY <2>1, <2>2, <2>3, TypeParts, PTL
<1>7. CASE LoadFails(l)
  <2>1. LoadsOK' /\ loading' \in BOOLEAN
    <3>1. load' \in [Loads -> LoadRecord] /\ last' = l /\ loading' = FALSE /\ UNCHANGED asked
      BY <1>1, <1>7, EndedTyped DEF LoadFails
    <3>2. l \in 0..MaxLoads
      BY PageAssumption DEF Loads
    <3>3. QED
      BY <1>1, <3>1, <3>2 DEF LoadsOK
  <2>2. ServerOK' /\ PageOK' /\ ActsOK' /\ ListsOK'
    BY <1>1, <1>7, <2>1, ServerKept, ActsKept, ListsKept DEF LoadFails, PageOK, dialog, selection
  <2>3. QED
    BY <2>1, <2>2, TypeParts, PTL
<1>8. QED
  BY <1>4, <1>5, <1>6, <1>7 DEF Loading

LEMMA SelectionTyped ==
  ASSUME TypeOK,
         \/ \E f \in Filters, w \in Windows : Choose(f, w)
         \/ \E i \in Ids : EnterBatch(i) \/ ToggleSelect(i)
         \/ ToggleSelectAll \/ CancelBatch \/ AskConfirm \/ CloseConfirm
         \/ CloseForm
         \/ \E i \in Ids \cup {0} : OpenForm(i)
  PROVE  TypeOK'
<1>1. ServerOK /\ ListsOK /\ PageOK /\ LoadsOK /\ ActsOK
  BY TypeParts
<1>2. DOMAIN tasks \subseteq Ids
  BY <1>1, ListParts DEF ListsOK, Lists
<1>3. ASSUME NEW f \in Filters, NEW w \in Windows, Choose(f, w) PROVE TypeOK'
  <2>1. ServerOK' /\ ListsOK' /\ ActsOK'
    BY <1>1, <1>3, ServerKept, ListsKept, ActsKept DEF Choose
  <2>2. LoadsOK' /\ loading' \in BOOLEAN /\ error' \in BOOLEAN
    <3>1. CASE f = filter
      BY <1>1, <1>3, <3>1, LoadsKept DEF Choose, PageOK
    <3>2. CASE f # filter
      <4>1. Asks(f, f) /\ UNCHANGED last
        BY <1>3, <3>2 DEF Choose
      <4>2. QED
        BY <1>1, <4>1, AsksTyped DEF LoadsOK
    <3>3. QED
      BY <3>1, <3>2
  <2>3. PageOK'
    BY <1>1, <1>3, <2>2, PageAssumption DEF Choose, PageOK, selection, dialog
  <2>4. QED
    BY <2>1, <2>2, <2>3, TypeParts, PTL
<1>4. ASSUME NEW i \in Ids, EnterBatch(i) \/ ToggleSelect(i) PROVE TypeOK'
  <2>1. PageOK'
    <3>1. selected' \subseteq Ids
      BY <1>1, <1>4 DEF EnterBatch, ToggleSelect, PageOK
    <3>2. batch' \in BOOLEAN
      BY <1>4 DEF EnterBatch, ToggleSelect
    <3>3. QED
      BY <1>1, <1>4, <3>1, <3>2 DEF EnterBatch, ToggleSelect, PageOK, dialog
  <2>2. ServerOK' /\ ListsOK' /\ ActsOK' /\ LoadsOK'
    BY <1>1, <1>4, ServerKept, ListsKept, ActsKept, LoadsKept DEF EnterBatch, ToggleSelect
  <2>3. QED
    BY <2>1, <2>2, TypeParts, PTL
<1>5. ASSUME ToggleSelectAll \/ CancelBatch \/ AskConfirm \/ CloseConfirm PROVE TypeOK'
  <2>1. PageOK'
    <3>1. selected' \subseteq Ids
      BY <1>1, <1>2, <1>5 DEF ToggleSelectAll, CancelBatch, AskConfirm, CloseConfirm, PageOK
    <3>2. batch' \in BOOLEAN /\ confirm' \in BOOLEAN
      BY <1>1, <1>5 DEF ToggleSelectAll, CancelBatch, AskConfirm, CloseConfirm, PageOK
    <3>3. QED
      BY <1>1, <1>5, <3>1, <3>2
      DEF ToggleSelectAll, CancelBatch, AskConfirm, CloseConfirm, PageOK, dialog
  <2>2. ServerOK' /\ ListsOK' /\ ActsOK' /\ LoadsOK'
    BY <1>1, <1>5, ServerKept, ListsKept, ActsKept, LoadsKept
    DEF ToggleSelectAll, CancelBatch, AskConfirm, CloseConfirm
  <2>3. QED
    BY <2>1, <2>2, TypeParts, PTL
<1>6. ASSUME NEW i \in Ids \cup {0}, OpenForm(i) \/ CloseForm PROVE TypeOK'
  <2>1. PageOK'
    <3>1. saving' \in 0..MaxActs
      BY <1>1, <1>6, PageAssumption DEF OpenForm, CloseForm, PageOK
    <3>2. form' \in Ids \cup {0, NULL}
      BY <1>6 DEF OpenForm, CloseForm
    <3>3. QED
      BY <1>1, <1>6, <3>1, <3>2 DEF OpenForm, CloseForm, PageOK, selection
  <2>2. ServerOK' /\ ListsOK' /\ ActsOK' /\ LoadsOK'
    BY <1>1, <1>6, ServerKept, ListsKept, ActsKept, LoadsKept DEF OpenForm, CloseForm
  <2>3. QED
    BY <2>1, <2>2, TypeParts, PTL
<1>7. QED
  BY <1>3, <1>4, <1>5, <1>6

\* A request that is sent.
NewRequest(left, to, who, isBatch) ==
  [NewAct EXCEPT !.step = "sent", !.left = left, !.to = to, !.who = who,
                 !.filter = filter, !.batch = isBatch]

LEMMA SendsNew ==
  ASSUME ActsOK, NEW left, NEW to, NEW who, NEW isBatch, Sends(left, to, who, isBatch)
  PROVE  /\ acted' = acted + 1 /\ acted' \in Acts /\ acted' \in 0..MaxActs
         /\ act' = [act EXCEPT ![acted'] = act'[acted']]
         /\ \A b \in Acts \ {acted'} : act'[b] = act[b]
         /\ act'[acted'] = NewRequest(left, to, who, isBatch)
         /\ act'[acted'].step = "sent" /\ act'[acted'].left = left /\ act'[acted'].done = {}
         /\ act'[acted'].to = to /\ act'[acted'].filter = filter /\ act'[acted'].failed = FALSE
         /\ act'[acted'].batch = isBatch
<1> DEFINE q == NewRequest(left, to, who, isBatch)
<1>1. acted' = acted + 1 /\ acted' \in Acts /\ acted' \in 0..MaxActs
  BY PageAssumption DEF Sends, ActsOK, Acts
<1>2. act' = [act EXCEPT ![acted'] = q]
  BY <1>1 DEF Sends, NewRequest
<1>3. /\ q.step = "sent" /\ q.left = left /\ q.done = {}
      /\ q.to = to /\ q.filter = filter /\ q.failed = FALSE /\ q.batch = isBatch
  BY DEF NewAct, NewRequest
<1> HIDE DEF q
<1>4. act'[acted'] = q /\ \A b \in Acts \ {acted'} : act'[b] = act[b]
  BY <1>1, <1>2 DEF ActsOK
<1>5. QED
  BY <1>1, <1>2, <1>3, <1>4 DEF q

LEMMA SendsTyped ==
  ASSUME ActsOK, filter \in Filters, NEW left \in SUBSET (Ids \cup {0}),
         NEW to \in Statuses \cup {"gone", "saved", "sync"},
         NEW who \in Persons \cup {NULL}, NEW isBatch \in BOOLEAN, Sends(left, to, who, isBatch)
  PROVE  ActsOK' /\ acted' = acted + 1 /\ acted' \in Acts
<1>1. act'[acted'] \in ActRecord
  <2>1. NewRequest(left, to, who, isBatch) \in ActRecord
    <3>1. filter \in Filters \cup {NULL} /\ who \in Persons \cup {NULL}
      OBVIOUS
    <3>2. QED
      BY <3>1, NewActTyped, Zenon DEF ActRecord, NewRequest
  <2>2. act'[acted'] = NewRequest(left, to, who, isBatch)
    BY SendsNew, Zenon
  <2>3. QED
    BY <2>1, <2>2
<1>2. QED
  BY <1>1, SendsNew DEF ActsOK

LEMMA SendingTyped ==
  ASSUME TypeOK,
         \/ \E i \in Ids : Click(i)
         \/ \E who \in Persons \cup {NULL} : Submit(who)
         \/ ConfirmBatchDelete \/ Sync
  PROVE  TypeOK'
<1>1. ServerOK /\ ListsOK /\ PageOK /\ LoadsOK /\ ActsOK
  BY TypeParts
<1>2. filter \in Filters
  BY <1>1 DEF PageOK
<1>3. ASSUME NEW i \in Ids, Click(i) PROVE TypeOK'
  <2>1. PICK to \in Offered(tasks[i].status) : Sends({i}, to, NULL, FALSE)
    BY <1>3 DEF Click
  <2>2. tasks[i].status \in Statuses
    BY <1>1, <1>3, ListParts DEF ListsOK, Lists, Click, Card, Row
  <2>3. to \in Statuses \cup {"gone", "saved", "sync"}
    BY <2>1, <2>2 DEF Offered, Statuses
  <2>4. ActsOK'
    BY <1>1, <1>2, <2>1, <2>3, SendsTyped
  <2>5. ServerOK' /\ ListsOK' /\ LoadsOK'
    BY <1>1, <1>3, ServerKept, ListsKept, LoadsKept DEF Click
  <2>6. PageOK'
    BY <1>1, <1>3 DEF Click, PageOK, selection, dialog
  <2>7. QED
    BY <2>4, <2>5, <2>6, TypeParts, PTL
<1>4. ASSUME NEW who \in Persons \cup {NULL}, Submit(who) PROVE TypeOK'
  <2>1. {form} \in SUBSET (Ids \cup {0})
    BY <1>1, <1>4 DEF Submit, PageOK
  <2>2. ActsOK' /\ acted' = acted + 1 /\ acted' \in Acts
    BY <1>1, <1>2, <1>4, <2>1, SendsTyped DEF Submit
  <2>3. saving' \in 0..MaxActs
    BY <1>4, <2>2, PageAssumption DEF Submit, Acts
  <2>4. ServerOK' /\ ListsOK' /\ LoadsOK'
    BY <1>1, <1>4, ServerKept, ListsKept, LoadsKept DEF Submit
  <2>5. PageOK'
    BY <1>1, <1>4, <2>3 DEF Submit, PageOK, selection
  <2>6. QED
    BY <2>2, <2>4, <2>5, TypeParts, PTL
<1>5. CASE ConfirmBatchDelete
  <2>1. selected \in SUBSET (Ids \cup {0})
    BY <1>1 DEF PageOK
  <2>2. ActsOK'
    BY <1>1, <1>2, <1>5, <2>1, SendsTyped DEF ConfirmBatchDelete
  <2>3. ServerOK' /\ ListsOK' /\ LoadsOK'
    BY <1>1, <1>5, ServerKept, ListsKept, LoadsKept DEF ConfirmBatchDelete
  <2>4. PageOK'
    BY <1>1, <1>5 DEF ConfirmBatchDelete, PageOK, dialog
  <2>5. QED
    BY <2>2, <2>3, <2>4, TypeParts, PTL
<1>6. CASE Sync
  <2>1. ActsOK'
    BY <1>1, <1>2, <1>6, SendsTyped DEF Sync
  <2>2. ServerOK' /\ ListsOK' /\ LoadsOK'
    BY <1>1, <1>6, ServerKept, ListsKept, LoadsKept DEF Sync
  <2>3. PageOK'
    BY <1>1, <1>6 DEF Sync, PageOK, selection, dialog
  <2>4. QED
    BY <2>1, <2>2, <2>3, TypeParts, PTL
<1>7. QED
  BY <1>3, <1>4, <1>5, <1>6

-----------------------------------------------------------------------------
(* What a request has left to do is something that its kind does.          *)

LeftOK ==
  \A a \in Acts :
    act[a].left # {} => /\ act[a].to \in Statuses \cup {"gone", "saved"}
                        /\ 0 \in act[a].left => act[a].to = "saved"

\* What a step of one request does to it.
LEMMA RequestStep ==
  ASSUME TypeOK, NEW a \in Acts, Requesting(a)
  PROVE  /\ ActsOK' /\ \A b \in Acts \ {a} : act'[b] = act[b]
         /\ act'[a].to = act[a].to /\ act'[a].left \subseteq act[a].left
<1>1. ActsOK /\ act[a] \in ActRecord /\ UNCHANGED acted
  BY TypeParts DEF ActsOK, Requesting, Serve, Refuse, Answer, GiveUp
<1>2. ASSUME NEW r \in ActRecord, act' = [act EXCEPT ![a] = r],
             r.to = act[a].to, r.left \subseteq act[a].left
      PROVE  /\ ActsOK' /\ \A b \in Acts \ {a} : act'[b] = act[b]
             /\ act'[a].to = act[a].to /\ act'[a].left \subseteq act[a].left
  BY <1>1, <1>2 DEF ActsOK
<1>3. ASSUME NEW i \in Ids \cup {0}, Serve(a, i)
      PROVE  \E r \in ActRecord : /\ act' = [act EXCEPT ![a] = r]
                                  /\ r.to = act[a].to /\ r.left \subseteq act[a].left
  <2> DEFINE j == IF i = 0 THEN lastId + 1 ELSE i
             r(lost) == [act[a] EXCEPT !.left = @ \ {i}, !.done = @ \cup {j}, !.failed = @ \/ lost]
  <2>1. j \in Ids
    BY <1>3 DEF Serve
  <2>2. PICK lost \in BOOLEAN : act' = [act EXCEPT ![a] = r(lost)]
    <3>1. PICK lost \in (IF Faults THEN BOOLEAN ELSE {FALSE}) :
             act' = [act EXCEPT ![a].left = @ \ {i}, ![a].done = @ \cup {j},
                                ![a].failed = @ \/ lost]
      BY <1>3 DEF Serve
    <3>2. lost \in BOOLEAN
      OBVIOUS
    <3>3. QED
      BY <1>1, <3>1, <3>2 DEF ActsOK
  <2> HIDE DEF j
  <2>3. r(lost) \in ActRecord
    BY <1>1, <2>1 DEF ActRecord
  <2>4. r(lost).to = act[a].to /\ r(lost).left \subseteq act[a].left
    BY <1>1 DEF ActRecord
  <2>5. QED
    BY <2>2, <2>3, <2>4
<1>4. ASSUME NEW i \in Ids \cup {0}, Refuse(a, i)
      PROVE  \E r \in ActRecord : /\ act' = [act EXCEPT ![a] = r]
                                  /\ r.to = act[a].to /\ r.left \subseteq act[a].left
  <2> DEFINE r == [act[a] EXCEPT !.left = @ \ {i}, !.failed = TRUE]
  <2>1. r \in ActRecord /\ r.to = act[a].to /\ r.left \subseteq act[a].left
    BY <1>1 DEF ActRecord
  <2>2. act' = [act EXCEPT ![a] = r]
    BY <1>1, <1>4 DEF Refuse, ActsOK
  <2>3. QED
    BY <2>1, <2>2
<1>5. ASSUME Answer(a) \/ GiveUp(a)
      PROVE  \E r \in ActRecord : /\ act' = [act EXCEPT ![a] = r]
                                  /\ r.to = act[a].to /\ r.left \subseteq act[a].left
  <2> DEFINE r == [act[a] EXCEPT !.step = "over"]
  <2>1. r \in ActRecord /\ r.to = act[a].to /\ r.left \subseteq act[a].left
    BY <1>1 DEF ActRecord
  <2>2. act' = [act EXCEPT ![a] = r]
    BY <1>1, <1>5 DEF Answer, GiveUp, ActsOK
  <2>3. QED
    BY <2>1, <2>2
<1>6. QED
  BY <1>2, <1>3, <1>4, <1>5 DEF Requesting

\* A row that the server writes for a request.
LEMMA WrittenRow ==
  ASSUME TypeOK, LeftOK, NEW a \in Acts, NEW i \in act[a].left, ~Refusable(a, i),
         act[a].to # "gone", NEW j \in Ids, i = 0 \/ i = j, i = 0 => j \notin DOMAIN rows
  PROVE  Written(a, j) \in Row /\ Written(a, j).who \in people \cup {NULL}
<1>1. ServerOK /\ ActsOK
  BY TypeParts
<1>2. act[a] \in ActRecord /\ people \subseteq Persons
  BY <1>1 DEF ActsOK, ServerOK
<1>3. act[a].who \in people \cup {NULL}
  BY DEF Refusable
<1>4. act[a].to \in Statuses \cup {"saved"} /\ (i = 0 => act[a].to = "saved")
  BY DEF LeftOK
<1>5. i # 0 => i \in DOMAIN rows
  BY DEF Refusable
<1>6. \A k \in DOMAIN rows : rows[k] \in Row /\ rows[k].who \in people \cup {NULL}
  BY <1>1, ListParts DEF ServerOK
<1>7. CASE j \notin DOMAIN rows
  <2>1. Written(a, j) = [status |-> "pending", who |-> act[a].who]
    BY <1>4, <1>5, <1>7 DEF Written
  <2>2. QED
    BY <1>2, <1>3, <2>1 DEF Row, Statuses
<1>8. CASE j \in DOMAIN rows /\ act[a].to = "saved"
  BY <1>2, <1>3, <1>6, <1>8 DEF Written, Row
<1>9. CASE j \in DOMAIN rows /\ act[a].to # "saved"
  BY <1>4, <1>6, <1>9 DEF Written, Row
<1>10. QED
  BY <1>7, <1>8, <1>9

LEMMA RequestTyped ==
  ASSUME TypeOK, LeftOK, NEW a \in Acts, Requesting(a)
  PROVE  TypeOK'
<1>1. ServerOK /\ ListsOK /\ PageOK /\ LoadsOK /\ ActsOK /\ act[a] \in ActRecord
  BY TypeParts DEF ActsOK
<1>2. ActsOK'
  BY RequestStep
<1>3. ASSUME NEW i \in Ids \cup {0}, Serve(a, i) PROVE TypeOK'
  <2> DEFINE j == IF i = 0 THEN lastId + 1 ELSE i
  <2>1. /\ i \in act[a].left /\ ~Refusable(a, i) /\ j \in Ids
        /\ rows' = IF act[a].to = "gone" THEN Kept(rows, Ids \ {j}) ELSE With(rows, j, Written(a, j))
        /\ lastId' = IF i = 0 THEN j ELSE lastId
        /\ unseen' = unseen \cup {j}
        /\ lapsed' = IF act[a].step = "over" THEN lapsed \cup {j} ELSE lapsed \ {j}
        /\ load' = [l \in Loads |-> IF l \in Open /\ load[l].tasks # NULL
                                    THEN [load[l] EXCEPT !.missed = @ \cup {j}] ELSE load[l]]
    BY <1>3 DEF Serve
  <2>2. /\ rows \in UNION {[ids -> Row] : ids \in SUBSET (1..lastId)}
        /\ lastId \in Nat /\ lastId <= MaxId
        /\ DOMAIN rows \subseteq 1..lastId
        /\ \A k \in DOMAIN rows : rows[k] \in Row /\ rows[k].who \in people \cup {NULL}
    <3>1. /\ rows \in UNION {[ids -> Row] : ids \in SUBSET (1..lastId)}
          /\ lastId \in Nat /\ lastId <= MaxId
      BY <1>1, PageAssumption DEF ServerOK
    <3>2. DOMAIN rows \subseteq 1..lastId /\ \A k \in DOMAIN rows : rows[k] \in Row
      BY <3>1, ListParts
    <3>3. QED
      BY <1>1, <3>1, <3>2 DEF ServerOK
  <2>3. /\ j \in Nat /\ (i = 0 \/ i = j) /\ (i = 0 => j \notin DOMAIN rows)
        /\ lastId' \in 0..MaxId /\ lastId' \in Nat /\ lastId <= lastId'
        /\ i = 0 => j = lastId'
    BY <2>1, <2>2, PageAssumption DEF Ids
  <2> HIDE DEF j
  <2>4. ServerOK'
    <3>1. rows \in UNION {[ids -> Row] : ids \in SUBSET (1..lastId')}
      BY <2>2, <2>3, ListWidens
    <3>2. /\ rows' \in UNION {[ids -> Row] : ids \in SUBSET (1..lastId')}
          /\ \A k \in DOMAIN rows' : rows'[k].who \in people \cup {NULL}
      <4>1. CASE act[a].to = "gone"
        <5>1. rows' = Kept(rows, Ids \ {j})
          BY <2>1, <4>1
        <5>2. /\ rows' \in UNION {[ids -> Row] : ids \in SUBSET (1..lastId')}
              /\ DOMAIN rows' = DOMAIN rows \cap (Ids \ {j})
              /\ \A k \in DOMAIN rows \cap (Ids \ {j}) : rows'[k] = rows[k]
          BY <3>1, <5>1, KeptList, KeptParts
        <5>3. QED
          BY <2>2, <5>2
      <4>2. CASE act[a].to # "gone"
        <5>1. Written(a, j) \in Row /\ Written(a, j).who \in people \cup {NULL}
          BY <2>1, <2>3, <4>2, WrittenRow
        <5>2. j \in 1..lastId'
          <6>1. CASE i = 0
            BY <2>1, <2>3, <6>1 DEF Ids
          <6>2. CASE i # 0
            BY <2>1, <2>2, <2>3, <4>2, <6>2 DEF Refusable
          <6>3. QED
            BY <6>1, <6>2
        <5>3. /\ rows' \in UNION {[ids -> Row] : ids \in SUBSET (1..lastId')}
              /\ DOMAIN rows' = DOMAIN rows \cup {j}
              /\ rows'[j] = Written(a, j)
              /\ \A k \in DOMAIN rows \ {j} : rows'[k] = rows[k]
          <6>1. rows' = With(rows, j, Written(a, j))
            BY <2>1, <4>2
          <6>2. rows' \in UNION {[ids -> Row] : ids \in SUBSET (1..lastId')}
            BY <3>1, <5>1, <5>2, <6>1, WithList
          <6>3. /\ DOMAIN rows' = DOMAIN rows \cup {j}
                /\ rows'[j] = Written(a, j)
                /\ \A k \in DOMAIN rows \ {j} : rows'[k] = rows[k]
            BY <6>1 DEF With
          <6>4. QED
            BY <6>2, <6>3
        <5>4. QED
          BY <2>2, <5>1, <5>3
      <4>3. QED
        BY <4>1, <4>2
    <3>3. QED
      <4>1. UNCHANGED <<people, changes>>
        BY <1>3 DEF Serve
      <4>2. QED
        BY <1>1, <2>3, <3>2, <4>1 DEF ServerOK
  <2>5. ListsOK'
    BY <1>1, <1>3, <2>1 DEF ListsOK, Serve
  <2>6. LoadsOK'
    <3>1. \A l \in Loads : load[l] \in LoadRecord
      BY <1>1 DEF LoadsOK
    <3>2. \A l \in Loads : [load[l] EXCEPT !.missed = @ \cup {j}] \in LoadRecord
      BY <2>1, <3>1 DEF LoadRecord
    <3>3. load' \in [Loads -> LoadRecord]
      BY <2>1, <3>1, <3>2
    <3>4. QED
      BY <1>1, <1>3, <3>3 DEF LoadsOK, Serve
  <2>7. PageOK'
    BY <1>1, <1>3 DEF Serve, PageOK, selection, dialog
  <2>8. QED
    BY <1>2, <2>4, <2>5, <2>6, <2>7, TypeParts, PTL
<1>4. ASSUME NEW i \in Ids \cup {0}, Refuse(a, i) PROVE TypeOK'
  <2>1. ServerOK' /\ ListsOK' /\ LoadsOK'
    BY <1>1, <1>4, ServerKept, ListsKept, LoadsKept DEF Refuse
  <2>2. PageOK'
    BY <1>1, <1>4 DEF Refuse, PageOK, selection, dialog
  <2>3. QED
    BY <1>2, <2>1, <2>2, TypeParts, PTL
<1>5. CASE Answer(a)
  <2>1. LoadsOK' /\ loading' \in BOOLEAN /\ error' \in BOOLEAN
    <3>1. act[a].filter \in Filters \cup {NULL}
      BY <1>1 DEF ActRecord
    <3>2. Asks(act[a].filter, filter) /\ UNCHANGED last
      BY <1>5 DEF Answer
    <3>3. QED
      BY <1>1, <3>1, <3>2, AsksTyped DEF LoadsOK
  <2>2. ServerOK' /\ ListsOK'
    BY <1>1, <1>5, ServerKept, ListsKept DEF Answer
  <2>3. deleting' \in BOOLEAN
    BY <1>5 DEF Answer
  <2>4. form' \in Ids \cup {0, NULL} /\ saving' \in 0..MaxActs
    BY <1>1, <1>5, PageAssumption DEF Answer, PageOK, dialog
  <2>5. PageOK'
    BY <1>1, <1>5, <2>1, <2>3, <2>4 DEF Answer, PageOK, selection
  <2>6. QED
    BY <1>2, <2>1, <2>2, <2>5, TypeParts, PTL
<1>6. CASE GiveUp(a)
  <2>1. ServerOK' /\ LoadsOK'
    BY <1>1, <1>6, ServerKept, LoadsKept DEF GiveUp
  <2>2. ListsOK'
    BY <1>1, <1>6 DEF GiveUp, ListsOK, ActRecord
  <2>3. deleting' \in BOOLEAN
    BY <1>6 DEF GiveUp
  <2>4. saving' \in 0..MaxActs
    BY <1>1, <1>6, PageAssumption DEF GiveUp, PageOK
  <2>5. PageOK'
    BY <1>1, <1>6, <2>3, <2>4 DEF GiveUp, PageOK, selection
  <2>6. QED
    BY <1>2, <2>1, <2>2, <2>5, TypeParts, PTL
<1>7. QED
  BY <1>3, <1>4, <1>5, <1>6 DEF Requesting

\* When people change, loads at most become torn.
LEMMA PeopleLoads ==
  ASSUME TypeOK, NEW p \in Persons, PeopleChange(p)
  PROVE  /\ load' \in [Loads -> LoadRecord]
         /\ \A l \in Loads :
              /\ load'[l].step = load[l].step /\ load'[l].filter = load[l].filter
              /\ load'[l].tasks = load[l].tasks /\ load'[l].people = load[l].people
              /\ load'[l].missed = load[l].missed /\ load'[l].stale = load[l].stale
              /\ ~load'[l].torn =>
                   ~load[l].torn /\ ~(l \in Open /\ (load[l].tasks = NULL) # (load[l].people = NULL))
<1>1. \A l \in Loads : load[l] \in LoadRecord
  BY TypeParts DEF LoadsOK
<1>2. load' = [l \in Loads |-> IF l \in Open /\ (load[l].tasks = NULL) # (load[l].people = NULL)
                               THEN [load[l] EXCEPT !.torn = TRUE] ELSE load[l]]
  BY DEF PeopleChange
<1>3. \A l \in Loads : [load[l] EXCEPT !.torn = TRUE] \in LoadRecord
  BY <1>1 DEF LoadRecord
<1>4. load' \in [Loads -> LoadRecord]
  BY <1>1, <1>2, <1>3
<1>5. ASSUME NEW l \in Loads
      PROVE  /\ load'[l].step = load[l].step /\ load'[l].filter = load[l].filter
             /\ load'[l].tasks = load[l].tasks /\ load'[l].people = load[l].people
             /\ load'[l].missed = load[l].missed /\ load'[l].stale = load[l].stale
             /\ ~load'[l].torn =>
                  ~load[l].torn /\ ~(l \in Open /\ (load[l].tasks = NULL) # (load[l].people = NULL))
  <2>1. CASE l \in Open /\ (load[l].tasks = NULL) # (load[l].people = NULL)
    <3>1. load'[l] = [load[l] EXCEPT !.torn = TRUE]
      BY <1>2, <2>1
    <3>2. QED
      BY <1>1, <3>1 DEF LoadRecord
  <2>2. CASE ~(l \in Open /\ (load[l].tasks = NULL) # (load[l].people = NULL))
    <3>1. load'[l] = load[l]
      BY <1>2, <2>2
    <3>2. QED
      BY <2>2, <3>1
  <2>3. QED
    BY <2>1, <2>2
<1>6. QED
  BY <1>4, <1>5

LEMMA OthersTyped ==
  ASSUME TypeOK, (\E i \in Ids : OthersChange(i)) \/ (\E p \in Persons : PeopleChange(p))
  PROVE  TypeOK'
<1>1. ServerOK /\ ListsOK /\ PageOK /\ LoadsOK /\ ActsOK
  BY TypeParts
<1>2. /\ lastId \in Nat /\ lastId <= MaxId /\ MaxId \in Nat /\ people \subseteq Persons
      /\ rows \in UNION {[ids -> Row] : ids \in SUBSET (1..lastId)}
      /\ \A k \in DOMAIN rows : rows[k].who \in people \cup {NULL}
  BY <1>1, PageAssumption DEF ServerOK
<1>3. DOMAIN rows \subseteq 1..lastId /\ \A k \in DOMAIN rows : rows[k] \in Row
  BY <1>2, ListParts
<1>4. (\E i \in Ids : OthersChange(i)) \/ (\E p \in Persons : PeopleChange(p)) =>
        changes' \in 0..MaxChanges
  <2>1. changes \in 0..MaxChanges
    BY <1>1 DEF ServerOK
  <2>2. (\E i \in Ids : OthersChange(i)) \/ (\E p \in Persons : PeopleChange(p)) => Changes
    BY DEF OthersChange, PeopleChange
  <2>3. QED
    BY <2>1, <2>2, PageAssumption DEF Changes
<1>5. ASSUME NEW i \in Ids, OthersChange(i) PROVE TypeOK'
  <2>1. ServerOK'
    <3>1. CASE i \in DOMAIN rows /\ rows' = Kept(rows, Ids \ {i}) /\ UNCHANGED lastId
      <4>1. rows' \in UNION {[ids -> Row] : ids \in SUBSET (1..lastId)}
        BY <1>2, <3>1, KeptList
      <4>2. \A k \in DOMAIN rows' : rows'[k].who \in people \cup {NULL}
        BY <1>2, <3>1 DEF Kept
      <4>3. QED
        BY <1>1, <1>4, <1>5, <3>1, <4>1, <4>2 DEF OthersChange, ServerOK
    <3>2. CASE /\ \E row \in Row : row.who \in people \cup {NULL} /\ rows' = With(rows, i, row)
               /\ i \in DOMAIN rows \/ i = lastId + 1
               /\ lastId' = IF i > lastId THEN i ELSE lastId
      <4>1. PICK row \in Row : row.who \in people \cup {NULL} /\ rows' = With(rows, i, row)
        BY <3>2
      <4>2. lastId' \in 0..MaxId /\ lastId' \in Nat /\ lastId <= lastId' /\ i \in 1..lastId'
        BY <1>2, <1>3, <3>2 DEF Ids
      <4>3. rows \in UNION {[ids -> Row] : ids \in SUBSET (1..lastId')}
        BY <1>2, <4>2, ListWidens
      <4>4. rows' \in UNION {[ids -> Row] : ids \in SUBSET (1..lastId')}
        BY <4>1, <4>2, <4>3, WithList
      <4>5. \A k \in DOMAIN rows' : rows'[k].who \in people \cup {NULL}
        BY <1>2, <4>1 DEF With
      <4>6. UNCHANGED people
        BY <1>5 DEF OthersChange
      <4>7. QED
        BY <1>2, <1>4, <1>5, <4>2, <4>4, <4>5, <4>6 DEF ServerOK
    <3>3. QED
      BY <1>5, <3>1, <3>2 DEF OthersChange
  <2>2. ListsOK' /\ LoadsOK' /\ ActsOK'
    BY <1>1, <1>5, ListsKept, LoadsKept, ActsKept DEF OthersChange
  <2>3. PageOK'
    BY <1>1, <1>5 DEF OthersChange, PageOK, selection, dialog
  <2>4. QED
    BY <2>1, <2>2, <2>3, TypeParts, PTL
<1>6. ASSUME NEW p \in Persons, PeopleChange(p) PROVE TypeOK'
  <2>1. /\ people' \subseteq Persons
        /\ \A k \in DOMAIN rows : rows[k].who \in people' \cup {NULL}
    <3>1. CASE p \in people
      <4>1. people' = people \ {p} /\ \A k \in DOMAIN rows : rows[k].who # p
        BY <1>6, <3>1 DEF PeopleChange
      <4>2. QED
        BY <1>2, <4>1
    <3>2. CASE p \notin people
      <4>1. people' = people \cup {p}
        BY <1>6, <3>2 DEF PeopleChange
      <4>2. QED
        BY <1>2, <4>1
    <3>3. QED
      BY <3>1, <3>2
  <2>2. UNCHANGED <<rows, lastId>>
    BY <1>6 DEF PeopleChange
  <2>3. ServerOK'
    BY <1>1, <1>4, <1>6, <2>1, <2>2 DEF ServerOK
  <2>4. LoadsOK'
    BY <1>1, <1>6, PeopleLoads DEF LoadsOK, PeopleChange
  <2>5. ListsOK' /\ ActsOK'
    BY <1>1, <1>6, ListsKept, ActsKept DEF PeopleChange
  <2>6. PageOK'
    BY <1>1, <1>6 DEF PeopleChange, PageOK, selection, dialog
  <2>7. QED
    BY <2>3, <2>4, <2>5, <2>6, TypeParts, PTL
<1>7. QED
  BY <1>5, <1>6

\* The steps that leave the requests alone, and those that send one.
SendStep ==
  \E left \in SUBSET (Ids \cup {0}), to \in Statuses \cup {"gone", "saved", "sync"},
     who \in Persons \cup {NULL}, isBatch \in BOOLEAN :
    /\ Sends(left, to, who, isBatch)
    /\ left # {} => to # "sync"
    /\ 0 \in left => to = "saved"

LEMMA UserActs ==
  ASSUME TypeOK, User
  PROVE  UNCHANGED <<act, acted>> \/ SendStep
<1>1. PageOK /\ ListsOK
  BY TypeParts
<1>2. ASSUME NEW i \in Ids, Click(i) PROVE SendStep
  <2>1. PICK to \in Offered(tasks[i].status) : Sends({i}, to, NULL, FALSE)
    BY <1>2 DEF Click
  <2>2. tasks[i].status \in Statuses
    BY <1>1, <1>2, ListParts DEF ListsOK, Lists, Click, Card, Row
  <2>3. to \in Statuses \cup {"gone"} /\ {i} \in SUBSET (Ids \cup {0}) /\ 0 \notin {i}
    BY <2>1, <2>2, PageAssumption DEF Offered, Statuses, Ids
  <2>4. QED
    BY <2>1, <2>3 DEF SendStep, Statuses
<1>3. ASSUME NEW who \in Persons \cup {NULL}, Submit(who) PROVE SendStep
  <2>1. {form} \in SUBSET (Ids \cup {0}) /\ Sends({form}, "saved", who, FALSE)
    BY <1>1, <1>3 DEF Submit, PageOK
  <2>2. QED
    BY <2>1 DEF SendStep
<1>4. CASE ConfirmBatchDelete
  <2>1. selected \in SUBSET (Ids \cup {0}) /\ 0 \notin selected
    BY <1>1, PageAssumption DEF PageOK, Ids
  <2>2. QED
    BY <1>4, <2>1 DEF SendStep, ConfirmBatchDelete
<1>5. CASE Sync
  <2>1. Sends({}, "sync", NULL, FALSE) /\ {} \in SUBSET (Ids \cup {0})
    BY <1>5 DEF Sync
  <2>2. QED
    BY <2>1 DEF SendStep
<1>6. QED
  BY <1>2, <1>3, <1>4, <1>5
  DEF User, Choose, EnterBatch, ToggleSelect, OpenForm, CloseForm, ToggleSelectAll, CancelBatch,
      AskConfirm, CloseConfirm

LEMMA ActSteps ==
  ASSUME TypeOK, [Next]_vars
  PROVE  \/ UNCHANGED <<act, acted>>
         \/ SendStep
         \/ \E a \in Acts : Requesting(a)
<1>1. CASE UNCHANGED vars
  BY <1>1 DEF vars
<1>2. ASSUME NEW l \in Loads, Loading(l) PROVE UNCHANGED <<act, acted>>
  BY <1>2 DEF Loading, ReadTasks, ReadPeople, Loaded, LoadFails
<1>3. ASSUME NEW i \in Ids, OthersChange(i) PROVE UNCHANGED <<act, acted>>
  BY <1>3 DEF OthersChange
<1>4. ASSUME NEW p \in Persons, PeopleChange(p) PROVE UNCHANGED <<act, acted>>
  BY <1>4 DEF PeopleChange
<1>5. QED
  BY <1>1, <1>2, <1>3, <1>4, UserActs DEF Next

LEMMA LeftStep ==
  ASSUME TypeOK, LeftOK, [Next]_vars
  PROVE  LeftOK'
<1>1. ActsOK /\ filter \in Filters
  BY TypeParts DEF PageOK
<1>2. CASE UNCHANGED <<act, acted>>
  BY <1>2 DEF LeftOK
<1>3. CASE SendStep
  <2>1. PICK left \in SUBSET (Ids \cup {0}), to \in Statuses \cup {"gone", "saved", "sync"},
             who \in Persons \cup {NULL}, isBatch \in BOOLEAN :
               /\ Sends(left, to, who, isBatch)
               /\ left # {} => to # "sync"
               /\ 0 \in left => to = "saved"
    BY <1>3 DEF SendStep
  <2>2. /\ act'[acted'].left = left /\ act'[acted'].to = to
        /\ \A b \in Acts \ {acted'} : act'[b] = act[b]
    BY <1>1, <2>1, SendsNew
  <2>3. QED
    BY <2>1, <2>2 DEF LeftOK
<1>4. ASSUME NEW a \in Acts, Requesting(a) PROVE LeftOK'
  BY <1>4, RequestStep DEF LeftOK
<1>5. QED
  BY <1>2, <1>3, <1>4, ActSteps

LEMMA TypeStep ==
  ASSUME TypeOK, LeftOK, [Next]_vars
  PROVE  TypeOK'
<1>1. CASE UNCHANGED vars
  BY <1>1 DEF TypeOK, vars, server, lists, selection, dialog
<1>2. ASSUME User PROVE TypeOK'
  BY <1>2, SelectionTyped, SendingTyped DEF User
<1>3. QED
  BY <1>1, <1>2, LoadingTyped, RequestTyped, OthersTyped DEF Next

\* Type correctness, and that a request has nothing left to do but what it does.
THEOREM TypeCorrect == Spec => [](TypeOK /\ LeftOK)
<1>1. Init => TypeOK /\ LeftOK
  BY TypeInit DEF Init, LeftOK, NewAct
<1>2. TypeOK /\ LeftOK /\ [Next]_vars => TypeOK' /\ LeftOK'
  BY TypeStep, LeftStep
<1>3. QED
  BY <1>1, <1>2, PTL DEF Spec

-----------------------------------------------------------------------------
(* What steps do to loads.                                                  *)

LEMMA AsksFields ==
  ASSUME LoadsOK, NEW f \in Filters \cup {NULL}, NEW set, Asks(f, set)
  PROVE  /\ asked' = asked + 1 /\ asked' \in Loads
         /\ \A l \in Loads \ {asked'} : load'[l] = load[l]
         /\ load'[asked'].tasks = NULL /\ load'[asked'].people = NULL
         /\ load'[asked'].missed = {} /\ load'[asked'].filter = f
         /\ ~load'[asked'].stale => f = set
<1> DEFINE q == [NewLoad EXCEPT !.step = "open", !.filter = f, !.stale = (f # set)]
<1>1. /\ asked' = asked + 1 /\ asked' \in Loads /\ load' \in [Loads -> LoadRecord]
      /\ load' = [load EXCEPT ![asked'] = q]
  BY AsksTyped
<1>2. /\ q.tasks = NULL /\ q.people = NULL /\ q.missed = {} /\ q.filter = f
      /\ ~q.stale => f = set
  BY DEF NewLoad
<1> HIDE DEF q
<1>3. load'[asked'] = q /\ \A l \in Loads \ {asked'} : load'[l] = load[l]
  BY <1>1 DEF LoadsOK
<1>4. QED
  BY <1>1, <1>2, <1>3

LEMMA EndedFields ==
  ASSUME LoadsOK, NEW l \in Loads, Ended(l)
  PROVE  /\ \A k \in Loads \ {l} : load'[k] = load[k]
         /\ load'[l].step = "over" /\ load'[l].tasks = NULL /\ load'[l].missed = {}
         /\ load'[l].filter = load[l].filter /\ load'[l].stale = load[l].stale
<1> DEFINE q == [NewLoad EXCEPT !.step = "over", !.filter = load[l].filter, !.stale = load[l].stale]
<1>1. load' = [load EXCEPT ![l] = q]
  BY EndedTyped
<1>2. /\ q.step = "over" /\ q.tasks = NULL /\ q.missed = {}
      /\ q.filter = load[l].filter /\ q.stale = load[l].stale
  BY DEF NewLoad
<1> HIDE DEF q
<1>3. load'[l] = q /\ \A k \in Loads \ {l} : load'[k] = load[k]
  BY <1>1 DEF LoadsOK
<1>4. QED
  BY <1>2, <1>3

\* The server's answer with the tasks, and with the people.
LEMMA TasksRead ==
  ASSUME TypeOK, NEW l \in Loads, ReadTasks(l)
  PROVE  /\ \A k \in Loads \ {l} : load'[k] = load[k]
         /\ load'[l].step = load[l].step /\ load'[l].filter = load[l].filter
         /\ load'[l].people = load[l].people /\ load'[l].missed = load[l].missed
         /\ load'[l].stale = load[l].stale /\ load'[l].torn = load[l].torn
         /\ DOMAIN load'[l].tasks \subseteq DOMAIN rows
         /\ \A i \in DOMAIN load'[l].tasks :
              /\ load'[l].tasks[i] = rows[i]
              /\ load[l].filter = "all" \/ rows[i].status = load[l].filter
<1> DEFINE f == load[l].filter
           some == {i \in DOMAIN rows : f = "all" \/ rows[i].status = f}
           list == Kept(rows, some)
           q == [load[l] EXCEPT !.tasks = list]
<1>1. load[l] \in LoadRecord /\ load \in [Loads -> LoadRecord] 
  BY TypeParts DEF LoadsOK
<1>2. load' = [load EXCEPT ![l] = q]
  BY DEF ReadTasks
<1>3. /\ DOMAIN list \subseteq DOMAIN rows
      /\ \A i \in DOMAIN list : list[i] = rows[i] /\ (f = "all" \/ rows[i].status = f)
  BY DEF Kept
<1> HIDE DEF list
<1>4. /\ q.step = load[l].step /\ q.filter = load[l].filter
      /\ q.people = load[l].people /\ q.missed = load[l].missed
      /\ q.stale = load[l].stale /\ q.torn = load[l].torn /\ q.tasks = list
  BY <1>1 DEF LoadRecord
<1> HIDE DEF q
<1>5. load'[l] = q /\ \A k \in Loads \ {l} : load'[k] = load[k]
  BY <1>1, <1>2
<1>6. QED
  BY <1>3, <1>4, <1>5

LEMMA PeopleRead ==
  ASSUME TypeOK, NEW l \in Loads, ReadPeople(l)
  PROVE  /\ \A k \in Loads \ {l} : load'[k] = load[k]
         /\ load'[l].step = load[l].step /\ load'[l].filter = load[l].filter
         /\ load'[l].tasks = load[l].tasks /\ load'[l].missed = load[l].missed
         /\ load'[l].stale = load[l].stale /\ load'[l].torn = load[l].torn
         /\ load'[l].people = people
<1> DEFINE q == [load[l] EXCEPT !.people = people]
<1>1. load[l] \in LoadRecord /\ load \in [Loads -> LoadRecord]
  BY TypeParts DEF LoadsOK
<1>2. load' = [load EXCEPT ![l] = q]
  BY DEF ReadPeople
<1>3. /\ q.step = load[l].step /\ q.filter = load[l].filter
      /\ q.tasks = load[l].tasks /\ q.missed = load[l].missed
      /\ q.stale = load[l].stale /\ q.torn = load[l].torn /\ q.people = people
  BY <1>1 DEF LoadRecord
<1> HIDE DEF q
<1>4. load'[l] = q /\ \A k \in Loads \ {l} : load'[k] = load[k]
  BY <1>1, <1>2
<1>5. QED
  BY <1>3, <1>4

\* What the server changes is missed by the loads that have their tasks already.
LEMMA ServeLoads ==
  ASSUME TypeOK, NEW a \in Acts, NEW i \in Ids \cup {0}, Serve(a, i)
  PROVE  \A l \in Loads :
           /\ load'[l].step = load[l].step /\ load'[l].filter = load[l].filter
           /\ load'[l].tasks = load[l].tasks /\ load'[l].people = load[l].people
           /\ load'[l].stale = load[l].stale /\ load'[l].torn = load[l].torn
           /\ load'[l].missed =
                IF l \in Open /\ load[l].tasks # NULL
                THEN load[l].missed \cup {IF i = 0 THEN lastId + 1 ELSE i} ELSE load[l].missed
<1> DEFINE j == IF i = 0 THEN lastId + 1 ELSE i
<1>1. \A l \in Loads : load[l] \in LoadRecord
  BY TypeParts DEF LoadsOK
<1>2. load' = [l \in Loads |-> IF l \in Open /\ load[l].tasks # NULL
                               THEN [load[l] EXCEPT !.missed = @ \cup {j}] ELSE load[l]]
  BY DEF Serve
<1> HIDE DEF j
<1>3. SUFFICES ASSUME NEW l \in Loads
      PROVE  /\ load'[l].step = load[l].step /\ load'[l].filter = load[l].filter
             /\ load'[l].tasks = load[l].tasks /\ load'[l].people = load[l].people
             /\ load'[l].stale = load[l].stale /\ load'[l].torn = load[l].torn
             /\ load'[l].missed = IF l \in Open /\ load[l].tasks # NULL
                                  THEN load[l].missed \cup {j} ELSE load[l].missed
  BY DEF j
<1>4. CASE l \in Open /\ load[l].tasks # NULL
  <2>1. load'[l] = [load[l] EXCEPT !.missed = @ \cup {j}]
    BY <1>2, <1>4
  <2>2. QED
    BY <1>1, <1>4, <2>1 DEF LoadRecord
<1>5. CASE ~(l \in Open /\ load[l].tasks # NULL)
  <2>1. load'[l] = load[l]
    BY <1>2, <1>5
  <2>2. QED
    BY <1>5, <2>1
<1>6. QED
  BY <1>4, <1>5

\* A step that ends, asks for and reads no load leaves of each what counts here.
LoadsStay ==
  /\ UNCHANGED <<asked, last, filter, error, tasks, known, torn>>
  /\ \A l \in Loads :
       /\ load'[l].step = load[l].step /\ load'[l].filter = load[l].filter
       /\ load'[l].tasks = load[l].tasks /\ load'[l].people = load[l].people
       /\ load'[l].stale = load[l].stale
       /\ ~load'[l].torn =>
            /\ ~load[l].torn
            /\ people' = people \/ ~(l \in Open /\ (load[l].tasks = NULL) # (load[l].people = NULL))

LEMMA LoadSteps ==
  ASSUME TypeOK, [Next]_vars
  PROVE  \/ LoadsStay
         \/ \E f \in Filters \cup {NULL} :
              Asks(f, filter') /\ UNCHANGED <<last, tasks, known, torn, people>>
         \/ \E l \in Loads : Loading(l)
<1>1. PageOK /\ LoadsOK /\ ActsOK
  BY TypeParts
<1>2. ASSUME UNCHANGED <<load, asked, last, filter, error, tasks, known, torn, people>>
      PROVE  LoadsStay
  BY <1>2 DEF LoadsStay
<1>3. ASSUME NEW f \in Filters, NEW w \in Windows, Choose(f, w)
      PROVE  \/ LoadsStay
             \/ \E g \in Filters \cup {NULL} :
                  Asks(g, filter') /\ UNCHANGED <<last, tasks, known, torn, people>>
  <2>1. CASE f = filter
    <3>1. UNCHANGED <<load, asked, last, filter, error, tasks, known, torn, people>>
      BY <1>3, <2>1 DEF Choose, lists, server
    <3>2. QED
      BY <1>2, <3>1
  <2>2. CASE f # filter
    BY <1>3, <2>2 DEF Choose, lists, server
  <2>3. QED
    BY <2>1, <2>2
<1>4. CASE User
  <2>1. CASE \E f \in Filters, w \in Windows : Choose(f, w)
    BY <1>3, <2>1
  <2>2. CASE ~\E f \in Filters, w \in Windows : Choose(f, w)
    <3>1. UNCHANGED <<load, asked, last, filter, error, tasks, known, torn, people>>
      BY <1>4, <2>2
      DEF User, EnterBatch, ToggleSelect, Click, OpenForm, Submit, CloseForm, ToggleSelectAll,
          CancelBatch, AskConfirm, CloseConfirm, ConfirmBatchDelete, Sync, lists, server
    <3>2. QED
      BY <1>2, <3>1
  <2>3. QED
    BY <2>1, <2>2
<1>5. ASSUME NEW a \in Acts, Requesting(a)
      PROVE  \/ LoadsStay
             \/ \E f \in Filters \cup {NULL} :
                  Asks(f, filter') /\ UNCHANGED <<last, tasks, known, torn, people>>
  <2>1. ASSUME NEW i \in Ids \cup {0}, Serve(a, i) PROVE LoadsStay
    <3>1. UNCHANGED <<asked, last, filter, error, tasks, known, torn, people>>
      BY <2>1 DEF Serve
    <3>2. QED
      BY <2>1, <3>1, ServeLoads DEF LoadsStay
  <2>2. ASSUME NEW i \in Ids \cup {0}, Refuse(a, i) \/ GiveUp(a) PROVE LoadsStay
    <3>1. UNCHANGED <<load, asked, last, filter, error, tasks, known, torn, people>>
      BY <2>2 DEF Refuse, GiveUp, lists, server
    <3>2. QED
      BY <1>2, <3>1
  <2>3. CASE Answer(a)
    <3>1. act[a].filter \in Filters \cup {NULL}
      BY <1>1 DEF ActsOK, ActRecord
    <3>2. Asks(act[a].filter, filter') /\ UNCHANGED <<last, tasks, known, torn, people>>
      BY <2>3 DEF Answer, lists, server
    <3>3. QED
      BY <3>1, <3>2
  <2>4. QED
    BY <1>5, <2>1, <2>2, <2>3 DEF Requesting
<1>6. ASSUME NEW i \in Ids, OthersChange(i) PROVE LoadsStay
  <2>1. UNCHANGED <<load, asked, last, filter, error, tasks, known, torn, people>>
    BY <1>6 DEF OthersChange, lists
  <2>2. QED
    BY <1>2, <2>1
<1>7. ASSUME NEW p \in Persons, PeopleChange(p) PROVE LoadsStay
  <2>1. UNCHANGED <<asked, last, filter, error, tasks, known, torn>>
    BY <1>7 DEF PeopleChange, lists
  <2>2. QED
    BY <1>7, <2>1, PeopleLoads DEF LoadsStay
<1>8. CASE UNCHANGED vars
  BY <1>2, <1>8 DEF vars, lists, server
<1>9. QED
  BY <1>4, <1>5, <1>6, <1>7, <1>8 DEF Next

-----------------------------------------------------------------------------
(* The filter.                                                              *)

Passes(f, list) == \A i \in DOMAIN list : f \in {"all", list[i].status}

\* Loads are numbered as they are asked; what one has read passes its filter, and so
\* does what the page shows once the last load is the last that ended.
LoadInv ==
  /\ last <= asked
  /\ \A l \in Open : l <= asked
  /\ \A l \in Open : load[l].tasks # NULL => Passes(load[l].filter, load[l].tasks)
  /\ ~load[asked].stale => load[asked].filter = filter
  /\ InOrder => Passes(load[asked].filter, tasks)

LEMMA LoadInvInit == Init => LoadInv
<1> SUFFICES ASSUME Init PROVE LoadInv
  OBVIOUS
<1>1. /\ asked = 1 /\ last = 0 /\ filter = "pending" /\ 1 \in Loads
      /\ load = [l \in Loads |-> IF l = 1 THEN [NewLoad EXCEPT !.step = "open", !.filter = "pending"]
                                         ELSE NewLoad]
  BY PageAssumption DEF Init, Loads
<1>2. \A l \in Loads : load[l].tasks = NULL /\ (load[l].step = "open" => l = 1)
  BY <1>1 DEF NewLoad
<1>3. load[1].filter = "pending"
  BY <1>1 DEF NewLoad
<1>4. QED
  BY <1>1, <1>2, <1>3 DEF LoadInv, Open, InOrder

LEMMA LoadInvStep ==
  ASSUME TypeOK, LoadInv, [Next]_vars
  PROVE  LoadInv'
<1>1. /\ LoadsOK /\ asked \in Nat /\ asked \in Loads /\ last \in Nat /\ Loads \subseteq Nat
      /\ \A l \in Loads : load[l] \in LoadRecord
  BY TypeParts, PageAssumption DEF LoadsOK, Loads
<1>2. CASE LoadsStay
  <2>1. \A l \in Loads : /\ load'[l].step = load[l].step /\ load'[l].filter = load[l].filter
                         /\ load'[l].tasks = load[l].tasks /\ load'[l].stale = load[l].stale
    BY <1>2 DEF LoadsStay
  <2>2. UNCHANGED <<asked, last, filter, error, tasks>>
    BY <1>2 DEF LoadsStay
  <2>3. Open' = Open
    BY <2>1 DEF Open
  <2>4. QED
    BY <1>1, <2>1, <2>2, <2>3 DEF LoadInv, InOrder, Open
<1>3. ASSUME NEW f \in Filters \cup {NULL}, Asks(f, filter') /\ UNCHANGED <<last, tasks>>
      PROVE  LoadInv'
  <2>1. /\ asked' = asked + 1 /\ asked' \in Loads
        /\ \A l \in Loads \ {asked'} : load'[l] = load[l]
        /\ load'[asked'].tasks = NULL /\ load'[asked'].filter = f
        /\ ~load'[asked'].stale => f = filter'
    BY <1>1, <1>3, AsksFields
  <2>2. last' # asked' /\ last' <= asked'
    BY <1>1, <1>3, <2>1 DEF LoadInv
  <2>3. \A l \in Open' : l = asked' \/ (l \in Open /\ load'[l] = load[l])
    BY <2>1 DEF Open
  <2>4. \A l \in Open' : l <= asked'
    BY <1>1, <2>1, <2>3 DEF LoadInv, Open
  <2>5. \A l \in Open' : load'[l].tasks # NULL => Passes(load'[l].filter, load'[l].tasks)
    BY <2>1, <2>3 DEF LoadInv
  <2>6. QED
    BY <2>1, <2>2, <2>4, <2>5 DEF LoadInv, InOrder
<1>4. ASSUME NEW l \in Loads, ReadTasks(l) PROVE LoadInv'
  <2>1. UNCHANGED <<asked, last, filter, error, tasks>> /\ l \in Open
    BY <1>4 DEF ReadTasks, lists
  <2>2. \A k \in Loads : /\ load'[k].step = load[k].step /\ load'[k].filter = load[k].filter
                         /\ load'[k].stale = load[k].stale
                         /\ k # l => load'[k].tasks = load[k].tasks
    BY <1>4, TasksRead
  <2>3. Passes(load'[l].filter, load'[l].tasks)
    <3>1. load'[l].filter = load[l].filter /\ \A i \in DOMAIN load'[l].tasks :
             load'[l].tasks[i] = rows[i] /\ (load[l].filter = "all" \/ rows[i].status = load[l].filter)
      BY <1>4, TasksRead
    <3>2. QED
      BY <3>1 DEF Passes
  <2>4. Open' = Open
    BY <2>2 DEF Open
  <2>5. QED
    BY <1>1, <2>1, <2>2, <2>3, <2>4 DEF LoadInv, InOrder, Open
<1>5. ASSUME NEW l \in Loads, ReadPeople(l) PROVE LoadInv'
  <2>1. UNCHANGED <<asked, last, filter, error, tasks>>
    BY <1>5 DEF ReadPeople, lists
  <2>2. \A k \in Loads : /\ load'[k].step = load[k].step /\ load'[k].filter = load[k].filter
                         /\ load'[k].stale = load[k].stale /\ load'[k].tasks = load[k].tasks
    BY <1>5, PeopleRead
  <2>3. Open' = Open
    BY <2>2 DEF Open
  <2>4. QED
    BY <1>1, <2>1, <2>2, <2>3 DEF LoadInv, InOrder, Open
<1>6. ASSUME NEW l \in Loads, Loaded(l) \/ LoadFails(l) PROVE LoadInv'
  <2>1. /\ l \in Open /\ last' = l /\ UNCHANGED <<asked, filter>>
        /\ \A k \in Loads \ {l} : load'[k] = load[k]
        /\ load'[l].step = "over"
        /\ load'[l].filter = load[l].filter /\ load'[l].stale = load[l].stale
    <3>1. Ended(l)
      BY <1>6 DEF Loaded, LoadFails
    <3>2. QED
      BY <1>1, <1>6, <3>1, EndedFields DEF Loaded, LoadFails, Ended, Shows
  <2>2. \A k \in Open' : k \in Open /\ load'[k] = load[k]
    BY <2>1 DEF Open
  <2>3. l <= asked
    BY <2>1 DEF LoadInv
  <2>4. ~load'[asked'].stale => load'[asked'].filter = filter'
    BY <1>1, <2>1 DEF LoadInv
  <2>5. InOrder' => Passes(load'[asked'].filter, tasks')
    <3>1. SUFFICES ASSUME InOrder' PROVE Passes(load'[asked'].filter, tasks')
      OBVIOUS
    <3>2. l = asked /\ ~error'
      BY <2>1, <3>1 DEF InOrder
    <3>3. tasks' = load[l].tasks /\ load[l].tasks # NULL
      BY <1>6, <3>2 DEF Loaded, LoadFails, Shows
    <3>4. QED
      BY <2>1, <3>2, <3>3 DEF LoadInv
  <2>6. QED
    BY <2>1, <2>2, <2>3, <2>4, <2>5 DEF LoadInv
<1>7. QED
  BY <1>2, <1>3, <1>4, <1>5, <1>6, LoadSteps DEF Loading

\* load: for any number of loads and requests under way, what the page shows passes its
\* filter once the load that was asked last is the one that ended last.
THEOREM FilterCorrect == Spec => []FilterShown
<1>1. LoadInv => FilterShown
  BY DEF LoadInv, FilterShown, Filtered, Passes
<1>2. Init => LoadInv
  BY LoadInvInit
<1>3. TypeOK /\ LoadInv /\ [Next]_vars => LoadInv'
  BY LoadInvStep
<1>4. QED
  BY <1>1, <1>2, <1>3, TypeCorrect, PTL DEF Spec

-----------------------------------------------------------------------------
(* The selection.                                                           *)

LEMMA SelectionStep ==
  ASSUME SelectionListed, [Next]_vars
  PROVE  SelectionListed'
<1>1. CASE UNCHANGED <<tasks, selected, batch>>
  BY <1>1 DEF SelectionListed
<1>2. ASSUME User PROVE SelectionListed'
  <2>1. CASE \E i \in Ids : EnterBatch(i)
    BY <2>1 DEF SelectionListed, EnterBatch, Card, lists
  <2>2. CASE \E i \in Ids : ToggleSelect(i)
    BY <2>2 DEF SelectionListed, ToggleSelect, Card, lists
  <2>3. CASE ToggleSelectAll \/ CancelBatch
    BY <2>3 DEF SelectionListed, ToggleSelectAll, CancelBatch, lists
  <2>4. CASE \/ \E f \in Filters, w \in Windows : Choose(f, w)
             \/ \E i \in Ids : Click(i)
             \/ \E i \in Ids \cup {0} : OpenForm(i)
             \/ \E who \in Persons \cup {NULL} : Submit(who)
             \/ CloseForm \/ AskConfirm \/ CloseConfirm \/ ConfirmBatchDelete \/ Sync
    <3>1. UNCHANGED <<tasks, selected, batch>>
      BY <2>4
      DEF Choose, Click, OpenForm, Submit, CloseForm, AskConfirm, CloseConfirm,
          ConfirmBatchDelete, Sync, lists, selection
    <3>2. QED
      BY <1>1, <3>1
  <2>5. QED
    BY <1>2, <2>1, <2>2, <2>3, <2>4 DEF User
<1>3. ASSUME NEW l \in Loads, Loading(l) PROVE SelectionListed'
  <2>1. CASE Loaded(l)
    BY <2>1 DEF Loaded, SelectionListed
  <2>2. CASE ~Loaded(l)
    <3>1. UNCHANGED <<tasks, selected, batch>>
      BY <1>3, <2>2 DEF Loading, ReadTasks, ReadPeople, LoadFails, lists, selection
    <3>2. QED
      BY <1>1, <3>1
  <2>3. QED
    BY <2>1, <2>2
<1>4. ASSUME NEW a \in Acts, Requesting(a) PROVE UNCHANGED <<tasks, selected, batch>>
  BY <1>4 DEF Requesting, Serve, Refuse, Answer, GiveUp, lists, selection
<1>5. ASSUME \/ \E i \in Ids : OthersChange(i)
             \/ \E p \in Persons : PeopleChange(p)
             \/ UNCHANGED vars
      PROVE  UNCHANGED <<tasks, selected, batch>>
  BY <1>5 DEF OthersChange, PeopleChange, vars, lists, selection
<1>6. QED
  BY <1>1, <1>2, <1>3, <1>4, <1>5 DEF Next

\* toggleSelect, toggleSelectAll, load: whatever loads come and go between the clicks,
\* only tasks of the list are selected, and none outside the batch mode.
THEOREM SelectionCorrect == Spec => []SelectionListed
<1>1. Init => SelectionListed
  BY DEF Init, SelectionListed
<1>2. SelectionListed /\ [Next]_vars => SelectionListed'
  BY SelectionStep
<1>3. QED
  BY <1>1, <1>2, PTL DEF Spec

-----------------------------------------------------------------------------
(* The headings.                                                            *)

\* The people that the tasks of a list refer to are those read with it, or, while
\* these are still to be read, those there are.
Refers(list, them) == \A i \in DOMAIN list : list[i].who \in them \cup {NULL}

PeopleInv ==
  /\ ~torn => Refers(tasks, known)
  /\ \A l \in Open : ~load[l].torn =>
       /\ load[l].tasks # NULL /\ load[l].people = NULL => Refers(load[l].tasks, people)
       /\ load[l].tasks = NULL /\ load[l].people # NULL => load[l].people = people
       /\ load[l].tasks # NULL /\ load[l].people # NULL => Refers(load[l].tasks, load[l].people)

LEMMA PeopleInvInit == Init => PeopleInv
<1> SUFFICES ASSUME Init PROVE PeopleInv
  OBVIOUS
<1>1. \A l \in Loads : load[l].tasks = NULL /\ load[l].people = NULL
  BY DEF Init, NewLoad
<1>2. DOMAIN tasks = {}
  BY DEF Init, Kept
<1>3. QED
  BY <1>1, <1>2 DEF PeopleInv, Open, Refers

LEMMA PeopleInvStep ==
  ASSUME TypeOK, PeopleInv, [Next]_vars
  PROVE  PeopleInv'
<1>1. LoadsOK /\ \A i \in DOMAIN rows : rows[i].who \in people \cup {NULL}
  BY TypeParts DEF ServerOK
<1>2. CASE LoadsStay
  <2>1. \A l \in Loads :
          /\ load'[l].step = load[l].step
          /\ load'[l].tasks = load[l].tasks /\ load'[l].people = load[l].people
          /\ ~load'[l].torn =>
               /\ ~load[l].torn
               /\ people' = people \/ ~(l \in Open /\ (load[l].tasks = NULL) # (load[l].people = NULL))
    BY <1>2 DEF LoadsStay
  <2>2. UNCHANGED <<tasks, known, torn>> /\ Open' = Open
    BY <1>2 DEF LoadsStay, Open
  <2>3. QED
    BY <2>1, <2>2 DEF PeopleInv, Open
<1>3. ASSUME NEW f \in Filters \cup {NULL},
             Asks(f, filter') /\ UNCHANGED <<last, tasks, known, torn, people>>
      PROVE  PeopleInv'
  <2>1. /\ \A l \in Loads \ {asked'} : load'[l] = load[l]
        /\ load'[asked'].tasks = NULL /\ load'[asked'].people = NULL
    BY <1>1, <1>3, AsksFields
  <2>2. \A l \in Open' : l = asked' \/ (l \in Open /\ load'[l] = load[l])
    BY <2>1 DEF Open
  <2>3. QED
    BY <1>3, <2>1, <2>2 DEF PeopleInv
<1>4. ASSUME NEW l \in Loads, ReadTasks(l) PROVE PeopleInv'
  <2>1. UNCHANGED <<tasks, known, torn, people>> /\ l \in Open /\ load[l].tasks = NULL
    BY <1>4 DEF ReadTasks, lists, server
  <2>2. /\ \A k \in Loads \ {l} : load'[k] = load[k]
        /\ load'[l].step = load[l].step
        /\ load'[l].people = load[l].people /\ load'[l].torn = load[l].torn
    BY <1>4, TasksRead
  <2>3. Refers(load'[l].tasks, people)
    BY <1>1, <1>4, TasksRead DEF Refers
  <2>4. Open' = Open
    BY <2>2 DEF Open
  <2>5. ASSUME NEW k \in Open, ~load'[k].torn
        PROVE  /\ load'[k].tasks # NULL /\ load'[k].people = NULL => Refers(load'[k].tasks, people)
               /\ load'[k].tasks = NULL /\ load'[k].people # NULL => load'[k].people = people
               /\ load'[k].tasks # NULL /\ load'[k].people # NULL =>
                    Refers(load'[k].tasks, load'[k].people)
    <3>1. CASE k = l
      BY <2>1, <2>2, <2>3, <2>5, <3>1 DEF PeopleInv
    <3>2. CASE k # l
      BY <2>1, <2>2, <2>5, <3>2 DEF PeopleInv, Open
    <3>3. QED
      BY <3>1, <3>2
  <2>6. QED
    BY <2>1, <2>4, <2>5 DEF PeopleInv
<1>5. ASSUME NEW l \in Loads, ReadPeople(l) PROVE PeopleInv'
  <2>1. UNCHANGED <<tasks, known, torn, people>> /\ l \in Open /\ load[l].people = NULL
    BY <1>5 DEF ReadPeople, lists, server
  <2>2. /\ \A k \in Loads \ {l} : load'[k] = load[k]
        /\ load'[l].step = load[l].step /\ load'[l].tasks = load[l].tasks
        /\ load'[l].people = people /\ load'[l].torn = load[l].torn
    BY <1>5, PeopleRead
  <2>3. Open' = Open
    BY <2>2 DEF Open
  <2>4. ASSUME NEW k \in Open, ~load'[k].torn
        PROVE  /\ load'[k].tasks # NULL /\ load'[k].people = NULL => Refers(load'[k].tasks, people)
               /\ load'[k].tasks = NULL /\ load'[k].people # NULL => load'[k].people = people
               /\ load'[k].tasks # NULL /\ load'[k].people # NULL =>
                    Refers(load'[k].tasks, load'[k].people)
    <3>1. CASE k = l
      BY <2>1, <2>2, <2>4, <3>1 DEF PeopleInv
    <3>2. CASE k # l
      BY <2>1, <2>2, <2>4, <3>2 DEF PeopleInv, Open
    <3>3. QED
      BY <3>1, <3>2
  <2>5. QED
    BY <2>1, <2>3, <2>4 DEF PeopleInv
<1>6. ASSUME NEW l \in Loads, Loaded(l) \/ LoadFails(l) PROVE PeopleInv'
  <2>1. /\ l \in Open /\ UNCHANGED people
        /\ \A k \in Loads \ {l} : load'[k] = load[k]
        /\ load'[l].step = "over"
    <3>1. Ended(l)
      BY <1>6 DEF Loaded, LoadFails
    <3>2. QED
      BY <1>1, <1>6, <3>1, EndedFields DEF Loaded, LoadFails, Shows, server
  <2>2. \A k \in Open' : k \in Open /\ load'[k] = load[k]
    BY <2>1 DEF Open
  <2>3. ~torn' => Refers(tasks', known')
    <3>1. CASE Loaded(l)
      BY <2>1, <3>1 DEF Loaded, Shows, PeopleInv
    <3>2. CASE LoadFails(l)
      BY <3>2 DEF LoadFails, lists, PeopleInv
    <3>3. QED
      BY <1>6, <3>1, <3>2
  <2>4. QED
    BY <2>1, <2>2, <2>3 DEF PeopleInv
<1>7. QED
  BY <1>2, <1>3, <1>4, <1>5, <1>6, LoadSteps DEF Loading

\* The two answers of a load: however they are interleaved with other people's changes
\* and other loads, every task shown has exactly one heading, unless the people
\* changed between the answers or two of them share a name.
THEOREM GroupedCorrect == Spec => []GroupedOnce
<1>1. ASSUME TypeOK, PeopleInv PROVE GroupedOnce
  <2>1. SUFFICES ASSUME NEW i \in DOMAIN tasks, ~torn
        PROVE  \/ \E p \in known \cup {NULL} : Sections(i) = {p}
               \/ \E p, q \in known : p # q /\ Name[p] = Name[q]
    BY DEF GroupedOnce
  <2>2. CASE tasks[i].who = NULL
    BY <2>2 DEF Sections
  <2>3. CASE tasks[i].who # NULL
    <3>1. tasks[i].who \in known
      BY <1>1, <2>1, <2>3 DEF PeopleInv, Refers
    <3>2. CASE Sections(i) = {tasks[i].who}
      BY <3>1, <3>2
    <3>3. CASE Sections(i) # {tasks[i].who}
      <4>1. Sections(i) = {p \in known : Name[p] = Name[tasks[i].who]}
        BY <2>3 DEF Sections
      <4>2. PICK p \in known : p # tasks[i].who /\ Name[p] = Name[tasks[i].who]
        BY <3>1, <3>3, <4>1
      <4>3. QED
        BY <3>1, <4>2
    <3>4. QED
      BY <3>2, <3>3
  <2>4. QED
    BY <2>2, <2>3
<1>2. Init => PeopleInv
  BY PeopleInvInit
<1>3. TypeOK /\ PeopleInv /\ [Next]_vars => PeopleInv'
  BY PeopleInvStep
<1>4. TypeOK /\ PeopleInv => GroupedOnce
  BY <1>1
<1>5. QED
  BY <1>2, <1>3, <1>4, TypeCorrect, PTL DEF Spec

-----------------------------------------------------------------------------
(* The page's own changes.                                                  *)

\* A change that a list lacks is of a request that is yet to have the page load.
Owed(ids) == \A j \in ids \ lapsed : \E a \in Acts : act[a].step = "sent" /\ j \in act[a].done

OwnInv ==
  /\ \A l \in Loads : load[l].tasks = NULL => load[l].missed = {}
  /\ \A a \in Acts : act[a].left # {} => act[a].step # "none"
  /\ \A a \in Acts : act[a].step # "none" => a <= acted
  /\ InOrder => Owed(unseen)
  /\ asked \in Open /\ load[asked].tasks # NULL => Owed(load[asked].missed)

LEMMA ServeAct ==
  ASSUME TypeOK, NEW a \in Acts, NEW i \in Ids \cup {0}, Serve(a, i)
  PROVE  /\ act'[a].step = act[a].step /\ act'[a].left \subseteq act[a].left
         /\ act'[a].done = act[a].done \cup {IF i = 0 THEN lastId + 1 ELSE i}
         /\ act'[a].batch = act[a].batch
<1> DEFINE j == IF i = 0 THEN lastId + 1 ELSE i
           r(lost) == [act[a] EXCEPT !.left = @ \ {i}, !.done = @ \cup {j}, !.failed = @ \/ lost]
<1>1. act \in [Acts -> ActRecord] /\ act[a] \in ActRecord
  BY TypeParts DEF ActsOK
<1>2. PICK lost \in (IF Faults THEN BOOLEAN ELSE {FALSE}) :
         act' = [act EXCEPT ![a].left = @ \ {i}, ![a].done = @ \cup {j}, ![a].failed = @ \/ lost]
  BY DEF Serve
<1> HIDE DEF j
<1>3. act'[a] = r(lost)
  BY <1>1, <1>2
<1>4. /\ r(lost).step = act[a].step /\ r(lost).left \subseteq act[a].left
      /\ r(lost).done = act[a].done \cup {j} /\ r(lost).batch = act[a].batch
  BY <1>1 DEF ActRecord
<1>5. QED
  BY <1>3, <1>4 DEF j

LEMMA RefuseAct ==
  ASSUME TypeOK, NEW a \in Acts, NEW i \in Ids \cup {0}, Refuse(a, i)
  PROVE  act'[a].step = act[a].step /\ act'[a].done = act[a].done /\ act'[a].batch = act[a].batch
<1> DEFINE r == [act[a] EXCEPT !.left = @ \ {i}, !.failed = TRUE]
<1>1. act \in [Acts -> ActRecord] /\ act[a] \in ActRecord
  BY TypeParts DEF ActsOK
<1>2. act'[a] = r
  BY <1>1 DEF Refuse
<1>3. r.step = act[a].step /\ r.done = act[a].done /\ r.batch = act[a].batch
  BY <1>1 DEF ActRecord
<1>4. QED
  BY <1>2, <1>3

LEMMA OverAct ==
  ASSUME TypeOK, NEW a \in Acts, Answer(a) \/ GiveUp(a)
  PROVE  act'[a].step = "over"
<1>1. act \in [Acts -> ActRecord] /\ act[a] \in ActRecord
  BY TypeParts DEF ActsOK
<1>2. act' = [act EXCEPT ![a].step = "over"]
  BY DEF Answer, GiveUp
<1>3. act'[a] = [act[a] EXCEPT !.step = "over"]
  BY <1>1, <1>2
<1>4. QED
  BY <1>1, <1>3 DEF ActRecord

\* What is owed stays so while requests are only sent, and lists and loads stay.
ListsStay ==
  /\ UNCHANGED <<asked, last, error, unseen, lapsed>>
  /\ \A l \in Loads : /\ load'[l].step = load[l].step /\ load'[l].tasks = load[l].tasks
                      /\ load'[l].missed = load[l].missed

LEMMA OwnInvLists ==
  ASSUME TypeOK, OwnInv, ListsStay, UNCHANGED <<act, acted>> \/ SendStep
  PROVE  OwnInv'
<1>1. /\ ActsOK /\ acted \in Nat /\ Acts \subseteq Nat /\ asked \in Loads
      /\ \A a \in Acts : act[a] \in ActRecord
  BY TypeParts, PageAssumption DEF ActsOK, LoadsOK, Acts
<1>2. Open' = Open
  BY DEF ListsStay, Open
<1>3. /\ acted' \in Nat /\ acted <= acted'
      /\ \A a \in Acts : \/ act'[a] = act[a]
                         \/ a = acted' /\ acted' = acted + 1 /\ act'[a].step = "sent"
  <2>1. CASE UNCHANGED <<act, acted>>
    BY <1>1, <2>1
  <2>2. CASE SendStep
    <3>1. PICK left, to, who, isBatch : Sends(left, to, who, isBatch)
      BY <2>2 DEF SendStep
    <3>2. /\ acted' = acted + 1 /\ acted' \in Acts /\ act'[acted'].step = "sent"
          /\ \A b \in Acts \ {acted'} : act'[b] = act[b]
      BY <1>1, <3>1, SendsNew
    <3>3. QED
      BY <1>1, <3>2
  <2>3. QED
    BY <2>1, <2>2
<1>4. ASSUME NEW a \in Acts, act[a].step = "sent" PROVE act'[a] = act[a]
  <2>1. a <= acted
    BY <1>4 DEF OwnInv
  <2>2. QED
    BY <1>1, <1>3, <2>1
<1>5. \A ids : Owed(ids) => Owed(ids)'
  BY <1>4 DEF Owed, ListsStay
<1>6. ASSUME NEW a \in Acts
      PROVE  /\ act'[a].left # {} => act'[a].step # "none"
             /\ act'[a].step # "none" => a <= acted'
  <2>1. CASE act'[a] = act[a]
    BY <1>1, <1>3, <2>1 DEF OwnInv
  <2>2. CASE a = acted' /\ act'[a].step = "sent"
    BY <1>3, <2>2
  <2>3. QED
    BY <1>3, <2>1, <2>2
<1>7. \A l \in Loads : load'[l].tasks = NULL => load'[l].missed = {}
  BY DEF OwnInv, ListsStay
<1>8. QED
  BY <1>1, <1>2, <1>5, <1>6, <1>7 DEF OwnInv, ListsStay, InOrder

LEMMA OwnInvInit == Init => OwnInv
<1> SUFFICES ASSUME Init PROVE OwnInv
  OBVIOUS
<1>1. \A l \in Loads : load[l].tasks = NULL /\ load[l].missed = {}
  BY DEF Init, NewLoad
<1>2. \A a \in Acts : act[a].step = "none" /\ act[a].left = {}
  BY DEF Init, NewAct
<1>3. asked \in Loads /\ unseen = {}
  BY PageAssumption DEF Init, Loads
<1>4. QED
  BY <1>1, <1>2, <1>3 DEF OwnInv, Owed

\* A load that is asked for has read nothing yet, and the list shown is not its own.
LEMMA OwnInvAsks ==
  ASSUME TypeOK, LoadInv, OwnInv, NEW f \in Filters \cup {NULL}, NEW set, Asks(f, set),
         UNCHANGED <<last, acted>>,
         \A a \in Acts : act'[a] = act[a] \/ (act'[a].step = "over" /\ act[a].step = "sent")
  PROVE  OwnInv'
<1>1. /\ LoadsOK /\ asked \in Nat /\ last \in Nat
  BY TypeParts, PageAssumption DEF LoadsOK, Loads
<1>2. /\ asked' = asked + 1 /\ asked' \in Loads
      /\ \A l \in Loads \ {asked'} : load'[l] = load[l]
      /\ load'[asked'].tasks = NULL /\ load'[asked'].missed = {}
  BY <1>1, AsksFields
<1>3. ~InOrder'
  BY <1>1, <1>2 DEF LoadInv, InOrder
<1>4. \A l \in Loads : load'[l].tasks = NULL => load'[l].missed = {}
  BY <1>2 DEF OwnInv
<1>5. \A a \in Acts : /\ act'[a].left # {} => act'[a].step # "none"
                      /\ act'[a].step # "none" => a <= acted'
  BY DEF OwnInv
<1>6. QED
  BY <1>2, <1>3, <1>4, <1>5 DEF OwnInv

LEMMA OwnInvLoading ==
  ASSUME TypeOK, OwnInv, NEW l \in Loads, Loading(l)
  PROVE  OwnInv'
<1>1. LoadsOK /\ asked \in Loads /\ UNCHANGED <<act, acted, asked, lapsed>>
  BY TypeParts DEF LoadsOK, Loading, ReadTasks, ReadPeople, Loaded, LoadFails, Shows, lists
<1>2. \A ids : Owed(ids)' <=> Owed(ids)
  BY <1>1 DEF Owed
<1>3. \A a \in Acts : /\ act'[a].left # {} => act'[a].step # "none"
                      /\ act'[a].step # "none" => a <= acted'
  BY <1>1 DEF OwnInv
<1>4. CASE ReadTasks(l)
  <2>1. UNCHANGED <<last, error, unseen>> /\ load[l].tasks = NULL
    BY <1>4 DEF ReadTasks, lists
  <2>2. /\ \A k \in Loads \ {l} : load'[k] = load[k]
        /\ load'[l].missed = load[l].missed
    BY <1>4, TasksRead
  <2>3. load'[l].missed = {}
    BY <2>1, <2>2 DEF OwnInv
  <2>4. Owed({})
    BY DEF Owed
  <2>5. asked' \in Open' /\ load'[asked'].tasks # NULL => Owed(load'[asked'].missed)
    BY <1>1, <2>2, <2>3, <2>4 DEF OwnInv, Open
  <2>6. QED
    BY <1>1, <1>2, <1>3, <2>1, <2>2, <2>3, <2>5 DEF OwnInv, InOrder
<1>5. CASE ReadPeople(l)
  <2>1. UNCHANGED <<last, error, unseen>>
    BY <1>5 DEF ReadPeople, lists
  <2>2. \A k \in Loads : /\ load'[k].step = load[k].step /\ load'[k].tasks = load[k].tasks
                         /\ load'[k].missed = load[k].missed
    BY <1>5, PeopleRead
  <2>3. Open' = Open
    BY <2>2 DEF Open
  <2>4. QED
    BY <1>1, <1>2, <1>3, <2>1, <2>2, <2>3 DEF OwnInv, InOrder
<1>6. CASE Loaded(l) \/ LoadFails(l)
  <2>1. /\ l \in Open /\ last' = l
        /\ \A k \in Loads \ {l} : load'[k] = load[k]
        /\ load'[l].step = "over" /\ load'[l].missed = {}
    <3>1. Ended(l)
      BY <1>6 DEF Loaded, LoadFails
    <3>2. QED
      BY <1>1, <1>6, <3>1, EndedFields DEF Loaded, LoadFails, Ended, Shows
  <2>2. asked' \in Open' /\ load'[asked'].tasks # NULL => Owed(load'[asked'].missed)
    BY <1>1, <2>1 DEF OwnInv, Open
  <2>3. InOrder' => Owed(unseen')
    <3>1. SUFFICES ASSUME InOrder' PROVE Owed(unseen')
      OBVIOUS
    <3>2. l = asked /\ ~error'
      BY <1>1, <2>1, <3>1 DEF InOrder
    <3>3. unseen' = load[l].missed /\ load[l].tasks # NULL
      BY <1>6, <3>2 DEF Loaded, LoadFails, Shows
    <3>4. QED
      BY <2>1, <3>2, <3>3 DEF OwnInv
  <2>4. \A k \in Loads : load'[k].tasks = NULL => load'[k].missed = {}
    BY <2>1 DEF OwnInv
  <2>5. QED
    BY <1>1, <1>2, <1>3, <2>2, <2>3, <2>4 DEF OwnInv
<1>7. QED
  BY <1>4, <1>5, <1>6 DEF Loading

LEMMA OwnInvRequest ==
  ASSUME TypeOK, LoadInv, OwnInv, NEW a \in Acts, Requesting(a)
  PROVE  OwnInv'
<1>1. /\ ActsOK /\ LoadsOK /\ asked \in Loads
      /\ \A b \in Acts \ {a} : act'[b] = act[b]
      /\ act'[a].left \subseteq act[a].left
      /\ UNCHANGED acted
  BY TypeParts, RequestStep DEF LoadsOK, Requesting, Serve, Refuse, Answer, GiveUp
<1>2. CASE Answer(a)
  <2>1. \A b \in Acts : act'[b] = act[b] \/ (act'[b].step = "over" /\ act[b].step = "sent")
    BY <1>1, <1>2, OverAct DEF Answer
  <2>2. act[a].filter \in Filters \cup {NULL}
    BY <1>1 DEF ActsOK, ActRecord
  <2>3. Asks(act[a].filter, filter) /\ UNCHANGED last
    BY <1>2 DEF Answer
  <2>4. QED
    BY <1>1, <2>1, <2>2, <2>3, OwnInvAsks
<1>3. ASSUME NEW i \in Ids \cup {0}, Serve(a, i) PROVE OwnInv'
  <2>0. PICK j : j = IF i = 0 THEN lastId + 1 ELSE i
    OBVIOUS
  <2>1. /\ i \in act[a].left /\ unseen' = unseen \cup {j}
        /\ lapsed' = IF act[a].step = "over" THEN lapsed \cup {j} ELSE lapsed \ {j}
        /\ UNCHANGED <<asked, last, error>>
    BY <1>3, <2>0 DEF Serve
  <2>2. act'[a].step = act[a].step /\ act'[a].done = act[a].done \cup {j}
    BY <1>3, <2>0, ServeAct
  <2>3. \A l \in Loads : /\ load'[l].step = load[l].step /\ load'[l].tasks = load[l].tasks
                         /\ load'[l].missed = IF l \in Open /\ load[l].tasks # NULL
                                              THEN load[l].missed \cup {j} ELSE load[l].missed
    BY <1>3, <2>0, ServeLoads
  <2>4. act[a] \in ActRecord /\ act[a].step \in {"sent", "over"}
    BY <1>1, <2>1 DEF OwnInv, ActsOK, ActRecord
  <2>5. \A b \in Acts : act[b].step = "sent" => act'[b].step = "sent" /\ act[b].done \subseteq act'[b].done
    BY <1>1, <2>2
  <2>6. ASSUME NEW ids, Owed(ids) PROVE Owed(ids \cup {j})'
    <3>1. SUFFICES ASSUME NEW k \in (ids \cup {j}) \ lapsed'
          PROVE  \E b \in Acts : act'[b].step = "sent" /\ k \in act'[b].done
      BY DEF Owed
    <3>2. CASE k = j
      BY <2>1, <2>2, <2>4, <3>1, <3>2
    <3>3. CASE k # j
      <4>1. k \in ids \ lapsed
        BY <2>1, <3>1, <3>3
      <4>2. QED
        BY <2>5, <2>6, <4>1 DEF Owed
    <3>4. QED
      BY <3>2, <3>3
  <2>7. Open' = Open
    BY <2>3 DEF Open
  <2>8. InOrder' => Owed(unseen)'
    BY <2>1, <2>6 DEF OwnInv, InOrder
  <2>9. asked' \in Open' /\ load'[asked'].tasks # NULL => Owed(load[asked].missed)'
    BY <1>1, <2>1, <2>3, <2>6, <2>7 DEF OwnInv
  <2>10. \A b \in Acts : /\ act'[b].left # {} => act'[b].step # "none"
                         /\ act'[b].step # "none" => b <= acted'
    BY <1>1, <2>2 DEF OwnInv
  <2>11. \A l \in Loads : load'[l].tasks = NULL => load'[l].missed = {}
    BY <2>3 DEF OwnInv
  <2>12. QED
    BY <2>1, <2>8, <2>9, <2>10, <2>11 DEF OwnInv
<1>4. ASSUME NEW i \in Ids \cup {0}, Refuse(a, i) PROVE OwnInv'
  <2>1. UNCHANGED <<load, asked, last, error, unseen, lapsed>>
    BY <1>4 DEF Refuse, lists
  <2>2. act'[a].step = act[a].step /\ act'[a].done = act[a].done
    BY <1>4, RefuseAct
  <2>3. \A b \in Acts : act'[b].step = act[b].step /\ act'[b].done = act[b].done
                        /\ act'[b].left \subseteq act[b].left
    BY <1>1, <2>2
  <2>4. \A ids : Owed(ids)' <=> Owed(ids)
    BY <2>1, <2>3 DEF Owed
  <2>5. QED
    BY <1>1, <2>1, <2>3, <2>4 DEF OwnInv, InOrder, Open
<1>5. CASE GiveUp(a)
  <2>1. UNCHANGED <<load, asked, last, error, unseen>> /\ lapsed' = lapsed \cup act[a].done
    BY <1>5 DEF GiveUp
  <2>2. act'[a].step = "over" /\ act[a].step = "sent"
    BY <1>5, OverAct DEF GiveUp
  <2>3. ASSUME NEW ids, Owed(ids) PROVE Owed(ids)'
    <3>1. SUFFICES ASSUME NEW k \in ids \ lapsed'
          PROVE  \E b \in Acts : act'[b].step = "sent" /\ k \in act'[b].done
      BY DEF Owed
    <3>2. PICK b \in Acts : act[b].step = "sent" /\ k \in act[b].done
      BY <2>1, <2>3, <3>1 DEF Owed
    <3>3. b # a
      BY <2>1, <3>1, <3>2
    <3>4. QED
      BY <1>1, <3>2, <3>3
  <2>4. \A b \in Acts : /\ act'[b].left # {} => act'[b].step # "none"
                        /\ act'[b].step # "none" => b <= acted'
    BY <1>1, <2>2 DEF OwnInv
  <2>5. QED
    BY <1>1, <2>1, <2>3, <2>4 DEF OwnInv, InOrder, Open
<1>6. QED
  BY <1>2, <1>3, <1>4, <1>5 DEF Requesting

LEMMA OwnInvStep ==
  ASSUME TypeOK, LoadInv, OwnInv, [Next]_vars
  PROVE  OwnInv'
<1>1. ASSUME UNCHANGED <<load, asked, last, error, unseen, lapsed>>,
             UNCHANGED <<act, acted>> \/ SendStep
      PROVE  OwnInv'
  <2>1. ListsStay
    BY <1>1 DEF ListsStay
  <2>2. QED
    BY <1>1, <2>1, OwnInvLists
<1>2. CASE UNCHANGED vars
  BY <1>1, <1>2 DEF vars, lists
<1>3. ASSUME NEW f \in Filters, NEW w \in Windows, Choose(f, w) PROVE OwnInv'
  <2>1. UNCHANGED <<act, acted, last, unseen, lapsed>>
    BY <1>3 DEF Choose, lists
  <2>2. CASE f = filter
    <3>1. UNCHANGED <<load, asked, error>>
      BY <1>3, <2>2 DEF Choose
    <3>2. QED
      BY <1>1, <2>1, <3>1
  <2>3. CASE f # filter
    <3>1. Asks(f, f)
      BY <1>3, <2>3 DEF Choose
    <3>2. QED
      BY <2>1, <3>1, OwnInvAsks
  <2>4. QED
    BY <2>2, <2>3
<1>4. ASSUME User PROVE OwnInv'
  <2>1. CASE \E f \in Filters, w \in Windows : Choose(f, w)
    BY <1>3, <2>1
  <2>2. CASE ~\E f \in Filters, w \in Windows : Choose(f, w)
    <3>1. UNCHANGED <<load, asked, last, error, unseen, lapsed>>
      BY <1>4, <2>2
      DEF User, EnterBatch, ToggleSelect, Click, OpenForm, Submit, CloseForm, ToggleSelectAll,
          CancelBatch, AskConfirm, CloseConfirm, ConfirmBatchDelete, Sync, lists
    <3>2. UNCHANGED <<act, acted>> \/ SendStep
      BY <1>4, UserActs
    <3>3. QED
      BY <1>1, <3>1, <3>2
  <2>3. QED
    BY <2>1, <2>2
<1>5. ASSUME NEW i \in Ids, OthersChange(i) PROVE OwnInv'
  BY <1>1, <1>5 DEF OthersChange, lists
<1>6. ASSUME NEW p \in Persons, PeopleChange(p) PROVE OwnInv'
  <2>1. ListsStay /\ UNCHANGED <<act, acted>>
    BY <1>6, PeopleLoads DEF ListsStay, PeopleChange, lists
  <2>2. QED
    BY <2>1, OwnInvLists
<1>7. QED
  BY <1>2, <1>4, <1>5, <1>6, OwnInvLoading, OwnInvRequest DEF Next

\* onRefresh, onDone, confirmBatchDelete: for any number of requests and loads, however
\* they are answered, once none is under way and the last load ended last, the list on
\* the page was read after everything the user changed, but for requests that failed.
THEOREM OwnChangesCorrect == Spec => []OwnChangesShown
<1>1. OwnInv => OwnChangesShown
  BY DEF OwnInv, OwnChangesShown, Owed, Running
<1>2. Init => LoadInv /\ OwnInv
  BY LoadInvInit, OwnInvInit
<1>3. TypeOK /\ LoadInv /\ OwnInv /\ [Next]_vars => LoadInv' /\ OwnInv'
  BY LoadInvStep, OwnInvStep
<1>4. QED
  BY <1>1, <1>2, <1>3, TypeCorrect, PTL DEF Spec

-----------------------------------------------------------------------------
(* Signs that something is under way.                                       *)

LEMMA LoadingSteps ==
  ASSUME TypeOK, [Next]_vars
  PROVE  \/ UNCHANGED loading
         \/ \E f \in Filters \cup {NULL} : Asks(f, filter')
         \/ \E l \in Loads : Loading(l)
<1>1. ASSUME NEW f \in Filters, NEW w \in Windows, Choose(f, w)
      PROVE  UNCHANGED loading \/ \E g \in Filters \cup {NULL} : Asks(g, filter')
  BY <1>1 DEF Choose
<1>2. ASSUME User
      PROVE  UNCHANGED loading \/ \E g \in Filters \cup {NULL} : Asks(g, filter')
  BY <1>1, <1>2
  DEF User, EnterBatch, ToggleSelect, Click, OpenForm, Submit, CloseForm, ToggleSelectAll,
      CancelBatch, AskConfirm, CloseConfirm, ConfirmBatchDelete, Sync
<1>3. ASSUME NEW a \in Acts, Requesting(a)
      PROVE  UNCHANGED loading \/ \E g \in Filters \cup {NULL} : Asks(g, filter')
  <2>1. act[a].filter \in Filters \cup {NULL}
    BY TypeParts DEF ActsOK, ActRecord
  <2>2. CASE Answer(a)
    <3>1. Asks(act[a].filter, filter) /\ UNCHANGED filter
      BY <2>2 DEF Answer
    <3>2. QED
      BY <2>1, <3>1
  <2>3. CASE ~Answer(a)
    BY <1>3, <2>3 DEF Requesting, Serve, Refuse, GiveUp
  <2>4. QED
    BY <2>2, <2>3
<1>4. (\E i \in Ids : OthersChange(i)) \/ (\E p \in Persons : PeopleChange(p)) => UNCHANGED loading
  BY DEF OthersChange, PeopleChange
<1>5. CASE UNCHANGED vars
  BY <1>5 DEF vars
<1>6. QED
  BY <1>2, <1>3, <1>4, <1>5 DEF Next

LoadingBusy == loading => Open # {}

LEMMA LoadingBusyStep ==
  ASSUME TypeOK, LoadingBusy, [Next]_vars
  PROVE  LoadingBusy'
<1>1. LoadsOK
  BY TypeParts
<1>2. ASSUME NEW f \in Filters \cup {NULL}, Asks(f, filter') PROVE LoadingBusy'
  <2>1. /\ asked' \in Loads
        /\ load' = [load EXCEPT ![asked'] = [NewLoad EXCEPT !.step = "open", !.filter = f,
                                                            !.stale = (f # filter')]]
    BY <1>1, <1>2, AsksTyped
  <2>2. [NewLoad EXCEPT !.step = "open", !.filter = f, !.stale = (f # filter')].step = "open"
    BY DEF NewLoad
  <2>3. load'[asked'].step = "open"
    BY <1>1, <2>1, <2>2 DEF LoadsOK
  <2>4. QED
    BY <2>1, <2>3 DEF LoadingBusy, Open
<1>3. ASSUME NEW l \in Loads, Loading(l) PROVE LoadingBusy'
  <2>1. CASE Loaded(l) \/ LoadFails(l)
    <3>1. loading' = FALSE
      BY <2>1 DEF Loaded, LoadFails, Ended
    <3>2. QED
      BY <3>1 DEF LoadingBusy
  <2>2. CASE ReadTasks(l)
    <3>1. Open' = Open /\ UNCHANGED loading
      BY <2>2, TasksRead DEF Open, ReadTasks
    <3>2. QED
      BY <3>1 DEF LoadingBusy
  <2>3. CASE ReadPeople(l)
    <3>1. Open' = Open /\ UNCHANGED loading
      BY <2>3, PeopleRead DEF Open, ReadPeople
    <3>2. QED
      BY <3>1 DEF LoadingBusy
  <2>4. QED
    BY <1>3, <2>1, <2>2, <2>3 DEF Loading
<1>4. CASE LoadsStay /\ UNCHANGED loading
  <2>1. Open' = Open
    BY <1>4 DEF LoadsStay, Open
  <2>2. QED
    BY <1>4, <2>1 DEF LoadingBusy
<1>5. QED
  BY <1>2, <1>3, <1>4, LoadSteps, LoadingSteps

DeletingBusy == deleting => \E a \in Acts : act[a].batch /\ act[a].step = "sent"

LEMMA DeletingBusyStep ==
  ASSUME TypeOK, OwnInv, DeletingBusy, [Next]_vars
  PROVE  DeletingBusy'
<1>1. ActsOK /\ acted \in Nat /\ Acts \subseteq Nat
  BY TypeParts, PageAssumption DEF ActsOK, Acts
<1>2. CASE UNCHANGED <<act, deleting>>
  BY <1>2 DEF DeletingBusy
<1>3. CASE SendStep /\ UNCHANGED deleting
  <2>1. PICK left, to, who, isBatch : Sends(left, to, who, isBatch)
    BY <1>3 DEF SendStep
  <2>2. acted' = acted + 1 /\ \A b \in Acts \ {acted'} : act'[b] = act[b]
    BY <1>1, <2>1, SendsNew
  <2>3. \A b \in Acts : act[b].step = "sent" => b <= acted
    BY DEF OwnInv
  <2>4. \A b \in Acts : act[b].step = "sent" => act'[b] = act[b]
    BY <1>1, <2>2, <2>3
  <2>5. QED
    BY <1>3, <2>4 DEF DeletingBusy
<1>4. CASE ConfirmBatchDelete
  <2>1. Sends(selected, "gone", NULL, TRUE)
    BY <1>4 DEF ConfirmBatchDelete
  <2>2. acted' \in Acts /\ act'[acted'].step = "sent" /\ act'[acted'].batch = TRUE
    BY <1>1, <2>1, SendsNew
  <2>3. QED
    BY <2>2 DEF DeletingBusy
<1>5. ASSUME User, ~ConfirmBatchDelete PROVE DeletingBusy'
  <2>1. UNCHANGED deleting
    BY <1>5
    DEF User, Choose, EnterBatch, ToggleSelect, Click, OpenForm, Submit, CloseForm,
        ToggleSelectAll, CancelBatch, AskConfirm, CloseConfirm, Sync
  <2>2. QED
    BY <1>2, <1>3, <1>5, <2>1, UserActs
<1>6. ASSUME NEW a \in Acts, Requesting(a) PROVE DeletingBusy'
  <2>1. \A b \in Acts \ {a} : act'[b] = act[b]
    BY <1>6, RequestStep
  <2>2. CASE Answer(a) \/ GiveUp(a)
    <3>1. deleting' = (deleting /\ ~act[a].batch)
      BY <2>2 DEF Answer, GiveUp
    <3>2. SUFFICES ASSUME deleting, ~act[a].batch
          PROVE  \E b \in Acts : act'[b].batch /\ act'[b].step = "sent"
      BY <3>1 DEF DeletingBusy
    <3>3. PICK b \in Acts : act[b].batch /\ act[b].step = "sent"
      BY <3>2 DEF DeletingBusy
    <3>4. b # a
      BY <3>2, <3>3
    <3>5. QED
      BY <2>1, <3>3, <3>4
  <2>3. ASSUME NEW i \in Ids \cup {0}, Serve(a, i) \/ Refuse(a, i) PROVE DeletingBusy'
    <3>1. act'[a].step = act[a].step /\ act'[a].batch = act[a].batch
      BY <2>3, ServeAct, RefuseAct
    <3>2. \A b \in Acts : act'[b].step = act[b].step /\ act'[b].batch = act[b].batch
      BY <2>1, <3>1
    <3>3. UNCHANGED deleting
      BY <2>3 DEF Serve, Refuse
    <3>4. QED
      BY <3>2, <3>3 DEF DeletingBusy
  <2>4. QED
    BY <1>6, <2>2, <2>3 DEF Requesting
<1>7. ASSUME NEW l \in Loads, Loading(l) PROVE UNCHANGED <<act, deleting>>
  BY <1>7 DEF Loading, ReadTasks, ReadPeople, Loaded, LoadFails
<1>8. (\E i \in Ids : OthersChange(i)) \/ (\E p \in Persons : PeopleChange(p))
      => UNCHANGED <<act, deleting>>
  BY DEF OthersChange, PeopleChange
<1>9. CASE UNCHANGED vars
  BY <1>2, <1>9 DEF vars
<1>10. QED
  BY <1>2, <1>4, <1>5, <1>6, <1>7, <1>8, <1>9 DEF Next

\* load, confirmBatchDelete and their finally: for any number of loads and requests,
\* Loading... and the disabled Delete button show only while something is under way
\* that will take them back.
THEOREM BusyCorrect == Spec => []BusyTruthful
<1>1. LoadingBusy /\ DeletingBusy => BusyTruthful
  BY DEF LoadingBusy, DeletingBusy, BusyTruthful
<1>2. Init => LoadInv /\ OwnInv /\ LoadingBusy /\ DeletingBusy
  <2>1. Init => LoadInv /\ OwnInv
    BY LoadInvInit, OwnInvInit
  <2>2. Init => DeletingBusy
    BY DEF Init, DeletingBusy
  <2>3. Init => LoadingBusy
    <3>1. SUFFICES ASSUME Init PROVE load[1].step = "open" /\ 1 \in Loads
      BY DEF LoadingBusy, Open
    <3>2. 1 \in Loads /\ load[1] = [NewLoad EXCEPT !.step = "open", !.filter = "pending"]
      BY <3>1, PageAssumption DEF Init, Loads
    <3>3. QED
      BY <3>2 DEF NewLoad
  <2>4. QED
    BY <2>1, <2>2, <2>3
<1>3. TypeOK /\ LoadInv /\ OwnInv /\ LoadingBusy /\ DeletingBusy /\ [Next]_vars
      => LoadInv' /\ OwnInv' /\ LoadingBusy' /\ DeletingBusy'
  BY LoadInvStep, OwnInvStep, LoadingBusyStep, DeletingBusyStep
<1>4. QED
  BY <1>1, <1>2, <1>3, TypeCorrect, PTL DEF Spec

=============================================================================
