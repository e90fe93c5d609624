----------------------- MODULE WhatsAppSessionProofs -----------------------
(***************************************************************************)
(* Proofs about WhatsAppSession, for any number of clients, codes and       *)
(* troubles: its types; that a client a Disconnect stopped stays down; and  *)
(* that its QR channels are streams as QRStream has them. SessionRowProofs   *)
(* goes on from here; that a login is shown is liveness, and left to TLC.   *)
(***************************************************************************)
EXTENDS WhatsAppSession, TLAPS

LEMMA WriterKinds ==
  /\ \A c \in Clients : <<c, "reader">> \in Writers
  /\ \A c \in Clients, k \in Kinds : <<c, k>> \in Writers
  /\ <<0, "Disconnect">> \in Writers
BY DEF Writers

LEMMA FinalsOfKinds == \A k \in Kinds : FinalOf[k] \in Finals
BY DEF Kinds, FinalOf, Finals

\* Writing a column leaves the rest of an upsert to write.
LEMMA UpsertRest ==
  ASSUME NEW u \in Upserts, u # NULL, NEW col \in DOMAIN u
  PROVE  /\ [rest \in DOMAIN u \ {col} |-> u[rest]] \in Upserts
         /\ \/ col = "status" /\ u[col] \in Statuses
            \/ col = "qr" /\ u[col] \in QRs
<1> DEFINE v == [rest \in DOMAIN u \ {col} |-> u[rest]]
<1>1. CASE u = Nothing
  BY <1>1 DEF Nothing
<1>2. CASE u \in [status : Statuses]
  <2>1. col = "status" /\ u[col] \in Statuses /\ DOMAIN u \ {col} = {}
    BY <1>2
  <2>2. v = Nothing
    BY <2>1 DEF Nothing
  <2>3. QED
    BY <2>1, <2>2 DEF Upserts
<1>3. CASE u \in [qr : QRs]
  <2>1. col = "qr" /\ u[col] \in QRs /\ DOMAIN u \ {col} = {}
    BY <1>3
  <2>2. v = Nothing
    BY <2>1 DEF Nothing
  <2>3. QED
    BY <2>1, <2>2 DEF Upserts
<1>4. CASE u \in [status : Statuses, qr : QRs]
  <2>1. DOMAIN u = {"status", "qr"} /\ u["status"] \in Statuses /\ u["qr"] \in QRs
    BY <1>4
  <2>2. CASE col = "status"
    <3>1. DOMAIN u \ {col} = {"qr"}
      BY <2>1, <2>2
    <3>2. v = [qr |-> u["qr"]]
      BY <3>1
    <3>3. v \in [qr : QRs]
      BY <2>1, <3>2
    <3>4. QED
      BY <2>1, <2>2, <3>3 DEF Upserts
  <2>3. CASE col = "qr"
    <3>1. DOMAIN u \ {col} = {"status"}
      BY <2>1, <2>3
    <3>2. v = [status |-> u["status"]]
      BY <3>1
    <3>3. v \in [status : Statuses]
      BY <2>1, <3>2
    <3>4. QED
      BY <2>1, <2>3, <3>3 DEF Upserts
  <2>4. QED
    BY <2>1, <2>2, <2>3
<1>5. QED
  BY <1>1, <1>2, <1>3, <1>4 DEF Upserts

LEMMA FieldsTyped ==
  /\ Nothing \in Upserts /\ ConnectedFields \in Upserts
  /\ [status |-> "disconnected"] \in Upserts
  /\ \A item \in Items : ItemFields(item) \in Upserts
<1>1. Nothing \in Upserts /\ ConnectedFields \in Upserts /\ [status |-> "disconnected"] \in Upserts
  BY DEF Upserts, ConnectedFields, Statuses
<1>2. ASSUME NEW item \in Items PROVE ItemFields(item) \in Upserts
  <2>1. CASE item.event = "code"
    <3>1. item.code \in 1..NCodes
      BY <2>1 DEF Items, Finals
    <3>2. ItemFields(item) = [status |-> "pending_qr", qr |-> item.code]
      BY <2>1 DEF ItemFields
    <3>3. QED
      BY <3>1, <3>2 DEF Upserts, Statuses, QRs
  <2>2. CASE item.event = "success"
    BY <2>2 DEF ItemFields, Upserts, Statuses, QRs
  <2>3. CASE item.event \notin {"code", "success"}
    BY <2>3 DEF ItemFields, Upserts, Statuses, QRs
  <2>4. QED
    BY <2>1, <2>2, <2>3
<1>3. QED
  BY <1>1, <1>2

-----------------------------------------------------------------------------
ClientRecords ==
  [step : {"none", "installed", "running", "failed"}, byBoot : BOOLEAN, paired : BOOLEAN,
   link : {"down", "qr", "scanned", "paired", "up"}, expected : BOOLEAN,
   retry : {"no", "waiting", "going", "restart", "forced"},
   lost : BOOLEAN, stopped : BOOLEAN]

FlowRecords == [step : {"off", "live", "final", "ended"}, sent : Seq(Items), read : Nat]

\* TypeOK without the variables every step sets the same way.
CoreOK ==
  /\ row \in [status : Statuses, qr : QRs]
  /\ device \in BOOLEAN /\ wac \in 0..MaxClients
  /\ cli \in [Clients -> ClientRecords]
  /\ flow \in [Clients -> FlowRecords]
  /\ todo \in [Writers -> Upserts]
  /\ boot \in {"start", "connect", "done"} /\ troubles \in 0..MaxTroubles
  /\ cutShort \in BOOLEAN

LEMMA CoreType == TypeOK <=> CoreOK /\ excused \in BOOLEAN
BY DEF TypeOK, CoreOK, ClientRecords, FlowRecords

LEMMA AllIdleTyped == AllIdle \in [Writers -> Upserts]
<1> DEFINE f == [w \in Writers |-> IF w[2] \in Kinds THEN NULL ELSE Nothing]
<1>1. NULL \in Upserts /\ Nothing \in Upserts
  BY DEF Upserts
<1> HIDE DEF Upserts
<1>2. f \in [Writers -> Upserts]
  BY <1>1
<1>3. QED
  BY <1>2 DEF AllIdle

LEMMA TypeInit == Init => TypeOK
<1> SUFFICES ASSUME Init PROVE TypeOK
  OBVIOUS
<1>1. row \in [status : Statuses, qr : QRs]
  BY DEF Init, Statuses, QRs
<1>7. wac \in 0..MaxClients /\ troubles \in 0..MaxTroubles
  <2>1. wac = 0 /\ troubles = 0
    BY DEF Init
  <2>2. QED
    BY <2>1, SessionAssumption
<1>8. device \in BOOLEAN /\ excused \in BOOLEAN /\ cutShort \in BOOLEAN
  BY DEF Init
<1>2. cli \in [Clients -> ClientRecords]
  BY DEF Init, NewClient, ClientRecords
<1>3. flow \in [Clients -> FlowRecords]
  BY DEF Init, NewFlow, FlowRecords
<1>4. todo \in [Writers -> Upserts]
  BY AllIdleTyped DEF Init
<1>5. boot \in {"start", "connect", "done"}
  BY DEF Init
<1>6. QED
  BY <1>1, <1>2, <1>3, <1>4, <1>5, <1>7, <1>8 DEF TypeOK, ClientRecords, FlowRecords

\* The kinds of change an action makes to a client, a channel, an upsert.
LEMMA ClientChange ==
  ASSUME NEW f \in [Clients -> ClientRecords], NEW c \in Clients, NEW q \in ClientRecords
  PROVE  [f EXCEPT ![c] = q] \in [Clients -> ClientRecords]
OBVIOUS

LEMMA FlowChange ==
  ASSUME NEW f \in [Clients -> FlowRecords], NEW c \in Clients, NEW q \in FlowRecords
  PROVE  [f EXCEPT ![c] = q] \in [Clients -> FlowRecords]
OBVIOUS

LEMMA FireTyped ==
  ASSUME CoreOK, NEW c \in Clients, NEW k \in Kinds, NEW fields \in Upserts, Fire(c, k, fields)
  PROVE  todo' \in [Writers -> Upserts]
BY WriterKinds DEF Fire, CoreOK

LEMMA SendsTyped ==
  ASSUME CoreOK, NEW c \in Clients, NEW item \in Items, NEW step \in {"live", "final", "ended"},
         Sends(c, item, step)
  PROVE  flow' \in [Clients -> FlowRecords]
<1> DEFINE q == [flow[c] EXCEPT !.sent = Append(flow[c].sent, item), !.step = step]
<1>1. flow[c] \in FlowRecords
  BY DEF CoreOK
<1>2. Append(flow[c].sent, item) \in Seq(Items)
  BY <1>1 DEF FlowRecords
<1>3. q \in FlowRecords
  BY <1>1, <1>2 DEF FlowRecords
<1>4. flow' = [flow EXCEPT ![c] = q]
  BY DEF Sends
<1> HIDE DEF q
<1>5. QED
  BY <1>3, <1>4, FlowChange DEF CoreOK

LEMMA HungUpTyped ==
  ASSUME NEW client \in ClientRecords
  PROVE  HungUp(client) \in ClientRecords
BY DEF HungUp, ClientRecords

LEMMA TroubleTyped == troubles \in 0..MaxTroubles /\ Trouble => troubles' \in 0..MaxTroubles
BY SessionAssumption DEF Trouble

LEMMA ItemsTyped ==
  /\ \A f \in Finals : Event(f) \in Items
  /\ \A k \in 1..NCodes : Code(k) \in Items
BY DEF Event, Code, Items

LEMMA ConnectingTyped ==
  ASSUME CoreOK, NEW c \in Clients,
         Load(c, TRUE) \/ Load(c, FALSE) \/ Dial(c) \/ DialFails(c)
  PROVE  CoreOK'
<1>1. cli[c] \in ClientRecords /\ flow[c] \in FlowRecords
  BY DEF CoreOK
<1>2. ASSUME NEW byBoot \in BOOLEAN, Load(c, byBoot) PROVE CoreOK'
  <2> DEFINE q == [NewClient EXCEPT !.step = "installed", !.byBoot = byBoot, !.paired = device]
  <2>1. q \in ClientRecords
    BY DEF CoreOK, NewClient, ClientRecords
  <2>2. cli' = [cli EXCEPT ![c] = q]
    BY <1>2 DEF Load
  <2> HIDE DEF q
  <2>3. cli' \in [Clients -> ClientRecords]
    BY <2>1, <2>2, ClientChange DEF CoreOK
  <2>4. wac' \in 0..MaxClients /\ boot' \in {"start", "connect", "done"}
    BY <1>2, SessionAssumption DEF Load, CoreOK, Clients
  <2>5. QED
    BY <1>2, <2>3, <2>4 DEF Load, CoreOK
<1>3. CASE Dial(c)
  <2> DEFINE q == [cli[c] EXCEPT !.step = "running", !.expected = FALSE,
                                 !.link = IF cli[c].paired THEN "paired" ELSE "qr"]
             r == [flow[c] EXCEPT !.step = "live"]
  <2>1. q \in ClientRecords /\ r \in FlowRecords
    BY <1>1 DEF ClientRecords, FlowRecords
  <2>2. cli' = [cli EXCEPT ![c] = q]
    BY <1>3 DEF Dial
  <2>3. flow' = flow \/ flow' = [flow EXCEPT ![c] = r]
    BY <1>3 DEF Dial
  <2> HIDE DEF q, r
  <2>4. cli' \in [Clients -> ClientRecords] /\ flow' \in [Clients -> FlowRecords]
    BY <2>1, <2>2, <2>3, ClientChange, FlowChange DEF CoreOK
  <2>5. QED
    BY <1>3, <2>4 DEF Dial, CoreOK
<1>4. CASE DialFails(c)
  <2> DEFINE q == [cli[c] EXCEPT !.step = "failed"]
  <2>1. q \in ClientRecords
    BY <1>1 DEF ClientRecords
  <2>2. cli' = [cli EXCEPT ![c] = q]
    BY <1>4 DEF DialFails
  <2> HIDE DEF q
  <2>3. cli' \in [Clients -> ClientRecords]
    BY <2>1, <2>2, ClientChange DEF CoreOK
  <2>4. troubles' \in 0..MaxTroubles
    BY <1>4, TroubleTyped DEF DialFails, CoreOK
  <2>5. QED
    BY <1>4, <2>3, <2>4 DEF DialFails, CoreOK
<1>5. QED
  BY <1>2, <1>3, <1>4

LEMMA ServerTyped ==
  ASSUME CoreOK, NEW c \in Clients, Server(c)
  PROVE  CoreOK'
<1>1. cli[c] \in ClientRecords
  BY DEF CoreOK
<1>2. HungUp(cli[c]) \in ClientRecords
  BY <1>1, HungUpTyped
<1>3. ASSUME NEW q \in ClientRecords, cli' = [cli EXCEPT ![c] = q]
      PROVE  cli' \in [Clients -> ClientRecords]
  BY <1>3, ClientChange DEF CoreOK
<1>4. CASE Scan(c)
  <2> DEFINE q == [cli[c] EXCEPT !.link = "scanned", !.paired = TRUE, !.expected = TRUE]
  <2>1. q \in ClientRecords
    BY <1>1 DEF ClientRecords
  <2>2. cli' = [cli EXCEPT ![c] = q]
    BY <1>4 DEF Scan
  <2>3. todo' \in [Writers -> Upserts]
    BY <1>4, FireTyped, FieldsTyped DEF Scan, Kinds
  <2> HIDE DEF q
  <2>4. QED
    BY <1>3, <1>4, <2>1, <2>2, <2>3 DEF Scan, CoreOK
<1>5. CASE ScanFails(c)
  <2>1. cli' \in [Clients -> ClientRecords]
    BY <1>2, <1>3, <1>5 DEF ScanFails
  <2>2. todo' \in [Writers -> Upserts]
    BY <1>5, FireTyped, FieldsTyped DEF ScanFails, Kinds
  <2>3. troubles' \in 0..MaxTroubles
    BY <1>5, TroubleTyped DEF ScanFails, CoreOK
  <2>4. QED
    BY <1>5, <2>1, <2>2, <2>3 DEF ScanFails, CoreOK
<1>6. CASE Restart(c)
  <2> DEFINE q == [HungUp(cli[c]) EXCEPT !.retry = "restart"]
  <2>1. q \in ClientRecords
    BY <1>2 DEF ClientRecords
  <2>2. cli' = [cli EXCEPT ![c] = q]
    BY <1>6 DEF Restart
  <2> HIDE DEF q
  <2>3. QED
    BY <1>3, <1>6, <2>1, <2>2 DEF Restart, CoreOK
<1>7. CASE Login(c)
  <2> DEFINE q == [cli[c] EXCEPT !.link = "up"]
  <2>1. q \in ClientRecords
    BY <1>1 DEF ClientRecords
  <2>2. cli' = [cli EXCEPT ![c] = q]
    BY <1>7 DEF Login
  <2>3. todo' \in [Writers -> Upserts]
    BY <1>7, FireTyped, FieldsTyped DEF Login, Kinds
  <2> HIDE DEF q
  <2>4. QED
    BY <1>3, <1>7, <2>1, <2>2, <2>3 DEF Login, CoreOK
<1>8. CASE Replaced(c)
  BY <1>2, <1>3, <1>8 DEF Replaced, CoreOK
<1>9. CASE Drop(c)
  <2> DEFINE q == [cli[c] EXCEPT !.link = "down",
                                 !.retry = IF cli[c].paired THEN "waiting" ELSE "no"]
  <2>1. q \in ClientRecords
    BY <1>1 DEF ClientRecords
  <2>2. cli' = [cli EXCEPT ![c] = q]
    BY <1>9 DEF Drop
  <2>3. todo' \in [Writers -> Upserts]
    BY <1>9, FireTyped, FieldsTyped DEF Drop, Kinds
  <2>4. troubles' \in 0..MaxTroubles
    BY <1>9, TroubleTyped DEF Drop, CoreOK
  <2> HIDE DEF q
  <2>5. QED
    BY <1>3, <1>9, <2>1, <2>2, <2>3, <2>4 DEF Drop, CoreOK
<1>10. CASE LogOut(c)
  <2> DEFINE q == [HungUp(cli[c]) EXCEPT !.paired = FALSE]
  <2>1. q \in ClientRecords
    BY <1>2 DEF ClientRecords
  <2>2. cli' = [cli EXCEPT ![c] = q]
    BY <1>10 DEF LogOut
  <2>3. todo' \in [Writers -> Upserts]
    BY <1>10, FireTyped, FieldsTyped DEF LogOut, Kinds
  <2>4. troubles' \in 0..MaxTroubles
    BY <1>10, TroubleTyped DEF LogOut, CoreOK
  <2> HIDE DEF q
  <2>5. QED
    BY <1>3, <1>10, <2>1, <2>2, <2>3, <2>4 DEF LogOut, CoreOK
<1>11. CASE Retry(c)
  <2> DEFINE q == [cli[c] EXCEPT !.retry = IF cli[c].expected THEN "no" ELSE "going"]
  <2>1. q \in ClientRecords
    BY <1>1 DEF ClientRecords
  <2>2. cli' = [cli EXCEPT ![c] = q]
    BY <1>11 DEF Retry
  <2> HIDE DEF q
  <2>3. QED
    BY <1>3, <1>11, <2>1, <2>2 DEF Retry, CoreOK
<1>12. CASE Reconnect(c)
  <2> DEFINE q == [cli[c] EXCEPT !.retry = "no", !.link = "paired", !.expected = FALSE]
  <2>1. q \in ClientRecords
    BY <1>1 DEF ClientRecords
  <2>2. cli' = [cli EXCEPT ![c] = q]
    BY <1>12 DEF Reconnect
  <2> HIDE DEF q
  <2>3. QED
    BY <1>3, <1>12, <2>1, <2>2 DEF Reconnect, CoreOK
<1>13. CASE DropQuietly(c)
  <2> DEFINE q == [HungUp(cli[c]) EXCEPT !.lost = TRUE]
  <2>1. q \in ClientRecords
    BY <1>2 DEF ClientRecords
  <2>2. cli' = [cli EXCEPT ![c] = q]
    BY <1>13 DEF DropQuietly
  <2>3. troubles' \in 0..MaxTroubles
    BY <1>13, TroubleTyped DEF DropQuietly, CoreOK
  <2> HIDE DEF q
  <2>4. QED
    BY <1>3, <1>13, <2>1, <2>2, <2>3 DEF DropQuietly, CoreOK
<1>14. CASE KeepAliveFails(c)
  <2> DEFINE q == [HungUp(cli[c]) EXCEPT !.retry = "forced"]
  <2>1. q \in ClientRecords
    BY <1>2 DEF ClientRecords
  <2>2. cli' = [cli EXCEPT ![c] = q]
    BY <1>14 DEF KeepAliveFails
  <2>3. troubles' \in 0..MaxTroubles
    BY <1>14, TroubleTyped DEF KeepAliveFails, CoreOK
  <2> HIDE DEF q
  <2>4. QED
    BY <1>3, <1>14, <2>1, <2>2, <2>3 DEF KeepAliveFails, CoreOK
<1>15. CASE ForceRetry(c)
  <2> DEFINE q == [cli[c] EXCEPT !.expected = FALSE, !.lost = ~cli[c].paired,
                                 !.retry = IF cli[c].paired THEN "waiting" ELSE "no"]
  <2>1. q \in ClientRecords
    BY <1>1 DEF ClientRecords
  <2>2. cli' = [cli EXCEPT ![c] = q]
    BY <1>15 DEF ForceRetry
  <2> HIDE DEF q
  <2>3. QED
    BY <1>3, <1>15, <2>1, <2>2 DEF ForceRetry, CoreOK
<1>16. CASE ReconnectFails(c)
  <2> DEFINE q == [cli[c] EXCEPT !.expected = FALSE, !.lost = cli[c].retry = "restart",
                                 !.retry = IF cli[c].retry = "going" THEN "waiting" ELSE "no"]
  <2>1. q \in ClientRecords
    BY <1>1 DEF ClientRecords
  <2>2. cli' = [cli EXCEPT ![c] = q]
    BY <1>16 DEF ReconnectFails
  <2>3. troubles' \in 0..MaxTroubles
    BY <1>16, TroubleTyped DEF ReconnectFails, CoreOK
  <2> HIDE DEF q
  <2>4. QED
    BY <1>3, <1>16, <2>1, <2>2, <2>3 DEF ReconnectFails, CoreOK
<1>17. CASE Refused(c)
  <2> DEFINE q == [HungUp(cli[c]) EXCEPT !.lost = cli[c].paired]
  <2>1. q \in ClientRecords
    BY <1>1, <1>2 DEF ClientRecords
  <2>2. cli' = [cli EXCEPT ![c] = q]
    BY <1>17 DEF Refused
  <2>3. todo' \in [Writers -> Upserts]
    BY <1>17, FireTyped, FieldsTyped DEF Refused, Kinds
  <2>4. troubles' \in 0..MaxTroubles
    BY <1>17, TroubleTyped DEF Refused, CoreOK
  <2> HIDE DEF q
  <2>5. QED
    BY <1>3, <1>17, <2>1, <2>2, <2>3, <2>4 DEF Refused, CoreOK
<1>18. QED
  BY <1>4, <1>5, <1>6, <1>7, <1>8, <1>9, <1>10, <1>11, <1>12, <1>13, <1>14, <1>15, <1>16, <1>17
     DEF Server

LEMMA EmittingTyped ==
  ASSUME CoreOK, NEW c \in Clients, Emitting(c)
  PROVE  CoreOK'
<1>1. cli[c] \in ClientRecords /\ flow[c] \in FlowRecords
  BY DEF CoreOK
<1>2. HungUp(cli[c]) \in ClientRecords
  BY <1>1, HungUpTyped
<1>3. CASE EmitCode(c)
  <2>1. PICK k \in 1..NCodes : Sends(c, Code(k), flow[c].step)
    BY <1>3 DEF EmitCode
  <2>2. flow[c].step \in {"live", "final", "ended"}
    BY <1>3 DEF EmitCode, Live
  <2>3. flow' \in [Clients -> FlowRecords]
    BY <2>1, <2>2, SendsTyped, ItemsTyped
  <2>4. QED
    BY <1>3, <2>3 DEF EmitCode, CoreOK
<1>4. CASE RunOut(c)
  <2>1. Sends(c, Event("timeout"), "final") /\ "timeout" \in Finals
    BY <1>4 DEF RunOut, Finals
  <2>2. flow' \in [Clients -> FlowRecords]
    BY <2>1, SendsTyped, ItemsTyped
  <2>3. cli' \in [Clients -> ClientRecords]
    BY <1>2, <1>4, ClientChange DEF RunOut, CoreOK
  <2>4. QED
    BY <1>4, <2>2, <2>3 DEF RunOut, CoreOK
<1>5. ASSUME flow' = [flow EXCEPT ![c].step = "ended"]
      PROVE  flow' \in [Clients -> FlowRecords]
  <2> DEFINE q == [flow[c] EXCEPT !.step = "ended"]
  <2>1. q \in FlowRecords
    BY <1>1 DEF FlowRecords
  <2>2. flow' = [flow EXCEPT ![c] = q]
    BY <1>5
  <2> HIDE DEF q
  <2>3. QED
    BY <2>1, <2>2, FlowChange DEF CoreOK
<1>6. CASE CutOff(c)
  <2>1. cli' \in [Clients -> ClientRecords]
    BY <1>2, <1>6, ClientChange DEF CutOff, CoreOK
  <2>2. flow' \in [Clients -> FlowRecords]
    BY <1>5, <1>6 DEF CutOff
  <2>3. QED
    BY <1>6, <2>1, <2>2 DEF CutOff, CoreOK
<1>7. CASE CloseFlow(c)
  <2>1. flow' \in [Clients -> FlowRecords]
    BY <1>5, <1>7 DEF CloseFlow
  <2>2. QED
    BY <1>7, <2>1 DEF CloseFlow, CoreOK
<1>8. QED
  BY <1>3, <1>4, <1>6, <1>7 DEF Emitting

\* What is known of w for the goroutine w.
LEMMA WriterParts ==
  ASSUME NEW w \in Writers
  PROVE  \/ w[1] \in Clients /\ w[2] \in Kinds /\ w = <<w[1], w[2]>>
         \/ w[1] \in Clients /\ w[2] = "reader" /\ w = <<w[1], w[2]>>
         \/ w = <<0, "Disconnect">>
BY DEF Writers, Kinds

LEMMA WriteColumnTyped ==
  ASSUME CoreOK, NEW w \in Writers, WriteColumn(w)
  PROVE  CoreOK'
<1>1. PICK col \in DOMAIN todo[w] :
        /\ row' = [row EXCEPT ![col] = todo[w][col]]
        /\ todo' = [todo EXCEPT ![w] = [rest \in DOMAIN @ \ {col} |-> @[rest]]]
  BY DEF WriteColumn
<1> DEFINE u == todo[w]
           v == [rest \in DOMAIN u \ {col} |-> u[rest]]
<1>2. u \in Upserts /\ u # NULL
  BY DEF WriteColumn, CoreOK
<1>3. todo' = [todo EXCEPT ![w] = v]
  BY <1>1
<1>4. row' = [row EXCEPT ![col] = u[col]] /\ col \in DOMAIN u
  BY <1>1
<1> HIDE DEF u
<1>5. v \in Upserts
  BY <1>2, <1>4, UpsertRest
<1>6. \/ col = "status" /\ u[col] \in Statuses
      \/ col = "qr" /\ u[col] \in QRs
  BY <1>2, <1>4, UpsertRest
<1>7. row' \in [status : Statuses, qr : QRs]
  BY <1>4, <1>6 DEF CoreOK
<1> HIDE DEF v
<1>8. todo' \in [Writers -> Upserts]
  BY <1>3, <1>5 DEF CoreOK
<1>9. QED
  BY <1>7, <1>8 DEF WriteColumn, CoreOK

LEMMA WorkingTyped ==
  ASSUME CoreOK, NEW w \in Writers, Working(w)
  PROVE  CoreOK'
<1>1. CASE WriteColumn(w)
  BY <1>1, WriteColumnTyped
<1>2. CASE w[2] = "reader" /\ Take(w[1])
  <2> DEFINE c == w[1]
             item == flow[c].sent[flow[c].read + 1]
             q == [flow[c] EXCEPT !.read = @ + 1]
  <2>1. c \in Clients /\ <<c, "reader">> \in Writers
    BY <1>2, WriterParts, WriterKinds DEF Kinds
  <2>2. flow[c] \in FlowRecords
    BY <2>1 DEF CoreOK
  <2>3. item \in Items
    BY <1>2, <2>2 DEF Take, Unread, FlowRecords
  <2>4. q \in FlowRecords
    BY <2>2 DEF FlowRecords
  <2>5. /\ flow' = [flow EXCEPT ![c] = q]
        /\ todo' = [todo EXCEPT ![<<c, "reader">>] = ItemFields(item)]
    BY <1>2 DEF Take
  <2>6. ItemFields(item) \in Upserts
    BY <2>3, FieldsTyped
  <2>7. UNCHANGED <<row, device, wac, cli, boot, troubles, cutShort>>
    BY <1>2 DEF Take
  <2> HIDE DEF c, item, q
  <2>8. flow' \in [Clients -> FlowRecords]
    BY <2>1, <2>4, <2>5, FlowChange DEF CoreOK
  <2>9. todo' \in [Writers -> Upserts]
    BY <2>1, <2>5, <2>6 DEF CoreOK
  <2>10. QED
    BY <2>7, <2>8, <2>9 DEF CoreOK
<1>3. CASE w[2] \in Kinds /\ EndFlow(w[1], w[2])
  <2> DEFINE c == w[1]
             k == w[2]
  <2>1. c \in Clients /\ k \in Kinds /\ <<c, k>> \in Writers
    BY <1>3, WriterParts, WriterKinds DEF Kinds
  <2>2. FinalOf[k] \in Finals
    BY <2>1, FinalsOfKinds
  <2>3. EndFlow(c, k)
    BY <1>3
  <2> HIDE DEF c, k
  <2>4. CASE flow[c].step = "live"
    <3>1. Sends(c, Event(FinalOf[k]), "final")
      BY <2>3, <2>4 DEF EndFlow
    <3>2. flow' \in [Clients -> FlowRecords]
      BY <2>1, <2>2, <3>1, SendsTyped, ItemsTyped
    <3>3. todo' \in [Writers -> Upserts]
      BY <2>1, <2>3 DEF EndFlow, CoreOK, Upserts
    <3>4. QED
      BY <2>3, <3>2, <3>3 DEF EndFlow, CoreOK
  <2>5. CASE flow[c].step # "live"
    <3>1. todo' \in [Writers -> Upserts]
      BY <2>1, <2>3 DEF EndFlow, CoreOK, Upserts
    <3>2. QED
      BY <2>3, <2>5, <3>1 DEF EndFlow, CoreOK
  <2>6. QED
    BY <2>4, <2>5
<1>4. QED
  BY <1>1, <1>2, <1>3 DEF Working

LEMMA RestTyped ==
  ASSUME CoreOK, AutoReconnect \/ Crash \/ Disconnect
  PROVE  CoreOK'
<1>1. CASE AutoReconnect
  BY <1>1 DEF AutoReconnect, CoreOK
<1>2. CASE Crash
  <2>1. cli' \in [Clients -> ClientRecords]
    BY <1>2 DEF Crash, NewClient, ClientRecords
  <2>2. flow' \in [Clients -> FlowRecords]
    BY <1>2 DEF Crash, NewFlow, FlowRecords
  <2>3. todo' \in [Writers -> Upserts]
    <3>1. todo' = AllIdle
      BY <1>2 DEF Crash
    <3>2. QED
      BY <3>1, AllIdleTyped
  <2>4. wac' \in 0..MaxClients /\ troubles' \in 0..MaxTroubles
    BY <1>2, SessionAssumption, TroubleTyped DEF Crash, CoreOK
  <2>5. cutShort' \in BOOLEAN /\ boot' \in {"start", "connect", "done"}
    BY <1>2 DEF Crash
  <2>6. QED
    BY <1>2, <2>1, <2>2, <2>3, <2>4, <2>5 DEF Crash, CoreOK
<1>3. CASE Disconnect
  <2>1. todo' \in [Writers -> Upserts]
    BY <1>3, WriterKinds, FieldsTyped DEF Disconnect, CoreOK
  <2>2. CASE wac = 0
    BY <1>3, <2>1, <2>2 DEF Disconnect, CoreOK
  <2>3. CASE wac # 0
    <3> DEFINE q == [HungUp(cli[wac]) EXCEPT !.stopped = Stops(wac)]
    <3>1. wac \in Clients
      BY <2>3, SessionAssumption DEF CoreOK, Clients
    <3>2. HungUp(cli[wac]) \in ClientRecords
      BY <3>1, HungUpTyped DEF CoreOK
    <3>3. Stops(wac) \in BOOLEAN
      BY DEF Stops
    <3>4. q \in ClientRecords
      BY <3>2, <3>3 DEF ClientRecords
    <3>5. cli' = [cli EXCEPT ![wac] = q]
      BY <1>3, <2>3 DEF Disconnect
    <3> HIDE DEF q
    <3>6. cli' \in [Clients -> ClientRecords]
      BY <3>1, <3>4, <3>5, ClientChange DEF CoreOK
    <3>7. QED
      BY <1>3, <2>1, <3>6 DEF Disconnect, CoreOK
  <2>4. QED
    BY <2>2, <2>3
<1>4. QED
  BY <1>1, <1>2, <1>3

LEMMA TypeStep == TypeOK /\ [Next]_vars => TypeOK'
<1> SUFFICES ASSUME TypeOK, [Next]_vars PROVE TypeOK'
  OBVIOUS
<1>1. CoreOK /\ excused \in BOOLEAN
  BY CoreType
<1>2. CASE Next
  <2>1. CoreOK'
    <3>1. CASE AutoReconnect \/ Crash \/ Disconnect
      BY <1>1, <3>1, RestTyped
    <3>2. ASSUME NEW c \in Clients,
                 Load(c, FALSE) \/ DialFails(c) \/ Connecting(c) \/ Emitting(c) \/ Server(c)
          PROVE  CoreOK'
      BY <1>1, <3>2, ConnectingTyped, EmittingTyped, ServerTyped DEF Connecting
    <3>3. ASSUME NEW w \in Writers, Working(w) PROVE CoreOK'
      BY <1>1, <3>3, WorkingTyped
    <3>4. QED
      BY <1>2, <3>1, <3>2, <3>3 DEF Next, Step
  <2>2. excused' \in BOOLEAN
    BY <1>2 DEF Next, Noted
  <2>3. QED
    BY <2>1, <2>2 DEF TypeOK, CoreOK, ClientRecords, FlowRecords
<1>3. CASE UNCHANGED vars
  <2>1. CoreOK'
    BY <1>1, <1>3 DEF vars, CoreOK
  <2>2. excused' \in BOOLEAN
    BY <1>1, <1>3 DEF vars
  <2>3. QED
    BY <2>1, <2>2 DEF TypeOK, CoreOK, ClientRecords, FlowRecords
<1>4. QED
  BY <1>2, <1>3

\* Every variable holds values of its kind, and every upsert under way writes columns of
\* the row: no QR item becomes a status the row does not have (upsertSession).
THEOREM TypeCorrect == Spec => []TypeOK
BY TypeInit, TypeStep, PTL DEF Spec

-----------------------------------------------------------------------------
(* A stopped client expects to be down, and nothing that would dial is under *)
(* way for it.                                                              *)

StopOf(client) ==
  client.stopped =>
    /\ client.link = "down" /\ client.expected
    /\ client.step \notin {"none", "installed"} /\ client.retry \in {"no", "waiting"}

StopInv ==
  /\ \A c \in Clients : StopOf(cli[c])
  /\ wac # 0 => cli[wac].step # "none"

LEMMA StopInit == Init => StopInv
BY DEF Init, StopInv, StopOf, NewClient

\* A step that changes one client keeps StopInv.
LEMMA StopChange ==
  ASSUME TypeOK, StopInv, NEW c \in Clients, NEW q,
         StopOf(q), q.step = "none" => cli[c].step = "none",
         cli' = [cli EXCEPT ![c] = q],
         wac' = wac \/ (wac' = c /\ q.step # "none")
  PROVE  StopInv'
<1>1. cli \in [Clients -> ClientRecords] /\ wac \in 0..MaxClients
  BY DEF TypeOK, ClientRecords
<1>2. cli'[c] = q /\ \A b \in Clients : b # c => cli'[b] = cli[b]
  BY <1>1
<1>3. \A b \in Clients : StopOf(cli'[b])
  BY <1>2 DEF StopInv
<1>4. wac' # 0 => cli'[wac'].step # "none"
  <2>1. CASE wac' = c
    BY <1>2, <2>1 DEF StopInv
  <2>2. CASE wac' = wac /\ wac # c
    BY <1>1, <1>2, <2>2, SessionAssumption DEF StopInv, Clients
  <2>3. QED
    BY <2>1, <2>2
<1>5. QED
  BY <1>3, <1>4 DEF StopInv, StopOf

\* One that changes none, too.
LEMMA StopSame ==
  ASSUME StopInv, UNCHANGED <<cli, wac>>
  PROVE  StopInv'
BY DEF StopInv, StopOf

\* Hanging up a client keeps what StopOf says of it.
LEMMA StopHungUp ==
  ASSUME NEW client \in ClientRecords, StopOf(client)
  PROVE  StopOf(HungUp(client)) /\ HungUp(client).step = client.step
BY DEF StopOf, HungUp, ClientRecords

LEMMA StopConnecting ==
  ASSUME TypeOK, StopInv, NEW c \in Clients,
         Load(c, TRUE) \/ Load(c, FALSE) \/ Dial(c) \/ DialFails(c)
  PROVE  StopInv'
<1>1. cli[c] \in ClientRecords /\ StopOf(cli[c])
  BY DEF TypeOK, ClientRecords, StopInv
<1>2. ASSUME NEW byBoot \in BOOLEAN, Load(c, byBoot) PROVE StopInv'
  <2> DEFINE q == [NewClient EXCEPT !.step = "installed", !.byBoot = byBoot, !.paired = device]
  <2>1. StopOf(q) /\ q.step # "none"
    BY DEF StopOf, NewClient
  <2>2. cli' = [cli EXCEPT ![c] = q] /\ wac' = c
    BY <1>2 DEF Load
  <2> HIDE DEF q
  <2>3. QED
    BY <2>1, <2>2, StopChange
<1>3. CASE Dial(c)
  <2> DEFINE q == [cli[c] EXCEPT !.step = "running", !.expected = FALSE,
                                 !.link = IF cli[c].paired THEN "paired" ELSE "qr"]
  <2>1. StopOf(q) /\ q.step # "none"
    BY <1>1, <1>3 DEF Dial, StopOf, ClientRecords
  <2>2. cli' = [cli EXCEPT ![c] = q] /\ wac' = wac
    BY <1>3 DEF Dial
  <2> HIDE DEF q
  <2>3. QED
    BY <2>1, <2>2, StopChange
<1>4. CASE DialFails(c)
  <2> DEFINE q == [cli[c] EXCEPT !.step = "failed"]
  <2>1. StopOf(q) /\ q.step # "none"
    BY <1>1, <1>4 DEF DialFails, StopOf, ClientRecords
  <2>2. cli' = [cli EXCEPT ![c] = q] /\ wac' = wac
    BY <1>4 DEF DialFails
  <2> HIDE DEF q
  <2>3. QED
    BY <2>1, <2>2, StopChange
<1>5. QED
  BY <1>2, <1>3, <1>4

LEMMA StopServer ==
  ASSUME TypeOK, StopInv, NEW c \in Clients, Server(c)
  PROVE  StopInv'
<1>1. cli[c] \in ClientRecords /\ StopOf(cli[c])
  BY DEF TypeOK, ClientRecords, StopInv
<1>2. StopOf(HungUp(cli[c])) /\ HungUp(cli[c]).step = cli[c].step
  BY <1>1, StopHungUp
<1>3. ASSUME NEW q, StopOf(q), q.step = cli[c].step, cli' = [cli EXCEPT ![c] = q], wac' = wac
      PROVE  StopInv'
  <2>1. q.step = "none" => cli[c].step = "none"
    BY <1>3
  <2>2. wac' = wac \/ (wac' = c /\ q.step # "none")
    BY <1>3
  <2>3. QED
    BY <1>3, <2>1, <2>2, StopChange
<1>4. CASE Scan(c)
  <2> DEFINE q == [cli[c] EXCEPT !.link = "scanned", !.paired = TRUE, !.expected = TRUE]
  <2>1. StopOf(q) /\ q.step = cli[c].step
    BY <1>1, <1>4 DEF Scan, StopOf, ClientRecords
  <2>2. cli' = [cli EXCEPT ![c] = q] /\ wac' = wac
    BY <1>4 DEF Scan
  <2> HIDE DEF q
  <2>3. QED
    BY <1>3, <2>1, <2>2
<1>5. CASE ScanFails(c)
  BY <1>2, <1>3, <1>5 DEF ScanFails
<1>6. CASE Restart(c)
  <2> DEFINE q == [HungUp(cli[c]) EXCEPT !.retry = "restart"]
  <2>1. StopOf(q) /\ q.step = cli[c].step
    BY <1>1, <1>6 DEF Restart, HungUp, StopOf, ClientRecords
  <2>2. cli' = [cli EXCEPT ![c] = q] /\ wac' = wac
    BY <1>6 DEF Restart
  <2> HIDE DEF q
  <2>3. QED
    BY <1>3, <2>1, <2>2
<1>7. CASE Login(c)
  <2> DEFINE q == [cli[c] EXCEPT !.link = "up"]
  <2>1. StopOf(q) /\ q.step = cli[c].step
    BY <1>1, <1>7 DEF Login, StopOf, ClientRecords
  <2>2. cli' = [cli EXCEPT ![c] = q] /\ wac' = wac
    BY <1>7 DEF Login
  <2> HIDE DEF q
  <2>3. QED
    BY <1>3, <2>1, <2>2
<1>8. CASE Replaced(c)
  BY <1>2, <1>3, <1>8 DEF Replaced
<1>9. CASE Drop(c)
  <2> DEFINE q == [cli[c] EXCEPT !.link = "down",
                                 !.retry = IF cli[c].paired THEN "waiting" ELSE "no"]
  <2>1. StopOf(q) /\ q.step = cli[c].step
    BY <1>1, <1>9 DEF Drop, StopOf, ClientRecords
  <2>2. cli' = [cli EXCEPT ![c] = q] /\ wac' = wac
    BY <1>9 DEF Drop
  <2> HIDE DEF q
  <2>3. QED
    BY <1>3, <2>1, <2>2
<1>10. CASE LogOut(c)
  <2> DEFINE q == [HungUp(cli[c]) EXCEPT !.paired = FALSE]
  <2>1. StopOf(q) /\ q.step = cli[c].step
    BY <1>1, <1>10 DEF LogOut, HungUp, StopOf, ClientRecords
  <2>2. cli' = [cli EXCEPT ![c] = q] /\ wac' = wac
    BY <1>10 DEF LogOut
  <2> HIDE DEF q
  <2>3. QED
    BY <1>3, <2>1, <2>2
<1>11. CASE Retry(c)
  <2> DEFINE q == [cli[c] EXCEPT !.retry = IF cli[c].expected THEN "no" ELSE "going"]
  <2>1. StopOf(q) /\ q.step = cli[c].step
    BY <1>1, <1>11 DEF Retry, StopOf, ClientRecords
  <2>2. cli' = [cli EXCEPT ![c] = q] /\ wac' = wac
    BY <1>11 DEF Retry
  <2> HIDE DEF q
  <2>3. QED
    BY <1>3, <2>1, <2>2
<1>12. CASE Reconnect(c)
  <2> DEFINE q == [cli[c] EXCEPT !.retry = "no", !.link = "paired", !.expected = FALSE]
  <2>1. StopOf(q) /\ q.step = cli[c].step
    BY <1>1, <1>12 DEF Reconnect, StopOf, ClientRecords
  <2>2. cli' = [cli EXCEPT ![c] = q] /\ wac' = wac
    BY <1>12 DEF Reconnect
  <2> HIDE DEF q
  <2>3. QED
    BY <1>3, <2>1, <2>2
<1>13. CASE DropQuietly(c)
  <2> DEFINE q == [HungUp(cli[c]) EXCEPT !.lost = TRUE]
  <2>1. StopOf(q) /\ q.step = cli[c].step
    BY <1>1, <1>13 DEF DropQuietly, HungUp, StopOf, ClientRecords
  <2>2. cli' = [cli EXCEPT ![c] = q] /\ wac' = wac
    BY <1>13 DEF DropQuietly
  <2> HIDE DEF q
  <2>3. QED
    BY <1>3, <2>1, <2>2
<1>14. CASE KeepAliveFails(c)
  <2> DEFINE q == [HungUp(cli[c]) EXCEPT !.retry = "forced"]
  <2>1. StopOf(q) /\ q.step = cli[c].step
    BY <1>1, <1>14 DEF KeepAliveFails, HungUp, StopOf, ClientRecords
  <2>2. cli' = [cli EXCEPT ![c] = q] /\ wac' = wac
    BY <1>14 DEF KeepAliveFails
  <2> HIDE DEF q
  <2>3. QED
    BY <1>3, <2>1, <2>2
<1>15. CASE ForceRetry(c)
  <2> DEFINE q == [cli[c] EXCEPT !.expected = FALSE, !.lost = ~cli[c].paired,
                                 !.retry = IF cli[c].paired THEN "waiting" ELSE "no"]
  <2>1. StopOf(q) /\ q.step = cli[c].step
    BY <1>1, <1>15 DEF ForceRetry, StopOf, ClientRecords
  <2>2. cli' = [cli EXCEPT ![c] = q] /\ wac' = wac
    BY <1>15 DEF ForceRetry
  <2> HIDE DEF q
  <2>3. QED
    BY <1>3, <2>1, <2>2
<1>16. CASE ReconnectFails(c)
  <2> DEFINE q == [cli[c] EXCEPT !.expected = FALSE, !.lost = cli[c].retry = "restart",
                                 !.retry = IF cli[c].retry = "going" THEN "waiting" ELSE "no"]
  <2>1. StopOf(q) /\ q.step = cli[c].step
    BY <1>1, <1>16 DEF ReconnectFails, StopOf, ClientRecords
  <2>2. cli' = [cli EXCEPT ![c] = q] /\ wac' = wac
    BY <1>16 DEF ReconnectFails
  <2> HIDE DEF q
  <2>3. QED
    BY <1>3, <2>1, <2>2
<1>17. CASE Refused(c)
  <2> DEFINE q == [HungUp(cli[c]) EXCEPT !.lost = cli[c].paired]
  <2>1. StopOf(q) /\ q.step = cli[c].step
    BY <1>1, <1>17 DEF Refused, HungUp, StopOf, ClientRecords
  <2>2. cli' = [cli EXCEPT ![c] = q] /\ wac' = wac
    BY <1>17 DEF Refused
  <2> HIDE DEF q
  <2>3. QED
    BY <1>3, <2>1, <2>2
<1>18. QED
  BY <1>4, <1>5, <1>6, <1>7, <1>8, <1>9, <1>10, <1>11, <1>12, <1>13, <1>14, <1>15, <1>16, <1>17
     DEF Server

LEMMA StopEmitting ==
  ASSUME TypeOK, StopInv, NEW c \in Clients, Emitting(c)
  PROVE  StopInv'
<1>1. cli[c] \in ClientRecords /\ StopOf(cli[c])
  BY DEF TypeOK, ClientRecords, StopInv
<1>2. StopOf(HungUp(cli[c])) /\ HungUp(cli[c]).step = cli[c].step
  BY <1>1, StopHungUp
<1>3. CASE EmitCode(c) \/ CloseFlow(c)
  BY <1>3, StopSame DEF EmitCode, CloseFlow
<1>4. CASE RunOut(c) \/ CutOff(c)
  <2> DEFINE q == HungUp(cli[c])
  <2>1. StopOf(q) /\ (q.step = "none" => cli[c].step = "none")
    BY <1>2
  <2>2. cli' = [cli EXCEPT ![c] = q] /\ wac' = wac
    BY <1>4 DEF RunOut, CutOff
  <2> HIDE DEF q
  <2>3. wac' = wac \/ (wac' = c /\ q.step # "none")
    BY <2>2
  <2>4. QED
    BY <2>1, <2>2, <2>3, StopChange
<1>5. QED
  BY <1>3, <1>4 DEF Emitting

LEMMA StopRest ==
  ASSUME TypeOK, StopInv,
         \/ AutoReconnect \/ Crash \/ Disconnect
         \/ \E w \in Writers : Working(w)
  PROVE  StopInv'
<1>1. CASE AutoReconnect
  BY <1>1, StopSame DEF AutoReconnect
<1>2. CASE Crash
  BY <1>2 DEF Crash, StopInv, StopOf, NewClient
<1>3. CASE Disconnect
  <2>1. CASE wac = 0
    BY <1>3, <2>1, StopSame DEF Disconnect
  <2>2. CASE wac # 0
    <3> DEFINE q == [HungUp(cli[wac]) EXCEPT !.stopped = Stops(wac)]
    <3>1. wac \in Clients
      BY <2>2, SessionAssumption DEF TypeOK, Clients
    <3>2. cli[wac] \in ClientRecords /\ cli[wac].step # "none"
      BY <2>2, <3>1 DEF TypeOK, ClientRecords, StopInv
    <3>3. StopOf(q) /\ q.step # "none"
      BY <3>2 DEF StopOf, HungUp, Stops, ClientRecords
    <3>4. cli' = [cli EXCEPT ![wac] = q] /\ wac' = wac
      BY <1>3, <2>2 DEF Disconnect
    <3> HIDE DEF q
    <3>5. QED
      BY <3>1, <3>3, <3>4, StopChange
  <2>3. QED
    BY <2>1, <2>2
<1>4. ASSUME NEW w \in Writers, Working(w) PROVE StopInv'
  BY <1>4, StopSame DEF Working, WriteColumn, Take, EndFlow
<1>5. QED
  BY <1>1, <1>2, <1>3, <1>4

LEMMA StopStep == TypeOK /\ StopInv /\ [Next]_vars => StopInv'
<1> SUFFICES ASSUME TypeOK, StopInv, [Next]_vars PROVE StopInv'
  OBVIOUS
<1>1. ASSUME NEW c \in Clients,
             Load(c, FALSE) \/ DialFails(c) \/ Connecting(c) \/ Emitting(c) \/ Server(c)
      PROVE  StopInv'
  BY <1>1, StopConnecting, StopEmitting, StopServer DEF Connecting
<1>2. CASE Next
  BY <1>1, <1>2, StopRest DEF Next, Step
<1>3. CASE UNCHANGED vars
  BY <1>3, StopSame DEF vars
<1>4. QED
  BY <1>2, <1>3

\* A client a Disconnect stopped stays down, whatever drops, retries, logins and QR
\* timers are under way (Disconnect, and expectDisconnect in whatsmeow's client.go).
THEOREM StoppedStaysDown == Spec => []DisconnectHangsUp
<1>1. Init => TypeOK /\ StopInv
  BY TypeInit, StopInit
<1>2. TypeOK /\ StopInv /\ [Next]_vars => (TypeOK /\ StopInv)'
  BY TypeStep, StopStep
<1>3. TypeOK /\ StopInv => DisconnectHangsUp
  BY DEF StopInv, StopOf, DisconnectHangsUp
<1>4. QED
  BY <1>1, <1>2, <1>3, PTL DEF Spec

-----------------------------------------------------------------------------
(* The QR channels refine QRStream.                                         *)

\* Until a channel's final item it holds codes alone; after it, one more at most.
FlowOf(f) ==
  /\ f.step = "off" => f.sent = <<>>
  /\ f.step \in {"off", "live"} => \A i \in DOMAIN f.sent : f.sent[i].event = "code"
  /\ f.step = "final" =>
       /\ f.sent # <<>>
       /\ f.sent[Len(f.sent)].event # "code" =>
            \A i \in DOMAIN f.sent : i < Len(f.sent) => f.sent[i].event = "code"

FlowInv == \A c \in Clients : FlowOf(flow[c])

LEMMA FlowInit == Init => FlowInv
BY DEF Init, FlowInv, FlowOf, NewFlow

\* What one step may do to a channel: nothing the stream sees, a code, the final item,
\* its end, or a new process.
Moved(f, g) ==
  \/ g.sent = f.sent /\ (g.step = f.step \/ (f.step = "off" /\ g.step = "live"))
  \/ f.step \in {"live", "final"} /\ g.step = f.step
     /\ (f.step = "final" => f.sent[Len(f.sent)].event # "code")
     /\ \E k \in 1..NCodes :
          /\ \A i \in DOMAIN f.sent : f.sent[i].event = "code" => f.sent[i].code < k
          /\ g.sent = Append(f.sent, Code(k))
  \/ f.step = "live" /\ g.step = "final" /\ \E e \in Finals : g.sent = Append(f.sent, Event(e))
  \/ f.step \in {"live", "final"} /\ g.step = "ended" /\ g.sent = f.sent
  \/ g = NewFlow

\* Every move is a step of the stream.
LEMMA MovesOfTheStream ==
  ASSUME TypeOK, FlowInv, NEW c \in Clients, Moved(flow[c], flow[c]')
  PROVE  \/ UNCHANGED <<flow[c].sent, flow[c].step = "ended">>
         \/ Flow(c)!Next \/ (Flow(c)!Init)'
<1>1. flow[c].sent \in Seq(Items) /\ FlowOf(flow[c])
  BY DEF TypeOK, FlowInv
<1>2. \A i \in DOMAIN flow[c].sent :
        \/ flow[c].sent[i].event = "code"
        \/ flow[c].sent[i].event \in Finals /\ flow[c].sent[i].code = 0
  BY <1>1 DEF Items
<1>3. "code" \notin Finals
  BY DEF Finals
<1>4. CASE /\ flow[c]'.sent = flow[c].sent
           /\ flow[c]'.step = flow[c].step \/ (flow[c].step = "off" /\ flow[c]'.step = "live")
  BY <1>4
<1>5. CASE /\ flow[c].step \in {"live", "final"} /\ flow[c]'.step = flow[c].step
           /\ flow[c].step = "final" => flow[c].sent[Len(flow[c].sent)].event # "code"
           /\ \E k \in 1..NCodes :
                /\ \A i \in DOMAIN flow[c].sent :
                     flow[c].sent[i].event = "code" => flow[c].sent[i].code < k
                /\ flow[c]'.sent = Append(flow[c].sent, Code(k))
  <2>1. PICK k \in 1..NCodes :
          /\ \A i \in DOMAIN flow[c].sent :
               flow[c].sent[i].event = "code" => flow[c].sent[i].code < k
          /\ flow[c]'.sent = Append(flow[c].sent, Code(k))
    BY <1>5
  <2>2. \A i \in DOMAIN flow[c].sent : flow[c].sent[i].code < k
    BY <1>2, <2>1, SessionAssumption
  <2>3. \A i, j \in DOMAIN flow[c].sent :
          flow[c].sent[i].event \in Finals /\ flow[c].sent[j].event = "code" => j < i
    <3>1. CASE flow[c].step = "live"
      BY <1>1, <1>3, <3>1 DEF FlowOf
    <3>2. CASE flow[c].step = "final"
      BY <1>1, <1>3, <1>5, <3>2 DEF FlowOf
    <3>3. QED
      BY <1>5, <3>1, <3>2
  <2>4. Flow(c)!SendCode(k)
    BY <1>5, <2>1, <2>2, <2>3
       DEF Flow!SendCode, Flow!Fresh, Flow!NoneLate, Flow!IsFinal, Flow!Code, Code
  <2>5. QED
    BY <2>4 DEF Flow!Next, Flow!Codes
<1>6. CASE /\ flow[c].step = "live" /\ flow[c]'.step = "final"
           /\ \E e \in Finals : flow[c]'.sent = Append(flow[c].sent, Event(e))
  <2>1. PICK e \in Finals : flow[c]'.sent = Append(flow[c].sent, Event(e))
    BY <1>6
  <2>2. \A i \in DOMAIN flow[c].sent : flow[c].sent[i].event \notin Finals
    BY <1>1, <1>3, <1>6 DEF FlowOf
  <2>3. Flow(c)!SendFinal(e)
    BY <1>6, <2>1, <2>2 DEF Flow!SendFinal, Flow!HasFinal, Flow!IsFinal, Flow!Event, Event
  <2>4. QED
    BY <2>3 DEF Flow!Next
<1>7. CASE /\ flow[c].step \in {"live", "final"}
           /\ flow[c]'.step = "ended" /\ flow[c]'.sent = flow[c].sent
  <2>1. Flow(c)!Close
    BY <1>7 DEF Flow!Close
  <2>2. QED
    BY <2>1 DEF Flow!Next
<1>8. CASE flow[c]' = NewFlow
  BY <1>8 DEF NewFlow, Flow!Init
<1>9. QED
  BY <1>4, <1>5, <1>6, <1>7, <1>8 DEF Moved

\* A move keeps what FlowOf says.
LEMMA FlowOfMoved ==
  ASSUME NEW f \in FlowRecords, NEW g, FlowOf(f), Moved(f, g)
  PROVE  FlowOf(g)
<1>1. f.sent \in Seq(Items)
  BY DEF FlowRecords
<1>2. CASE g.sent = f.sent /\ (g.step = f.step \/ (f.step = "off" /\ g.step = "live"))
  BY <1>2 DEF FlowOf
<1>3. CASE /\ f.step \in {"live", "final"} /\ g.step = f.step
           /\ \E k \in 1..NCodes : g.sent = Append(f.sent, Code(k))
  <2>1. PICK k \in 1..NCodes : g.sent = Append(f.sent, Code(k))
    BY <1>3
  <2>2. /\ Len(g.sent) = Len(f.sent) + 1 /\ DOMAIN g.sent = 1..(Len(f.sent) + 1)
        /\ g.sent[Len(f.sent) + 1].event = "code"
        /\ \A i \in DOMAIN f.sent : g.sent[i] = f.sent[i]
    BY <1>1, <2>1 DEF Code
  <2>3. g.sent # <<>> /\ DOMAIN f.sent = 1..Len(f.sent) /\ Len(f.sent) \in Nat
    BY <1>1, <2>2
  <2>4. CASE f.step = "live"
    BY <1>3, <2>2, <2>3, <2>4 DEF FlowOf
  <2>5. CASE f.step = "final"
    BY <1>3, <2>2, <2>3, <2>5 DEF FlowOf
  <2>6. QED
    BY <1>3, <2>4, <2>5
<1>4. CASE f.step = "live" /\ g.step = "final" /\ \E e \in Finals : g.sent = Append(f.sent, Event(e))
  <2>1. PICK e \in Finals : g.sent = Append(f.sent, Event(e))
    BY <1>4
  <2>2. /\ Len(g.sent) = Len(f.sent) + 1 /\ DOMAIN g.sent = 1..(Len(f.sent) + 1)
        /\ \A i \in DOMAIN f.sent : g.sent[i] = f.sent[i]
        /\ DOMAIN f.sent = 1..Len(f.sent) /\ Len(f.sent) \in Nat
    BY <1>1, <2>1
  <2>3. g.sent # <<>>
    BY <2>2
  <2>4. QED
    BY <1>4, <2>2, <2>3 DEF FlowOf
<1>5. CASE g.step = "ended"
  BY <1>5 DEF FlowOf
<1>6. CASE g = NewFlow
  BY <1>6 DEF FlowOf, NewFlow
<1>7. QED
  BY <1>2, <1>3, <1>4, <1>5, <1>6 DEF Moved

AllMoved == \A c \in Clients : Moved(flow[c], flow'[c])

LEMMA MovedOne ==
  ASSUME TypeOK, NEW c \in Clients, NEW q, Moved(flow[c], q), flow' = [flow EXCEPT ![c] = q]
  PROVE  AllMoved
<1>1. \A b \in Clients : flow'[b] = IF b = c THEN q ELSE flow[b]
  BY DEF TypeOK
<1>2. \A b \in Clients : Moved(flow[b], flow[b])
  BY DEF Moved
<1>3. QED
  BY <1>1, <1>2 DEF AllMoved

LEMMA MovedSame == UNCHANGED flow => AllMoved
BY DEF AllMoved, Moved

LEMMA MovedEmitting ==
  ASSUME TypeOK, NEW c \in Clients, Emitting(c)
  PROVE  AllMoved
<1>1. flow \in [Clients -> FlowRecords] /\ flow[c] \in FlowRecords
  BY DEF TypeOK, FlowRecords
<1>2. CASE EmitCode(c)
  <2>1. PICK k \in 1..NCodes :
          /\ \A i \in CodesSent(c) : flow[c].sent[i].code < k
          /\ Sends(c, Code(k), flow[c].step)
    BY <1>2 DEF EmitCode
  <2> DEFINE q == [flow[c] EXCEPT !.sent = Append(flow[c].sent, Code(k)), !.step = flow[c].step]
  <2>2. flow' = [flow EXCEPT ![c] = q]
    BY <2>1 DEF Sends
  <2>3. q.step = flow[c].step /\ q.sent = Append(flow[c].sent, Code(k))
    BY <1>1 DEF FlowRecords
  <2> HIDE DEF q
  <2>4. Moved(flow[c], q)
    BY <1>2, <2>1, <2>3 DEF Moved, EmitCode, Live, CodesSent
  <2>5. QED
    BY <2>2, <2>4, MovedOne
<1>3. CASE RunOut(c)
  <2> DEFINE q == [flow[c] EXCEPT !.sent = Append(flow[c].sent, Event("timeout")), !.step = "final"]
  <2>1. flow' = [flow EXCEPT ![c] = q]
    BY <1>3 DEF RunOut, Sends
  <2>2. q.step = "final" /\ q.sent = Append(flow[c].sent, Event("timeout"))
    BY <1>1 DEF FlowRecords
  <2> HIDE DEF q
  <2>3. Moved(flow[c], q)
    BY <1>3, <2>2 DEF Moved, RunOut, Finals
  <2>4. QED
    BY <2>1, <2>3, MovedOne
<1>4. CASE CutOff(c) \/ CloseFlow(c)
  <2> DEFINE q == [flow[c] EXCEPT !.step = "ended"]
  <2>1. flow' = [flow EXCEPT ![c] = q] /\ flow[c].step \in {"live", "final"}
    BY <1>4 DEF CutOff, CloseFlow
  <2>2. q.step = "ended" /\ q.sent = flow[c].sent
    BY <1>1 DEF FlowRecords
  <2> HIDE DEF q
  <2>3. Moved(flow[c], q)
    BY <2>1, <2>2 DEF Moved
  <2>4. QED
    BY <2>1, <2>3, MovedOne
<1>5. QED
  BY <1>2, <1>3, <1>4 DEF Emitting

LEMMA MovedWorking ==
  ASSUME TypeOK, NEW w \in Writers, Working(w)
  PROVE  AllMoved
<1>1. flow \in [Clients -> FlowRecords]
  BY DEF TypeOK, FlowRecords
<1>2. CASE WriteColumn(w)
  BY <1>2, MovedSame DEF WriteColumn
<1>3. CASE w[2] = "reader" /\ Take(w[1])
  <2> DEFINE c == w[1]
             q == [flow[c] EXCEPT !.read = @ + 1]
  <2>1. c \in Clients
    BY <1>3, WriterParts DEF Kinds
  <2>2. flow' = [flow EXCEPT ![c] = q]
    BY <1>3 DEF Take
  <2>3. q.step = flow[c].step /\ q.sent = flow[c].sent
    BY <1>1, <2>1 DEF FlowRecords
  <2> HIDE DEF c, q
  <2>4. Moved(flow[c], q)
    BY <2>3 DEF Moved
  <2>5. QED
    BY <2>1, <2>2, <2>4, MovedOne
<1>4. CASE w[2] \in Kinds /\ EndFlow(w[1], w[2])
  <2> DEFINE c == w[1]
             k == w[2]
             q == [flow[c] EXCEPT !.sent = Append(flow[c].sent, Event(FinalOf[k])), !.step = "final"]
  <2>1. c \in Clients /\ k \in Kinds
    BY <1>4, WriterParts DEF Kinds
  <2>2. UNCHANGED flow \/ (flow[c].step = "live" /\ flow' = [flow EXCEPT ![c] = q])
    BY <1>4 DEF EndFlow, Sends
  <2>3. q.step = "final" /\ q.sent = Append(flow[c].sent, Event(FinalOf[k]))
    BY <1>1, <2>1 DEF FlowRecords
  <2> HIDE DEF c, k, q
  <2>4. FinalOf[k] \in Finals
    BY <2>1, FinalsOfKinds
  <2>5. flow[c].step = "live" => Moved(flow[c], q)
    BY <2>3, <2>4 DEF Moved
  <2>6. QED
    BY <2>1, <2>2, <2>5, MovedOne, MovedSame
<1>5. QED
  BY <1>2, <1>3, <1>4 DEF Working

\* A client that has not dialled has shown no code yet.
OffInv == \A c \in Clients : cli[c].step \in {"none", "installed"} => flow[c].step = "off"

LEMMA OffInit == Init => OffInv
BY DEF Init, OffInv, NewFlow

\* Clients and channels that keep their steps.
SameSteps == \A c \in Clients : cli'[c].step = cli[c].step
StaysOff == \A c \in Clients : flow[c].step = "off" => flow'[c].step = "off"

LEMMA OffKept ==
  ASSUME OffInv, SameSteps, StaysOff
  PROVE  OffInv'
BY DEF OffInv, SameSteps, StaysOff

LEMMA ClientKeepsStep ==
  ASSUME TypeOK, NEW c \in Clients, NEW q, q.step = cli[c].step, cli' = [cli EXCEPT ![c] = q]
  PROVE  SameSteps
<1>1. \A b \in Clients : cli'[b] = IF b = c THEN q ELSE cli[b]
  BY DEF TypeOK
<1>2. QED
  BY <1>1 DEF SameSteps

LEMMA ServerKeepsSteps ==
  ASSUME TypeOK, NEW c \in Clients, Server(c)
  PROVE  SameSteps
<1>1. cli[c] \in ClientRecords
  BY DEF TypeOK, ClientRecords
<1>2. HungUp(cli[c]).step = cli[c].step
  BY <1>1 DEF HungUp, ClientRecords
<1>3. CASE ScanFails(c) \/ Replaced(c)
  BY <1>2, <1>3, ClientKeepsStep DEF ScanFails, Replaced
<1>4. CASE Scan(c) \/ Login(c) \/ Drop(c) \/ Retry(c) \/ Reconnect(c) \/ Restart(c) \/ LogOut(c)
  <2>1. \E q : q.step = cli[c].step /\ cli' = [cli EXCEPT ![c] = q]
    BY <1>1, <1>4 DEF Scan, Login, Drop, Retry, Reconnect, Restart, LogOut, HungUp, ClientRecords
  <2>2. QED
    BY <2>1, ClientKeepsStep
<1>5. CASE \/ DropQuietly(c) \/ KeepAliveFails(c) \/ ForceRetry(c) \/ ReconnectFails(c)
           \/ Refused(c)
  <2>1. \E q : q.step = cli[c].step /\ cli' = [cli EXCEPT ![c] = q]
    BY <1>1, <1>5 DEF DropQuietly, KeepAliveFails, ForceRetry, ReconnectFails, Refused, HungUp,
                      ClientRecords
  <2>2. QED
    BY <2>1, ClientKeepsStep
<1>6. QED
  BY <1>3, <1>4, <1>5 DEF Server

LEMMA ServerKeepsFlows == \A c \in Clients : Server(c) => UNCHANGED flow
BY DEF Server, Scan, ScanFails, Restart, Login, Replaced, Refused, LogOut, Drop, DropQuietly,
       KeepAliveFails, ForceRetry, Retry, Reconnect, ReconnectFails

LEMMA OffStep == TypeOK /\ OffInv /\ [Next]_vars => OffInv'
<1> SUFFICES ASSUME TypeOK, OffInv, [Next]_vars PROVE OffInv'
  OBVIOUS
<1>1. cli \in [Clients -> ClientRecords] /\ flow \in [Clients -> FlowRecords]
  BY DEF TypeOK, ClientRecords, FlowRecords
<1>2. CASE AutoReconnect \/ UNCHANGED vars
  BY <1>2 DEF AutoReconnect, vars, OffInv
<1>3. CASE Crash
  BY <1>3 DEF Crash, OffInv, NewFlow
<1>4. CASE Disconnect
  <2>1. UNCHANGED flow
    BY <1>4 DEF Disconnect
  <2>2. SameSteps
    BY <1>1, <1>4 DEF Disconnect, HungUp, SameSteps, ClientRecords
  <2>3. QED
    BY <2>1, <2>2, OffKept DEF StaysOff
<1>5. ASSUME NEW c \in Clients, Load(c, FALSE) \/ Load(c, TRUE) PROVE OffInv'
  BY <1>1, <1>5 DEF Load, OffInv
<1>6. ASSUME NEW c \in Clients, Dial(c) \/ DialFails(c) PROVE OffInv'
  <2>1. cli'[c].step \notin {"none", "installed"}
    BY <1>1, <1>6 DEF Dial, DialFails, ClientRecords
  <2>2. \A b \in Clients : b # c => cli'[b] = cli[b] /\ flow'[b] = flow[b]
    BY <1>1, <1>6 DEF Dial, DialFails
  <2>3. QED
    BY <2>1, <2>2 DEF OffInv
<1>7. ASSUME NEW c \in Clients, Server(c) PROVE OffInv'
  <2>1. UNCHANGED flow
    BY <1>7, ServerKeepsFlows
  <2>2. QED
    BY <1>7, <2>1, ServerKeepsSteps, OffKept DEF StaysOff
<1>8. ASSUME NEW c \in Clients, Emitting(c) PROVE OffInv'
  <2>1. StaysOff
    <3>1. flow[c].step # "off"
      BY <1>8 DEF Emitting, EmitCode, RunOut, CutOff, CloseFlow, Live
    <3>2. \A b \in Clients : b # c => flow'[b] = flow[b]
      BY <1>1, <1>8 DEF Emitting, EmitCode, RunOut, CutOff, CloseFlow, Sends
    <3>3. QED
      BY <3>1, <3>2 DEF StaysOff
  <2>2. SameSteps
    <3>1. CASE UNCHANGED cli
      BY <3>1 DEF SameSteps
    <3>2. CASE cli' = [cli EXCEPT ![c] = HungUp(@)]
      BY <1>1, <3>2, ClientKeepsStep DEF HungUp, ClientRecords
    <3>3. QED
      BY <1>8, <3>1, <3>2 DEF Emitting, EmitCode, RunOut, CutOff, CloseFlow
  <2>3. QED
    BY <2>1, <2>2, OffKept
<1>9. ASSUME NEW w \in Writers, Working(w) PROVE OffInv'
  <2>1. SameSteps
    BY <1>9 DEF Working, WriteColumn, Take, EndFlow, SameSteps
  <2>2. StaysOff
    <3> DEFINE c == w[1]
    <3>1. CASE WriteColumn(w)
      BY <3>1 DEF WriteColumn, StaysOff
    <3>2. CASE w[2] = "reader" /\ Take(w[1])
      <4>1. flow' = [flow EXCEPT ![c].read = @ + 1]
        BY <3>2 DEF Take
      <4> HIDE DEF c
      <4>2. QED
        BY <1>1, <4>1 DEF StaysOff, FlowRecords
    <3>3. CASE w[2] \in Kinds /\ EndFlow(w[1], w[2])
      <4>1. \/ UNCHANGED flow
            \/ flow[c].step = "live" /\ \E q : flow' = [flow EXCEPT ![c] = q]
        BY <3>3 DEF EndFlow, Sends
      <4> HIDE DEF c
      <4>2. QED
        BY <1>1, <4>1 DEF StaysOff
    <3>4. QED
      BY <1>9, <3>1, <3>2, <3>3 DEF Working
  <2>3. QED
    BY <2>1, <2>2, OffKept
<1>10. QED
  BY <1>2, <1>3, <1>4, <1>5, <1>6, <1>7, <1>8, <1>9 DEF Next, Step, Connecting

LEMMA MovedStep == TypeOK /\ OffInv /\ [Next]_vars => AllMoved
<1> SUFFICES ASSUME TypeOK, OffInv, [Next]_vars PROVE AllMoved
  OBVIOUS
<1>1. flow \in [Clients -> FlowRecords]
  BY DEF TypeOK, FlowRecords
<1>2. CASE AutoReconnect \/ Disconnect \/ UNCHANGED vars
  BY <1>2, MovedSame DEF AutoReconnect, Disconnect, vars
<1>3. CASE Crash
  BY <1>3 DEF Crash, AllMoved, Moved
<1>4. ASSUME NEW c \in Clients, Dial(c) PROVE AllMoved
  <2>1. CASE cli[c].paired
    BY <1>4, <2>1, MovedSame DEF Dial
  <2>2. CASE ~cli[c].paired
    <3>5. flow[c].step = "off"
      BY <1>4 DEF Dial, OffInv
    <3> DEFINE q == [flow[c] EXCEPT !.step = "live"]
    <3>1. flow' = [flow EXCEPT ![c] = q]
      BY <1>4, <2>2 DEF Dial
    <3>2. q.step = "live" /\ q.sent = flow[c].sent
      BY <1>1 DEF FlowRecords
    <3> HIDE DEF q
    <3>3. Moved(flow[c], q)
      BY <3>2, <3>5 DEF Moved
    <3>4. QED
      BY <3>1, <3>3, MovedOne
  <2>3. QED
    BY <2>1, <2>2
<1>5. ASSUME NEW c \in Clients, Load(c, FALSE) \/ Load(c, TRUE) \/ DialFails(c) \/ Server(c)
      PROVE  AllMoved
  <2>1. UNCHANGED flow
    BY <1>5, ServerKeepsFlows DEF Load, DialFails
  <2>2. QED
    BY <2>1, MovedSame
<1>6. ASSUME NEW c \in Clients, Emitting(c) PROVE AllMoved
  BY <1>6, MovedEmitting
<1>7. ASSUME NEW w \in Writers, Working(w) PROVE AllMoved
  BY <1>7, MovedWorking
<1>8. QED
  BY <1>2, <1>3, <1>4, <1>5, <1>6, <1>7 DEF Next, Step, Connecting

\* The QR channels of all clients, with what the server, the timers and the end of a
\* request do to them, are streams as QRStream has them (connect reads what QRChannel
\* shows of qrchan.go).
THEOREM FlowsImplementStreams == Spec => FlowsAreStreams
<1>1. Init => TypeOK /\ OffInv /\ FlowInv
  BY TypeInit, OffInit, FlowInit
<1>2. TypeOK /\ OffInv /\ FlowInv /\ [Next]_vars => (TypeOK /\ OffInv /\ FlowInv)'
  <2> SUFFICES ASSUME TypeOK, OffInv, FlowInv, [Next]_vars PROVE FlowInv'
    BY TypeStep, OffStep
  <2>1. ASSUME NEW c \in Clients PROVE FlowOf(flow'[c])
    <3>1. flow[c] \in FlowRecords /\ FlowOf(flow[c])
      BY DEF TypeOK, FlowRecords, FlowInv
    <3>2. Moved(flow[c], flow'[c])
      BY MovedStep DEF AllMoved
    <3>3. QED
      BY <3>1, <3>2, FlowOfMoved
  <2>2. QED
    BY <2>1 DEF FlowInv, FlowOf
<1>3. Init => \A c \in Clients : Flow(c)!Init
  BY DEF Init, NewFlow, Flow!Init
<1>4. TypeOK /\ OffInv /\ FlowInv /\ [Next]_vars =>
        [\A c \in Clients : \/ UNCHANGED <<flow[c].sent, flow[c].step = "ended">>
                            \/ Flow(c)!Next \/ (Flow(c)!Init)']_vars
  <2> SUFFICES ASSUME TypeOK, OffInv, FlowInv, [Next]_vars, NEW c \in Clients
               PROVE  \/ UNCHANGED <<flow[c].sent, flow[c].step = "ended">>
                      \/ Flow(c)!Next \/ (Flow(c)!Init)'
    OBVIOUS
  <2>1. Moved(flow[c], flow'[c])
    BY MovedStep DEF AllMoved
  <2>2. QED
    BY <2>1, MovesOfTheStream
<1>5. QED
  BY <1>1, <1>2, <1>3, <1>4, PTL DEF Spec, FlowsAreStreams
=============================================================================
