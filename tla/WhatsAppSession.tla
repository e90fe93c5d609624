-------------------------- MODULE WhatsAppSession --------------------------
(***************************************************************************)
(* The row whatsapp_session and those who write it: connect, AutoReconnect, *)
(* Disconnect, handleEvent and upsertSession of                             *)
(* backend/internal/whatsapp/client.go, called from                         *)
(* backend/internal/handlers/integrations.go and main.go, over the whatsmeow *)
(* clients they make (backend/local_modules/whatsmeow). Clients pile up: a  *)
(* connect makes a new one and leaves the one before as it was.             *)
(*                                                                          *)
(* upsertSession writes one column per statement, in any order, and every   *)
(* goroutine has an upsert of its own under way. The inside of a QR channel *)
(* is QRChannel's; here it sends and closes as QRStream allows. Left out:   *)
(* phone, error, qr_expires_at, connected_at, last_synced_at, and the row's *)
(* absence, which Status reads as disconnected.                             *)
(***************************************************************************)
EXTENDS Naturals, Sequences, FiniteSets

CONSTANTS
  MaxClients,   \* bound: whatsmeow clients of one process, numbered in order
  MaxFlows,     \* bound: those of them that show QR codes
  NCodes,       \* codes of one QR event
  MaxBusy,      \* bound: handlers and upserts under way and items unread, at once
  MaxTroubles,  \* bound: drops, logouts, refusals and crashes
  NULL

ASSUME SessionAssumption ==
  /\ MaxClients \in Nat \ {0} /\ NCodes \in Nat \ {0} /\ MaxTroubles \in Nat
  /\ MaxFlows \in Nat \ {0} /\ MaxBusy \in Nat \ {0}

VARIABLES
  row,       \* whatsapp_session, id 1
  device,    \* is there a paired device in the library's tables?
  wac,       \* c.wac: the client of the last connect, 0 for none
  cli,       \* the clients
  flow,      \* their QR channels
  todo,      \* the columns each goroutine has yet to write; NULL when it is idle
  boot,      \* AutoReconnect: "start", "connect", "done"
  troubles,  \* bound: troubles so far
  excused,   \* history: what excuses RowTruthful has happened (see Noted)
  cutShort   \* history: a pairing was cut short by the end of its request or a crash

vars == <<row, device, wac, cli, flow, todo, boot, troubles, excused, cutShort>>

Clients == 1..MaxClients
Kinds == {"PairSuccess", "PairError", "Connected", "Disconnected", "LoggedOut", "Refused"}
Finals == {"success", "error", "timeout", "err-unexpected-state"}
Notice == "err-scanned-without-multidevice"
Statuses == {"disconnected", "pending_qr", "connected"}

\* The final item that qrchan.go makes of an event. Refused stands for ConnectFailure and
\* TemporaryBan, and for ClientOutdated, whose item has a name of its own.
FinalOf == [PairSuccess |-> "success", PairError |-> "error", Disconnected |-> "timeout",
            Connected |-> "err-unexpected-state", LoggedOut |-> "err-unexpected-state",
            Refused |-> "err-unexpected-state"]

Event(e) == [event |-> e, code |-> 0]
Code(k) == [event |-> "code", code |-> k]

\* Who upserts: a client's reader and its event handlers, and Disconnect (client 0).
Writers == (Clients \X (Kinds \cup {"reader"})) \cup {<<0, "Disconnect">>}
Nothing == [col \in {} |-> NULL]

\* NULL is told apart from what a goroutine may have to write.
ASSUME NullAssumption == NULL \notin {Nothing} \cup [status : Statuses]

Idle(w) == IF w[2] \in Kinds THEN todo[w] = NULL ELSE todo[w] = Nothing
AllIdle == [w \in Writers |-> IF w[2] \in Kinds THEN NULL ELSE Nothing]

\* lost: the connection is gone, no event told the app so and nothing dials again.
NewClient == [step |-> "none", byBoot |-> FALSE, paired |-> FALSE, link |-> "down", expected |-> FALSE,
              retry |-> "no", lost |-> FALSE, stopped |-> FALSE]
NewFlow == [step |-> "off", sent |-> <<>>, read |-> 0]

CodesSent(c) == {i \in DOMAIN flow[c].sent : flow[c].sent[i].event = "code"}
Live(c) == flow[c].step \in {"live", "final"}
Unread(c) == flow[c].read < Len(flow[c].sent)
Sends(c, item, step) ==
  flow' = [flow EXCEPT ![c] = [@ EXCEPT !.sent = Append(flow[c].sent, item), !.step = step]]

\* An event is fired, and its handler starts on the columns it will write.
Fire(c, k, fields) ==
  /\ Idle(<<c, k>>)
  /\ todo' = [todo EXCEPT ![<<c, k>>] = fields]

\* wac.Disconnect of the library, on a client's record.
HungUp(client) == [client EXCEPT !.link = "down", !.expected = TRUE]

Trouble == troubles < MaxTroubles /\ troubles' = troubles + 1

-----------------------------------------------------------------------------
(* connect.                                                                 *)

\* GetFirstDevice and c.wac = wac, for a request or for AutoReconnect.
Load(c, byBoot) ==
  /\ cli[c].step = "none" /\ \A b \in 1..(c - 1) : cli[b].step # "none"
  /\ byBoot => boot = "connect"
  /\ cli' = [cli EXCEPT ![c] = [NewClient EXCEPT !.step = "installed", !.byBoot = byBoot,
                                                 !.paired = device]]
  /\ wac' = c
  /\ boot' = IF byBoot THEN "done" ELSE boot
  /\ UNCHANGED <<row, device, flow, todo, troubles, cutShort>>

\* GetQRChannel for a client with no device, and Connect.
Dial(c) ==
  /\ cli[c].step = "installed"
  /\ IF cli[c].paired THEN UNCHANGED flow
     ELSE /\ Cardinality({b \in Clients : flow[b].step # "off"}) < MaxFlows
          /\ flow' = [flow EXCEPT ![c].step = "live"]
  /\ cli' = [cli EXCEPT ![c] = [@ EXCEPT !.step = "running", !.expected = FALSE,
                                         !.link = IF cli[c].paired THEN "paired" ELSE "qr"]]
  /\ UNCHANGED <<row, device, wac, todo, boot, troubles, cutShort>>

\* Connect fails: the caller gives up, and AutoReconnect does not try again.
DialFails(c) ==
  /\ Trouble
  /\ cli[c].step = "installed"
  /\ cli' = [cli EXCEPT ![c].step = "failed"]
  /\ UNCHANGED <<row, device, wac, flow, todo, boot, cutShort>>

\* AutoReconnect reads the stored status, once.
AutoReconnect ==
  /\ boot = "start"
  /\ boot' = IF row.status = "connected" THEN "connect" ELSE "done"
  /\ UNCHANGED <<row, device, wac, cli, flow, todo, troubles, cutShort>>

\* The process stops and starts: the row and the device are all it keeps.
Crash ==
  /\ Trouble
  /\ wac' = 0 /\ boot' = "start"
  /\ cli' = [c \in Clients |-> NewClient] /\ flow' = [c \in Clients |-> NewFlow]
  /\ todo' = AllIdle
  /\ cutShort' = (cutShort \/ \E c \in Clients : Live(c) \/ Unread(c) \/ ~Idle(<<c, "reader">>))
  /\ UNCHANGED <<row, device>>

-----------------------------------------------------------------------------
(* The server, the phone and the network.                                   *)

\* The phone scans a code and handlePair saves the device, or the pairing fails.
Scan(c) ==
  /\ cli[c].link = "qr" /\ CodesSent(c) # {} /\ Fire(c, "PairSuccess", Nothing)
  /\ cli' = [cli EXCEPT ![c] = [@ EXCEPT !.link = "scanned", !.paired = TRUE, !.expected = TRUE]]
  /\ device' = TRUE
  /\ UNCHANGED <<row, flow, wac, boot, troubles, cutShort>>

ScanFails(c) ==
  /\ Trouble
  /\ cli[c].link = "qr" /\ CodesSent(c) # {} /\ Fire(c, "PairError", Nothing)
  /\ cli' = [cli EXCEPT ![c] = HungUp(@)]
  /\ UNCHANGED <<row, device, flow, wac, boot, cutShort>>

\* After the scan the server asks for a new connection (515).
Restart(c) ==
  /\ cli[c].link = "scanned"
  /\ cli' = [cli EXCEPT ![c] = [HungUp(@) EXCEPT !.retry = "restart"]]
  /\ UNCHANGED <<row, device, wac, flow, todo, boot, troubles, cutShort>>

\* The connection is gone before the 515: a disconnect is expected since the scan.
DropQuietly(c) ==
  /\ Trouble
  /\ cli[c].link = "scanned"
  /\ cli' = [cli EXCEPT ![c] = [HungUp(@) EXCEPT !.lost = TRUE]]
  /\ UNCHANGED <<row, device, wac, flow, todo, boot, cutShort>>

\* Mutant: Connected leaves the status to the QR flow.
ConnectedFieldsBare == Nothing

ConnectedFields == [status |-> "connected"]

\* handleConnectSuccess.
Login(c) ==
  /\ cli[c].link = "paired" /\ Fire(c, "Connected", ConnectedFields)
  /\ cli' = [cli EXCEPT ![c].link = "up"]
  /\ UNCHANGED <<row, device, flow, wac, boot, troubles, cutShort>>

\* Two clients of one device: the server drops the older, which expects it.
Replaced(c) ==
  /\ cli[c].link = "up" /\ \E b \in Clients : b > c /\ cli[b].link = "up"
  /\ cli' = [cli EXCEPT ![c] = HungUp(@)]
  /\ UNCHANGED <<row, device, wac, flow, todo, boot, troubles, cutShort>>

\* onDisconnect: Disconnected, and autoReconnect for a paired client.
Drop(c) ==
  /\ Trouble
  /\ cli[c].link \in {"qr", "paired", "up"} /\ ~cli[c].expected
  /\ Fire(c, "Disconnected", [status |-> "disconnected"])
  /\ cli' = [cli EXCEPT ![c] = [@ EXCEPT !.link = "down",
                                         !.retry = IF cli[c].paired THEN "waiting" ELSE "no"]]
  /\ UNCHANGED <<row, device, flow, wac, boot, cutShort>>

\* keepAliveLoop finds the connection dead and hangs up, with no event for the app ...
KeepAliveFails(c) ==
  /\ Trouble
  /\ cli[c].link # "down"
  /\ cli' = [cli EXCEPT ![c] = [HungUp(@) EXCEPT !.retry = "forced"]]
  /\ UNCHANGED <<row, device, wac, flow, todo, boot, cutShort>>

\* ... and starts an autoReconnect, which leaves a client with no device alone.
ForceRetry(c) ==
  /\ cli[c].retry = "forced"
  /\ cli' = [cli EXCEPT ![c] = [@ EXCEPT !.expected = FALSE, !.lost = ~cli[c].paired,
                                         !.retry = IF cli[c].paired THEN "waiting" ELSE "no"]]
  /\ UNCHANGED <<row, device, wac, flow, todo, boot, troubles, cutShort>>

\* autoReconnect's wait, which an expected disconnect ends ...
Retry(c) ==
  /\ cli[c].retry = "waiting"
  /\ cli' = [cli EXCEPT ![c].retry = IF cli[c].expected THEN "no" ELSE "going"]
  /\ UNCHANGED <<row, device, wac, flow, todo, boot, troubles, cutShort>>

\* ... and the connect after it, or after a 515, which does not ask again ...
Reconnect(c) ==
  /\ cli[c].retry \in {"going", "restart"}
  /\ cli' = [cli EXCEPT ![c] = [@ EXCEPT !.retry = "no", !.link = "paired", !.expected = FALSE]]
  /\ UNCHANGED <<row, device, wac, flow, todo, boot, troubles, cutShort>>

\* ... and which may fail: autoReconnect tries again, the one after a 515 does not.
ReconnectFails(c) ==
  /\ Trouble
  /\ cli[c].retry \in {"going", "restart"}
  /\ cli' = [cli EXCEPT ![c] =
       [@ EXCEPT !.expected = FALSE, !.lost = cli[c].retry = "restart",
                 !.retry = IF cli[c].retry = "going" THEN "waiting" ELSE "no"]]
  /\ UNCHANGED <<row, device, wac, flow, todo, boot, cutShort>>

\* handleConnectFailure for reasons other than a log-out: a disconnect is expected, and
\* of the events only the QR channel takes notice.
Refused(c) ==
  /\ Trouble
  /\ cli[c].link \in {"qr", "paired"} /\ Fire(c, "Refused", Nothing)
  /\ cli' = [cli EXCEPT ![c] = [HungUp(@) EXCEPT !.lost = cli[c].paired]]
  /\ UNCHANGED <<row, device, flow, wac, boot, cutShort>>

\* The phone has removed the device (401), which the server says at once or when the
\* client logs in: LoggedOut, and the device is deleted.
LogOut(c) ==
  /\ Trouble
  /\ cli[c].link \in {"paired", "up"}
  /\ Fire(c, "LoggedOut", [status |-> "disconnected"])
  /\ cli' = [cli EXCEPT ![c] = [HungUp(@) EXCEPT !.paired = FALSE]]
  /\ device' = FALSE
  /\ UNCHANGED <<row, flow, wac, boot, cutShort>>

-----------------------------------------------------------------------------
(* The QR channel: emitter and event handler.                               *)

\* The next code; the first needs the server. An emitter past its check sends one
\* even after the final item.
EmitCode(c) ==
  /\ Live(c)
  /\ flow[c].step = "final" => flow[c].sent[Len(flow[c].sent)].event # "code"
  /\ \E k \in 1..NCodes :
       /\ \A i \in CodesSent(c) : flow[c].sent[i].code < k
       /\ k = 1 => cli[c].link = "qr"
       /\ k > 1 => \E i \in CodesSent(c) : flow[c].sent[i].code = k - 1
       /\ Sends(c, Code(k), flow[c].step)
  /\ UNCHANGED <<row, device, wac, cli, todo, boot, troubles, cutShort>>

\* Out of codes: the timeout item, and the client is disconnected.
RunOut(c) ==
  /\ flow[c].step = "live" /\ \E i \in CodesSent(c) : flow[c].sent[i].code = NCodes
  /\ Sends(c, Event("timeout"), "final")
  /\ cli' = [cli EXCEPT ![c] = HungUp(@)]
  /\ UNCHANGED <<row, device, wac, todo, boot, troubles, cutShort>>

\* The 202 is sent, the request's context is done, and the channel closes with
\* nothing said. AutoReconnect's context outlives the process.
CutOff(c) ==
  /\ flow[c].step = "live" /\ ~cli[c].byBoot /\ CodesSent(c) # {}
  /\ flow' = [flow EXCEPT ![c].step = "ended"]
  /\ cli' = [cli EXCEPT ![c] = HungUp(@)]
  /\ cutShort' = TRUE
  /\ UNCHANGED <<row, device, wac, todo, boot, troubles>>

\* Mutant: the final item is sent whether or not the channel has ended.
EndFlowAgain(c, k) ==
  /\ todo[<<c, k>>] = Nothing
  /\ todo' = [todo EXCEPT ![<<c, k>>] = NULL]
  /\ IF flow[c].step # "off" THEN Sends(c, Event(FinalOf[k]), "final") ELSE UNCHANGED flow
  /\ UNCHANGED <<row, device, wac, cli, boot, troubles, cutShort>>

\* qrChannel.handleEvent, once the app's handler is through with the event: the final
\* item, unless the channel has ended.
EndFlow(c, k) ==
  /\ todo[<<c, k>>] = Nothing
  /\ todo' = [todo EXCEPT ![<<c, k>>] = NULL]
  /\ IF flow[c].step = "live" THEN Sends(c, Event(FinalOf[k]), "final") ELSE UNCHANGED flow
  /\ UNCHANGED <<row, device, wac, cli, boot, troubles, cutShort>>

CloseFlow(c) ==
  /\ flow[c].step = "final"
  /\ flow' = [flow EXCEPT ![c].step = "ended"]
  /\ UNCHANGED <<row, device, wac, cli, todo, boot, troubles, cutShort>>

-----------------------------------------------------------------------------
(* The writers of the row.                                                  *)

\* Mutant: the item that ends the flow becomes the status.
ItemFieldsRaw(item) ==
  CASE item.event = "code" -> [status |-> "pending_qr", qr |-> item.code]
    [] item.event = "success" -> [status |-> "connected", qr |-> NULL]
    [] OTHER -> [status |-> item.event]

\* What the reader's loop makes of an item.
ItemFields(item) ==
  CASE item.event = "code" -> [status |-> "pending_qr", qr |-> item.code]
    [] item.event = "success" -> [status |-> "connected", qr |-> NULL]
    [] OTHER -> [status |-> "disconnected"]

Take(c) ==
  /\ Idle(<<c, "reader">>) /\ Unread(c)
  /\ flow' = [flow EXCEPT ![c].read = @ + 1]
  /\ todo' = [todo EXCEPT ![<<c, "reader">>] = ItemFields(flow[c].sent[flow[c].read + 1])]
  /\ UNCHANGED <<row, device, wac, cli, boot, troubles, cutShort>>

\* Does a Disconnect of c.wac keep it down? Not if it is about to dial, nor if its
\* autoReconnect or its 515 is past waiting, or its keepalive about to start one.
Stops(c) == cli[c].step # "installed" /\ cli[c].retry \in {"no", "waiting"}

\* Mutant: the client is hung up with no note that this was expected.
DisconnectAbruptly ==
  /\ Idle(<<0, "Disconnect">>)
  /\ cli' = IF wac = 0 THEN cli
            ELSE [cli EXCEPT ![wac] = [@ EXCEPT !.link = "down", !.stopped = Stops(wac)]]
  /\ todo' = [todo EXCEPT ![<<0, "Disconnect">>] = [status |-> "disconnected"]]
  /\ UNCHANGED <<row, device, flow, wac, boot, troubles, cutShort>>

\* POST .../disconnect.
Disconnect ==
  /\ Idle(<<0, "Disconnect">>)
  /\ cli' = IF wac = 0 THEN cli
            ELSE [cli EXCEPT ![wac] = [HungUp(@) EXCEPT !.stopped = Stops(wac)]]
  /\ todo' = [todo EXCEPT ![<<0, "Disconnect">>] = [status |-> "disconnected"]]
  /\ UNCHANGED <<row, device, flow, wac, boot, troubles, cutShort>>

\* One UPDATE of upsertSession; the columns come in the order of a Go map, any.
WriteColumn(w) ==
  /\ todo[w] # NULL
  /\ \E col \in DOMAIN todo[w] :
       /\ row' = [row EXCEPT ![col] = todo[w][col]]
       /\ todo' = [todo EXCEPT ![w] = [rest \in DOMAIN @ \ {col} |-> @[rest]]]
  /\ UNCHANGED <<device, wac, cli, flow, boot, troubles, cutShort>>

-----------------------------------------------------------------------------
Init ==
  /\ row = [status |-> "disconnected", qr |-> NULL]
  /\ device = FALSE /\ wac = 0 /\ boot = "start"
  /\ cli = [c \in Clients |-> NewClient] /\ flow = [c \in Clients |-> NewFlow]
  /\ todo = AllIdle
  /\ troubles = 0 /\ excused = FALSE /\ cutShort = FALSE

\* What is under way: a handler, an upsert, or an item that waits for the reader.
Busy == {w \in Writers : ~Idle(w)} \cup {<<c, "unread">> : c \in {b \in Clients : Unread(b)}}

AtWork(c) == cli[c].link # "down" \/ cli[c].retry # "no" \/ Live(c) \/ cli[c].step = "installed"

\* An emitter past its check sends a code after the final item.
SendsLate(c) ==
  flow[c].step = "final" /\ flow'[c].step = "final" /\ flow'[c].sent # flow[c].sent

\* The bound on what is under way, and the history of what excuses RowTruthful.
Noted ==
  LET under == Cardinality(Busy')
  IN  /\ under <= MaxBusy
      /\ excused' = \/ excused
                    \/ under > 1
                    \/ \E c \in Clients : SendsLate(c)
                    \/ wac' # wac /\ wac' # 0 /\ (Busy # {} \/ \E b \in Clients : AtWork(b))

Connecting(c) == Load(c, TRUE) \/ Dial(c)
Emitting(c) == EmitCode(c) \/ RunOut(c) \/ CutOff(c) \/ CloseFlow(c)
Server(c) ==
  \/ Scan(c) \/ ScanFails(c) \/ Restart(c) \/ Login(c) \/ Replaced(c) \/ Refused(c) \/ LogOut(c)
  \/ Drop(c) \/ DropQuietly(c) \/ KeepAliveFails(c)
  \/ ForceRetry(c) \/ Retry(c) \/ Reconnect(c) \/ ReconnectFails(c)

\* A writer's goroutine.
Working(w) ==
  \/ WriteColumn(w)
  \/ w[2] = "reader" /\ Take(w[1])
  \/ w[2] \in Kinds /\ EndFlow(w[1], w[2])

Step ==
  \/ AutoReconnect \/ Crash \/ Disconnect
  \/ \E c \in Clients :
       Load(c, FALSE) \/ DialFails(c) \/ Connecting(c) \/ Emitting(c) \/ Server(c)
  \/ \E w \in Writers : Working(w)

Next == Step /\ Noted

Spec == Init /\ [][Next]_vars

\* What runs goes on: of the connects, of the emitters and of those that handle or
\* write, one at least. The server and the user need not.
Fairness ==
  /\ WF_vars((AutoReconnect \/ \E c \in Clients : Connecting(c)) /\ Noted)
  /\ WF_vars((\E c \in Clients : Emitting(c)) /\ Noted)
  /\ WF_vars((\E w \in Writers : Working(w)) /\ Noted)

FairSpec == Spec /\ Fairness

-----------------------------------------------------------------------------
(* Properties.                                                              *)

QRs == (1..NCodes) \cup {NULL}
Upserts ==
  {NULL, Nothing} \cup [status : Statuses] \cup [qr : QRs] \cup [status : Statuses, qr : QRs]
Items == [event : Finals, code : {0}] \cup [event : {"code"}, code : 1..NCodes]

\* Every variable holds values of its kind; every upsert writes columns of the row.
TypeOK ==
  /\ row \in [status : Statuses, qr : QRs]
  /\ device \in BOOLEAN /\ wac \in 0..MaxClients
  /\ cli \in [Clients ->
       [step : {"none", "installed", "running", "failed"}, byBoot : BOOLEAN, paired : BOOLEAN,
        link : {"down", "qr", "scanned", "paired", "up"}, expected : BOOLEAN,
        retry : {"no", "waiting", "going", "restart", "forced"},
        lost : BOOLEAN, stopped : BOOLEAN]]
  /\ flow \in [Clients -> [step : {"off", "live", "final", "ended"}, sent : Seq(Items), read : Nat]]
  /\ todo \in [Writers -> Upserts]
  /\ boot \in {"start", "connect", "done"} /\ troubles \in 0..MaxTroubles
  /\ excused \in BOOLEAN /\ cutShort \in BOOLEAN

\* A QR channel that will still say something: one without codes waits for the server.
Showing(c) == Live(c) /\ (CodesSent(c) # {} \/ cli[c].link # "down")

\* Nothing is under way that will still change the row.
Quiet ==
  /\ Busy = {} /\ boot = "done"
  /\ \A c \in Clients : /\ ~Showing(c) /\ cli[c].retry = "no" /\ cli[c].link \in {"down", "up"}
                        /\ cli[c].step # "installed"

\* The current client is as good as gone and the app has not been told: its Connect
\* failed, or it was lost after that.
Forsaken == wac # 0 /\ (cli[wac].step = "failed" \/ cli[wac].lost)

\* Once all is quiet the row tells the truth: connected while the current client is
\* logged in, and not once it is down, unless it went without a word; a QR code stays
\* neither beside a login nor beside a pairing that is over. What a pairing that was
\* cut short leaves behind is excepted, the code and its status, and so is all that
\* follows when handlers overlapped, a client at work was replaced, or a code came
\* after the final item of its channel.
RowTruthful ==
  Quiet /\ ~excused =>
    /\ wac # 0 /\ cli[wac].link = "up" => row.status = "connected"
    /\ row.status = "connected" => (wac # 0 /\ cli[wac].link = "up") \/ Forsaken
    /\ row.status = "connected" => row.qr = NULL \/ cutShort
    /\ row.status = "pending_qr" => cutShort

\* A client that a Disconnect stopped stays down, whatever retries, timers and
\* events were under way.
DisconnectHangsUp == \A c \in Clients : cli[c].stopped => cli[c].link = "down"

Flow(c) == INSTANCE QRStream WITH sent <- flow[c].sent, ended <- flow[c].step = "ended"

\* The QR channels here are streams as QRStream has them, which QRChannel implements;
\* a crash starts them anew.
FlowsAreStreams ==
  /\ \A c \in Clients : Flow(c)!Init
  /\ [][\A c \in Clients : \/ UNCHANGED <<flow[c].sent, flow[c].step = "ended">>
                           \/ Flow(c)!Next \/ (Flow(c)!Init)']_vars

\* A login is shown: from wherever a client is logged in the row comes to say so,
\* unless the login ends first, or what excuses RowTruthful comes between.
LoginShown ==
  \A c \in Clients :
    cli[c].link = "up" ~> row.status = "connected" \/ cli[c].link # "up" \/ excused

\* "QR codes expire every ~60 seconds. whatsmeow issues new ones automatically via
\* GetQRChannel" (docs/design-whatsapp-integration.md): a code on offer makes way for
\* the next, or for an outcome.
QRRenewed ==
  \A k \in 1..NCodes :
    row.status = "pending_qr" /\ row.qr = k ~> row.status # "pending_qr" \/ row.qr # k
=============================================================================
