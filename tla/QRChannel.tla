----------------------------- MODULE QRChannel -----------------------------
(***************************************************************************)
(* One QR pairing: GetQRChannel and its emitter and event handler           *)
(* (backend/local_modules/whatsmeow/qrchan.go), the socket as far as        *)
(* client.go and pair.go of the library act on it, and the goroutine of     *)
(* connect (backend/internal/whatsapp/client.go) that reads the channel.    *)
(*                                                                          *)
(* The emitter runs in a goroutine of its own, and so does the handling of  *)
(* every event; an action is one operation on the closed flag, on stopQRs,  *)
(* on the output channel or on the socket. Left out: the codes' contents,   *)
(* how long a timer runs, and RemoveEventHandler, after which an event is   *)
(* dropped as it is once the channel is closed.                             *)
(***************************************************************************)
EXTENDS Naturals, Sequences

CONSTANTS
  NCodes,     \* codes the server sends with a QR event: 6
  Capacity,   \* of the output channel: 8
  MaxNotices  \* bound: phones that scan without multi-device

ASSUME QRAssumption == NCodes \in Nat \ {0} /\ Capacity \in Nat \ {0} /\ MaxNotices \in Nat

VARIABLES
  cancelled,  \* is the context of GetQRChannel done?
  open,       \* is the socket open?
  expected,   \* the client's expectedDisconnect
  paired,     \* "no", "scanned" once the phone has scanned a code, "in" after the login
  closed,     \* qrc.closed, set by compare-and-swap
  stopped,    \* is the channel stopQRs closed?
  output,     \* the items in the output channel
  outClosed,  \* is the output channel closed?
  received,   \* the items the reader took
  emitter,    \* emitQRs: where it is, the code it is at, and what it ends with
  handler,    \* handleEvent: where it is, for each kind of event
  notices,    \* scanned-without-multidevice events: fired, and being handled
  crashed     \* did a goroutine panic with nothing to recover it?

socket == <<open, expected, paired>>
flags == <<closed, stopped>>
channel == <<output, outClosed, received>>
vars == <<cancelled, socket, flags, channel, emitter, handler, notices, crashed>>

\* The final items, named after the events they report.
Finals == {"success", "error", "timeout", "err-unexpected-state", "err-client-outdated"}
Notice == "err-scanned-without-multidevice"
Codes == 1..NCodes

\* QRChannelItem.
Event(e) == [event |-> e, code |-> 0]
Code(k) == [event |-> "code", code |-> k]
Item == [event : Finals \cup {Notice, "code"}, code : 0..NCodes]

Sent == received \o output
Room == Len(output) < Capacity
Put(item) == output' = Append(output, item) /\ UNCHANGED <<outClosed, received>>

-----------------------------------------------------------------------------
(* The server and the phone. An event is dropped once the channel is closed. *)

Fires(k) ==
  /\ handler[k] = "idle"
  /\ handler' = IF closed THEN handler ELSE [handler EXCEPT ![k] = "stop"]

\* handlePairDevice: the QR event, once per connection.
QRCodes ==
  /\ open /\ emitter.step = "idle" /\ ~closed
  /\ emitter' = [emitter EXCEPT !.step = "check"]
  /\ UNCHANGED <<cancelled, socket, flags, channel, handler, notices>>

\* handlePair: the phone scanned a code.
PairSuccess ==
  /\ open /\ paired = "no" /\ emitter.step # "idle"
  /\ paired' = "scanned" /\ expected' = TRUE /\ Fires("success")
  /\ UNCHANGED <<cancelled, open, flags, channel, emitter, notices>>

PairError ==
  /\ open /\ paired = "no" /\ emitter.step # "idle"
  /\ open' = FALSE /\ expected' = TRUE /\ Fires("error")
  /\ UNCHANGED <<cancelled, paired, flags, channel, emitter, notices>>

\* After pairing the server asks for a reconnect (515), which is Disconnect and
\* connect, whatever became of the socket; then Connected.
Login ==
  /\ paired = "scanned" /\ paired' = "in"
  /\ open' = TRUE /\ expected' = FALSE /\ Fires("err-unexpected-state")
  /\ UNCHANGED <<cancelled, flags, channel, emitter, notices>>

\* handleConnectFailure, but for a logout: the client is refused.
Refused ==
  /\ open /\ paired = "no" /\ ~expected
  /\ expected' = TRUE
  /\ Fires("err-unexpected-state") \/ Fires("err-client-outdated")
  /\ UNCHANGED <<cancelled, open, paired, flags, channel, emitter, notices>>

\* onDisconnect: the server or the network closes the socket.
Drop ==
  /\ open /\ open' = FALSE
  /\ IF expected THEN UNCHANGED handler ELSE Fires("timeout")
  /\ UNCHANGED <<cancelled, expected, paired, flags, channel, emitter, notices>>

ScanWithoutMultidevice ==
  /\ open /\ emitter.step # "idle" /\ notices.fired < MaxNotices
  /\ notices' = [fired |-> notices.fired + 1,
                 held |-> IF closed THEN notices.held ELSE notices.held + 1]
  /\ UNCHANGED <<cancelled, socket, flags, channel, emitter, handler>>

\* The HTTP request that asked for the pairing ends, and its context with it.
Cancel ==
  /\ ~cancelled /\ cancelled' = TRUE
  /\ UNCHANGED <<socket, flags, channel, emitter, handler, notices>>

-----------------------------------------------------------------------------
(* emitQRs.                                                                 *)

\* The compare-and-swap, by an emitter that goes on to step `won' or `lost'.
EmitterSwap(won, lost) ==
  /\ closed' = TRUE
  /\ emitter' = [emitter EXCEPT !.step = IF closed THEN lost ELSE won]

\* Mutant: the loop does not look at the closed flag.
EmitCheckBlind ==
  /\ emitter.step = "check"
  /\ IF emitter.next > NCodes
       THEN EmitterSwap("final", "done")
       ELSE /\ emitter' = [emitter EXCEPT !.step = "send"]
            /\ UNCHANGED closed
  /\ UNCHANGED <<cancelled, socket, stopped, channel, handler, notices>>

\* Mutant: running out of codes closes the channel without the timeout item.
EmitCheckMute ==
  /\ emitter.step = "check"
  /\ IF emitter.next > NCodes
       THEN EmitterSwap("close", "done")
       ELSE /\ emitter' = [emitter EXCEPT !.step = IF closed THEN "done" ELSE "send"]
            /\ UNCHANGED closed
  /\ UNCHANGED <<cancelled, socket, stopped, channel, handler, notices>>

\* The head of the loop.
EmitCheck ==
  /\ emitter.step = "check"
  /\ IF emitter.next > NCodes
       THEN EmitterSwap("final", "done")
       ELSE /\ emitter' = [emitter EXCEPT !.step = IF closed THEN "done" ELSE "send"]
            /\ UNCHANGED closed
  /\ UNCHANGED <<cancelled, socket, stopped, channel, handler, notices>>

\* The select that sends a code or, with no room for it, gives up.
EmitCode ==
  /\ emitter.step = "send" /\ ~outClosed
  /\ IF Room
       THEN /\ Put(Code(emitter.next))
            /\ emitter' = [step |-> "wait", next |-> emitter.next + 1]
            /\ UNCHANGED closed
       ELSE /\ EmitterSwap("close", "done")
            /\ UNCHANGED channel
  /\ UNCHANGED <<cancelled, socket, stopped, handler, notices>>

\* A send to a channel that was closed in the meantime panics, and the goroutine of
\* the emitter recovers nothing.
EmitPanics ==
  /\ emitter.step = "send" /\ outClosed
  /\ crashed' = TRUE
  /\ UNCHANGED <<cancelled, socket, flags, channel, emitter, handler, notices>>

\* Mutant: a done context ends the emitter, which closes nothing.
EmitWaitAbandoning ==
  /\ emitter.step = "wait"
  /\ \/ /\ emitter' = [emitter EXCEPT !.step = "check"]
        /\ UNCHANGED closed
     \/ /\ stopped \/ cancelled
        /\ emitter' = [emitter EXCEPT !.step = "done"]
        /\ UNCHANGED closed
  /\ UNCHANGED <<cancelled, socket, stopped, channel, handler, notices>>

\* The select on the timer, stopQRs and the context; after the last of them the
\* loop goes on to a head that finds the channel closed.
EmitWait ==
  /\ emitter.step = "wait"
  /\ \/ /\ emitter' = [emitter EXCEPT !.step = "check"]
        /\ UNCHANGED closed
     \/ /\ stopped
        /\ emitter' = [emitter EXCEPT !.step = "done"]
        /\ UNCHANGED closed
     \/ /\ cancelled
        /\ EmitterSwap("close", "check")
  /\ UNCHANGED <<cancelled, socket, stopped, channel, handler, notices>>

EmitTimeout ==
  /\ emitter.step = "final" /\ Room
  /\ Put(Event("timeout"))
  /\ emitter' = [emitter EXCEPT !.step = "close"]
  /\ UNCHANGED <<cancelled, socket, flags, handler, notices>>

\* Mutant: the output channel is closed, the client stays connected.
EmitCloseOnly ==
  /\ emitter.step = "close"
  /\ outClosed' = TRUE /\ emitter' = [emitter EXCEPT !.step = "check"]
  /\ UNCHANGED <<output, received>>
  /\ UNCHANGED <<cancelled, socket, flags, handler, notices>>

EmitClose ==
  /\ emitter.step = "close"
  /\ outClosed' = TRUE /\ emitter' = [emitter EXCEPT !.step = "disconnect"]
  /\ UNCHANGED <<output, received>>
  /\ UNCHANGED <<cancelled, socket, flags, handler, notices>>

\* cli.Disconnect: the socket goes, with no event.
EmitDisconnect ==
  /\ emitter.step = "disconnect"
  /\ open' = FALSE /\ expected' = TRUE
  /\ emitter' = [emitter EXCEPT !.step = "check"]
  /\ UNCHANGED <<cancelled, paired, flags, channel, handler, notices>>

-----------------------------------------------------------------------------
(* handleEvent, for an event that ends the pairing, and for one that does not. *)

\* close(stopQRs). A second close panics, and dispatchEvent recovers.
HandleStop(k) ==
  /\ handler[k] = "stop"
  /\ stopped' = TRUE
  /\ handler' = [handler EXCEPT ![k] = IF stopped THEN "done" ELSE "swap"]
  /\ UNCHANGED <<cancelled, socket, closed, channel, emitter, notices>>

\* Mutant: the closed flag is set, whoever had set it.
HandleSwapBlind(k) ==
  /\ handler[k] = "swap"
  /\ closed' = TRUE
  /\ handler' = [handler EXCEPT ![k] = "send"]
  /\ UNCHANGED <<cancelled, socket, stopped, channel, emitter, notices>>

HandleSwap(k) ==
  /\ handler[k] = "swap"
  /\ closed' = TRUE
  /\ handler' = [handler EXCEPT ![k] = IF closed THEN "done" ELSE "send"]
  /\ UNCHANGED <<cancelled, socket, stopped, channel, emitter, notices>>

HandleSend(k) ==
  /\ handler[k] = "send" /\ Room
  /\ Put(Event(k))
  /\ handler' = [handler EXCEPT ![k] = "close"]
  /\ UNCHANGED <<cancelled, socket, flags, emitter, notices>>

HandleClose(k) ==
  /\ handler[k] = "close"
  /\ outClosed' = TRUE /\ handler' = [handler EXCEPT ![k] = "done"]
  /\ UNCHANGED <<output, received>>
  /\ UNCHANGED <<cancelled, socket, flags, emitter, notices>>

\* The notice is sent, or panics on a closed channel, which dispatchEvent recovers.
HandleNotice ==
  /\ notices.held > 0
  /\ notices' = [notices EXCEPT !.held = @ - 1]
  /\ \/ ~outClosed /\ Room /\ Put(Event(Notice))
     \/ outClosed /\ UNCHANGED channel
  /\ UNCHANGED <<cancelled, socket, flags, emitter, handler>>

-----------------------------------------------------------------------------
\* The reader's loop takes an item.
Read ==
  /\ output # <<>>
  /\ received' = Append(received, Head(output)) /\ output' = Tail(output)
  /\ UNCHANGED outClosed
  /\ UNCHANGED <<cancelled, socket, flags, emitter, handler, notices>>

Init ==
  /\ cancelled = FALSE
  /\ open = TRUE /\ expected = FALSE /\ paired = "no"
  /\ closed = FALSE /\ stopped = FALSE
  /\ output = <<>> /\ outClosed = FALSE /\ received = <<>>
  /\ emitter = [step |-> "idle", next |-> 1]
  /\ handler = [k \in Finals |-> "idle"]
  /\ notices = [fired |-> 0, held |-> 0]
  /\ crashed = FALSE

World ==
  \/ QRCodes \/ PairSuccess \/ PairError \/ Login \/ Refused \/ Drop
  \/ ScanWithoutMultidevice \/ Cancel

Emitter ==
  \/ EmitCheck \/ EmitCode \/ EmitWait \/ EmitTimeout \/ EmitClose \/ EmitDisconnect

Handle(k) == HandleStop(k) \/ HandleSwap(k) \/ HandleSend(k) \/ HandleClose(k)

\* A process that panicked takes no further step.
Next ==
  /\ ~crashed
  /\ \/ EmitPanics
     \/ /\ UNCHANGED crashed
        /\ \/ World \/ Emitter
           \/ \E k \in Finals : Handle(k)
           \/ HandleNotice \/ Read

Running(A) == ~crashed /\ UNCHANGED crashed /\ A

\* Goroutines that can go on do, and timers fire; the server and the user need not.
Fairness ==
  /\ WF_vars(Running(Emitter))
  /\ \A k \in Finals : WF_vars(Running(Handle(k)))
  /\ WF_vars(Running(HandleNotice))
  /\ WF_vars(Running(Read))

Spec == Init /\ [][Next]_vars
FairSpec == Spec /\ Fairness

-----------------------------------------------------------------------------
(* Properties.                                                              *)

\* Every variable holds values of its kind; a code is one the server sent.
TypeOK ==
  /\ cancelled \in BOOLEAN /\ open \in BOOLEAN /\ expected \in BOOLEAN
  /\ paired \in {"no", "scanned", "in"}
  /\ closed \in BOOLEAN /\ stopped \in BOOLEAN
  /\ output \in Seq(Item) /\ Len(output) <= Capacity
  /\ received \in Seq(Item)
  /\ outClosed \in BOOLEAN /\ crashed \in BOOLEAN
  /\ emitter \in [step : {"idle", "check", "send", "wait", "final", "close", "disconnect", "done"},
                  next : 1..(NCodes + 1)]
  /\ emitter.step = "send" => emitter.next \in Codes
  /\ handler \in [Finals -> {"idle", "stop", "swap", "send", "close", "done"}]
  /\ notices \in [fired : 0..MaxNotices, held : 0..MaxNotices]
  /\ notices.held <= notices.fired

\* The goroutines that won the compare-and-swap and have yet to close the output.
Closers ==
  {k \in Finals : handler[k] \in {"send", "close"}}
    \cup {x \in {"emitter"} : emitter.step \in {"final", "close"}}

\* Whatever events race with the emitter, one goroutine at a time may close the
\* output channel, none before the closed flag is set and none once it is done.
OneCloser ==
  /\ \A x, y \in Closers : x = y
  /\ Closers # {} => closed /\ ~outClosed
  /\ outClosed => closed

\* A channel that closes without a final item, which leaves the session as it was,
\* was given up because the context ended, or the reader lagged behind a code.
SilentEndExplained ==
  outClosed /\ (\A i \in DOMAIN Sent : Sent[i].event \notin Finals)
    => cancelled \/ (emitter.next <= NCodes /\ Len(Sent) >= Capacity)

Stream == INSTANCE QRStream WITH sent <- Sent, ended <- outClosed

\* The channel implements the stream its readers rely on.
StreamSpec == Stream!Spec

\* Once a code was sent the channel is closed in the end, by an event, the context
\* or the last timer, so the reader's goroutine ends; or the process crashed.
StreamEnds == Sent # <<>> ~> outClosed \/ crashed

\* A channel that no event ended leaves no socket open on which a phone could scan
\* a code that is no longer renewed; one that had scanned before may still log in.
HangsUp == outClosed ~> ~open \/ stopped \/ paired = "in" \/ crashed
=============================================================================
