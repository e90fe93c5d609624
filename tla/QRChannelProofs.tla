-------------------------- MODULE QRChannelProofs --------------------------
(***************************************************************************)
(* Safety of a QR pairing for every number of codes, every capacity of the  *)
(* output channel and every interleaving of the emitter with the events.    *)
(***************************************************************************)
EXTENDS QRChannel, SequenceTheorems, TLAPS

-----------------------------------------------------------------------------
(* Sequences: what a send and a read do to everything that was sent.        *)

LEMMA SentGrows ==
  ASSUME NEW S, NEW r \in Seq(S), NEW o \in Seq(S), NEW x \in S
  PROVE  r \o Append(o, x) = Append(r \o o, x)
  OBVIOUS

LEMMA SentRead ==
  ASSUME NEW S, NEW r \in Seq(S), NEW o \in Seq(S), o # <<>>
  PROVE  Append(r, Head(o)) \o Tail(o) = r \o o
<1> DEFINE a == Append(r, Head(o)) \o Tail(o)
           b == r \o o
<1>1. a \in Seq(S) /\ b \in Seq(S)
  OBVIOUS
<1>2. Len(a) = Len(b)
  OBVIOUS
<1>3. ASSUME NEW i \in 1..Len(a) PROVE a[i] = b[i]
  <2>1. CASE i <= Len(r)
    BY <2>1
  <2>2. CASE i = Len(r) + 1
    BY <2>2
  <2>3. CASE i > Len(r) + 1
    BY <2>3
  <2> QED
    BY <2>1, <2>2, <2>3
<1> QED
  BY <1>1, <1>2, <1>3, SeqEqual

-----------------------------------------------------------------------------
(* Type correctness.                                                        *)

Steps == {"idle", "check", "send", "wait", "final", "close", "disconnect", "done"}
EmitterType == [step : Steps, next : 1..(NCodes + 1)]
HandlerType == [Finals -> {"idle", "stop", "swap", "send", "close", "done"}]

LEMMA EventType == /\ \A k \in Finals : Event(k) \in Item
                   /\ Event(Notice) \in Item
                   /\ \A k \in Codes : Code(k) \in Item
  BY QRAssumption DEF Event, Code, Item, Codes, Finals, Notice

\* A send keeps the types of the channel.
LEMMA PutType ==
  ASSUME TypeOK, NEW x \in Item, Room, Put(x)
  PROVE  /\ output' \in Seq(Item) /\ Len(output') <= Capacity
         /\ received' = received /\ outClosed' = outClosed
         /\ Sent \in Seq(Item) /\ Sent' = Append(Sent, x)
<1>1. output' \in Seq(Item) /\ Len(output') = Len(output) + 1
  BY DEF TypeOK, Put
<1>2. Len(output') <= Capacity
  BY <1>1, QRAssumption DEF TypeOK, Room
<1>3. Sent' = Append(Sent, x)
  BY SentGrows DEF TypeOK, Put, Sent
<1>4. Sent \in Seq(Item)
  BY DEF TypeOK, Sent
<1> QED
  BY <1>1, <1>2, <1>3, <1>4 DEF Put

LEMMA TypeStep == TypeOK /\ [Next]_vars => TypeOK'
<1> SUFFICES ASSUME TypeOK, [Next]_vars PROVE TypeOK'
  OBVIOUS
<1> USE DEF socket, flags, channel
<1>1. CASE EmitPanics
  BY <1>1 DEF EmitPanics, TypeOK
<1>2. CASE World /\ UNCHANGED crashed
  <2>1. UNCHANGED channel /\ UNCHANGED closed /\ UNCHANGED stopped
    BY <1>2 DEF World, QRCodes, PairSuccess, PairError, Login, Refused, Drop,
                ScanWithoutMultidevice, Cancel
  <2>2. /\ cancelled' \in BOOLEAN /\ open' \in BOOLEAN /\ expected' \in BOOLEAN
        /\ paired' \in {"no", "scanned", "in"}
    BY <1>2 DEF World, QRCodes, PairSuccess, PairError, Login, Refused, Drop,
                ScanWithoutMultidevice, Cancel, TypeOK
  <2>3. \A k \in Finals : Fires(k) => handler' \in HandlerType
    BY DEF Fires, TypeOK, HandlerType
  <2>4. handler' \in HandlerType
    BY <1>2, <2>3 DEF World, QRCodes, PairSuccess, PairError, Login, Refused, Drop,
                ScanWithoutMultidevice, Cancel, TypeOK, HandlerType, Finals
  <2>5. emitter' \in EmitterType /\ (emitter'.step = "send" => emitter'.next \in Codes)
    BY <1>2 DEF World, QRCodes, PairSuccess, PairError, Login, Refused, Drop,
                ScanWithoutMultidevice, Cancel, TypeOK, EmitterType, Steps
  <2>6. /\ notices' \in [fired : 0..MaxNotices, held : 0..MaxNotices]
        /\ notices'.held <= notices'.fired
    <3>1. CASE ScanWithoutMultidevice
      BY <3>1, QRAssumption DEF ScanWithoutMultidevice, TypeOK
    <3> QED
      BY <1>2, <3>1 DEF World, QRCodes, PairSuccess, PairError, Login, Refused, Drop, Cancel, TypeOK
  <2> QED
    BY <1>2, <2>1, <2>2, <2>4, <2>5, <2>6 DEF TypeOK, HandlerType, EmitterType, Steps
<1>3. CASE EmitCheck /\ UNCHANGED crashed
  <2>1. /\ closed' \in BOOLEAN /\ emitter' \in EmitterType
        /\ emitter'.next = emitter.next /\ emitter'.step \in {"final", "done", "send"}
        /\ emitter'.step = "send" => emitter.next <= NCodes
    <3>1. CASE emitter.next > NCodes
      BY <1>3, <3>1 DEF EmitCheck, EmitterSwap, TypeOK, EmitterType, Steps
    <3>2. CASE ~(emitter.next > NCodes)
      BY <1>3, <3>2, QRAssumption DEF EmitCheck, TypeOK, EmitterType, Steps
    <3> QED
      BY <3>1, <3>2
  <2>2. emitter'.step = "send" => emitter'.next \in Codes
    BY <2>1, QRAssumption DEF Codes, TypeOK
  <2> QED
    BY <1>3, <2>1, <2>2 DEF EmitCheck, TypeOK, EmitterType, Steps
<1>4. CASE EmitCode /\ UNCHANGED crashed
  <2>1. CASE Room
    <3>1. emitter' \in EmitterType /\ emitter'.step = "wait" /\ Code(emitter.next) \in Item
      BY <1>4, <2>1, EventType, QRAssumption DEF EmitCode, TypeOK, EmitterType, Steps, Codes
    <3> QED
      BY <1>4, <2>1, <3>1, PutType DEF EmitCode, TypeOK, EmitterType, Steps
  <2>2. CASE ~Room
    BY <1>4, <2>2 DEF EmitCode, EmitterSwap, TypeOK
  <2> QED
    BY <2>1, <2>2
<1>5. CASE EmitWait /\ UNCHANGED crashed
  <2>1. closed' \in BOOLEAN /\ emitter' \in EmitterType /\ emitter'.step # "send"
    BY <1>5 DEF EmitWait, EmitterSwap, TypeOK, EmitterType, Steps
  <2> QED
    BY <1>5, <2>1 DEF EmitWait, TypeOK, EmitterType, Steps
<1>6. CASE EmitTimeout /\ UNCHANGED crashed
  <2>1. /\ output' \in Seq(Item) /\ Len(output') <= Capacity
        /\ received' = received /\ outClosed' = outClosed
    BY <1>6, EventType, PutType DEF EmitTimeout, Finals
  <2>2. emitter' \in EmitterType /\ emitter'.step = "close"
    BY <1>6 DEF EmitTimeout, TypeOK, EmitterType, Steps
  <2> QED
    BY <1>6, <2>1, <2>2 DEF EmitTimeout, TypeOK, EmitterType, Steps
<1>7. CASE (EmitClose \/ EmitDisconnect) /\ UNCHANGED crashed
  <2>1. emitter' \in EmitterType /\ emitter'.step # "send"
    BY <1>7 DEF EmitClose, EmitDisconnect, TypeOK, EmitterType, Steps
  <2>2. outClosed' \in BOOLEAN /\ open' \in BOOLEAN /\ expected' \in BOOLEAN
    BY <1>7 DEF EmitClose, EmitDisconnect, TypeOK
  <2> QED
    BY <1>7, <2>1, <2>2 DEF EmitClose, EmitDisconnect, TypeOK, EmitterType, Steps
<1>8. ASSUME NEW k \in Finals, Handle(k), UNCHANGED crashed PROVE TypeOK'
  <2>1. CASE HandleStop(k) \/ HandleSwap(k) \/ HandleClose(k)
    <3>1. handler' \in HandlerType
      BY <2>1 DEF HandleStop, HandleSwap, HandleClose, TypeOK, HandlerType
    <3>2. closed' \in BOOLEAN /\ stopped' \in BOOLEAN /\ outClosed' \in BOOLEAN
      BY <2>1 DEF HandleStop, HandleSwap, HandleClose, TypeOK
    <3>3. UNCHANGED <<cancelled, socket, output, received, emitter, notices>>
      BY <2>1 DEF HandleStop, HandleSwap, HandleClose
    <3> QED
      BY <3>1, <3>2, <3>3, <1>8 DEF TypeOK, HandlerType
  <2>2. CASE HandleSend(k)
    BY <2>2, <1>8, EventType, PutType DEF HandleSend, TypeOK
  <2> QED
    BY <1>8, <2>1, <2>2 DEF Handle
<1>9. CASE HandleNotice /\ UNCHANGED crashed
  <2>1. /\ notices' \in [fired : 0..MaxNotices, held : 0..MaxNotices]
        /\ notices'.held <= notices'.fired
    <3>1. notices.fired \in 0..MaxNotices /\ notices.held \in 0..MaxNotices
      BY DEF TypeOK
    <3>2. notices.held > 0 /\ notices.held <= notices.fired
      BY <1>9 DEF HandleNotice, TypeOK
    <3>3. notices' = [fired |-> notices.fired, held |-> notices.held - 1]
      BY <1>9 DEF HandleNotice, TypeOK
    <3> HIDE DEF socket, flags, channel
    <3> QED
      BY <3>1, <3>2, <3>3, QRAssumption
  <2>2. output' \in Seq(Item) /\ Len(output') <= Capacity /\ UNCHANGED <<received, outClosed>>
    BY <1>9, EventType, PutType DEF HandleNotice, TypeOK
  <2> QED
    BY <1>9, <2>1, <2>2 DEF HandleNotice, TypeOK
<1>10. CASE Read /\ UNCHANGED crashed
  <2>1. /\ output' \in Seq(Item) /\ Len(output') <= Capacity
        /\ received' \in Seq(Item)
    BY <1>10, QRAssumption DEF Read, TypeOK
  <2> QED
    BY <1>10, <2>1 DEF Read, TypeOK
<1>11. CASE UNCHANGED vars
  BY <1>11 DEF vars, TypeOK
<1> QED
  BY <1>1, <1>2, <1>3, <1>4, <1>5, <1>6, <1>7, <1>8, <1>9, <1>10, <1>11 DEF Next, Emitter

LEMMA TypeInit == Init => TypeOK
<1> SUFFICES ASSUME Init PROVE TypeOK
  OBVIOUS
<1>1. /\ output \in Seq(Item) /\ Len(output) <= Capacity /\ received \in Seq(Item)
      /\ 1 \in 1..(NCodes + 1)
      /\ notices \in [fired : 0..MaxNotices, held : 0..MaxNotices]
      /\ notices.held <= notices.fired
  BY QRAssumption DEF Init
<1> QED
  BY <1>1 DEF Init, TypeOK

\* Every variable keeps its type, and the emitter never runs past its codes.
THEOREM TypeCorrect == Spec => []TypeOK
  BY TypeInit, TypeStep, PTL DEF Spec

-----------------------------------------------------------------------------
(* One closer.                                                              *)

LEMMA CloserStep == TypeOK /\ OneCloser /\ [Next]_vars => OneCloser'
<1> SUFFICES ASSUME TypeOK, OneCloser, [Next]_vars PROVE OneCloser'
  OBVIOUS
<1> USE DEF socket, flags, channel
<1>0. emitter \in EmitterType /\ handler \in HandlerType /\ "emitter" \notin Finals
  BY DEF TypeOK, EmitterType, Steps, HandlerType, Finals
<1>1. ASSUME Closers' \subseteq Closers, closed => closed', outClosed' => outClosed
      PROVE  OneCloser'
  BY <1>1 DEF OneCloser
<1>2. ASSUME NEW x, Closers' \subseteq Closers \cup {x}, ~closed, closed', outClosed' = outClosed
      PROVE  OneCloser'
  BY <1>2 DEF OneCloser
<1>3. ASSUME NEW x \in Closers, x \notin Closers', Closers' \subseteq Closers, closed' = closed
      PROVE  OneCloser'
  BY <1>3 DEF OneCloser
<1>4. CASE EmitPanics \/ UNCHANGED vars
  <2>1. UNCHANGED <<closed, outClosed, handler, emitter>>
    BY <1>4 DEF EmitPanics, vars
  <2>2. Closers' = Closers
    BY <2>1 DEF Closers
  <2> QED
    BY <1>1, <2>1, <2>2
<1>5. CASE World
  <2>1. UNCHANGED <<closed, outClosed>>
    BY <1>5 DEF World, QRCodes, PairSuccess, PairError, Login, Refused, Drop,
                ScanWithoutMultidevice, Cancel
  <2>2. \A k \in Finals : Fires(k) =>
          \A j \in Finals : handler'[j] \in {"send", "close"} => handler[j] \in {"send", "close"}
    BY <1>0 DEF Fires, HandlerType
  <2>3. \A j \in Finals : handler'[j] \in {"send", "close"} => handler[j] \in {"send", "close"}
    BY <1>5, <2>2 DEF World, QRCodes, PairSuccess, PairError, Login, Refused, Drop,
                ScanWithoutMultidevice, Cancel, Finals
  <2>4. emitter'.step \in {"final", "close"} => emitter.step \in {"final", "close"}
    BY <1>0, <1>5 DEF World, QRCodes, PairSuccess, PairError, Login, Refused, Drop,
                ScanWithoutMultidevice, Cancel, EmitterType
  <2> QED
    BY <1>1, <2>1, <2>3, <2>4 DEF Closers
<1>6. CASE EmitCheck
  <2>1. UNCHANGED <<outClosed, handler>>
    BY <1>6 DEF EmitCheck
  <2>2. \/ emitter'.step \in {"send", "done"} /\ (closed => closed')
        \/ emitter'.step = "final" /\ ~closed /\ closed'
    BY <1>0, <1>6 DEF EmitCheck, EmitterSwap, EmitterType, TypeOK
  <2>3. Closers' \subseteq Closers \cup {"emitter"}
    BY <2>1 DEF Closers
  <2>4. emitter'.step \in {"send", "done"} => Closers' \subseteq Closers
    BY <2>1 DEF Closers
  <2> QED
    BY <1>1, <1>2, <2>1, <2>2, <2>3, <2>4
<1>7. CASE EmitCode
  <2>1. UNCHANGED <<outClosed, handler>>
    BY <1>7 DEF EmitCode, Put
  <2>2. \/ emitter'.step \in {"wait", "done"} /\ (closed => closed')
        \/ emitter'.step = "close" /\ ~closed /\ closed'
    BY <1>0, <1>7 DEF EmitCode, EmitterSwap, EmitterType, TypeOK
  <2>3. Closers' \subseteq Closers \cup {"emitter"}
    BY <2>1 DEF Closers
  <2>4. emitter'.step \in {"wait", "done"} => Closers' \subseteq Closers
    BY <2>1 DEF Closers
  <2> QED
    BY <1>1, <1>2, <2>1, <2>2, <2>3, <2>4
<1>8. CASE EmitWait
  <2>1. UNCHANGED <<outClosed, handler>>
    BY <1>8 DEF EmitWait
  <2>2. \/ emitter'.step \in {"check", "done"} /\ (closed => closed')
        \/ emitter'.step = "close" /\ ~closed /\ closed'
    BY <1>0, <1>8 DEF EmitWait, EmitterSwap, EmitterType, TypeOK
  <2>3. Closers' \subseteq Closers \cup {"emitter"}
    BY <2>1 DEF Closers
  <2>4. emitter'.step \in {"check", "done"} => Closers' \subseteq Closers
    BY <2>1 DEF Closers
  <2> QED
    BY <1>1, <1>2, <2>1, <2>2, <2>3, <2>4
<1>9. CASE EmitTimeout \/ EmitDisconnect
  <2>1. UNCHANGED <<closed, outClosed, handler>>
    BY <1>9 DEF EmitTimeout, EmitDisconnect, Put
  <2>2. emitter'.step \in {"final", "close"} => emitter.step \in {"final", "close"}
    BY <1>0, <1>9 DEF EmitTimeout, EmitDisconnect, EmitterType
  <2> QED
    BY <1>1, <2>1, <2>2 DEF Closers
<1>10. CASE EmitClose
  <2>1. UNCHANGED <<closed, handler>> /\ emitter.step = "close" /\ emitter'.step = "disconnect"
    BY <1>0, <1>10 DEF EmitClose, EmitterType
  <2>2. "emitter" \in Closers /\ "emitter" \notin Closers' /\ Closers' \subseteq Closers
    BY <1>0, <2>1 DEF Closers
  <2> QED
    BY <1>3, <2>1, <2>2
<1>11. ASSUME NEW k \in Finals, Handle(k) PROVE OneCloser'
  <2>1. CASE HandleStop(k)
    <3>1. /\ UNCHANGED <<closed, outClosed, emitter>> /\ handler'[k] \in {"done", "swap"}
          /\ \A j \in Finals : j # k => handler'[j] = handler[j]
      BY <1>0, <2>1 DEF HandleStop, HandlerType
    <3> QED
      BY <1>1, <3>1 DEF Closers
  <2>2. CASE HandleSwap(k)
    <3>1. /\ UNCHANGED <<outClosed, emitter>> /\ closed'
          /\ handler'[k] \in {"done", "send"} /\ (closed => handler'[k] = "done")
          /\ \A j \in Finals : j # k => handler'[j] = handler[j]
      BY <1>0, <2>2 DEF HandleSwap, HandlerType
    <3>2. Closers' \subseteq Closers \cup {k}
      BY <3>1 DEF Closers
    <3>3. closed => Closers' \subseteq Closers
      BY <3>1 DEF Closers
    <3>4. closed \in BOOLEAN
      BY DEF TypeOK
    <3>5. CASE closed
      BY <1>1, <3>1, <3>3, <3>5
    <3>6. CASE ~closed
      BY <1>2, <3>1, <3>2, <3>6
    <3> QED
      BY <3>5, <3>6
  <2>3. CASE HandleSend(k)
    <3>1. /\ UNCHANGED <<closed, outClosed, emitter>> /\ handler[k] = "send"
          /\ \A j \in Finals : j # k => handler'[j] = handler[j]
      BY <1>0, <2>3 DEF HandleSend, HandlerType, Put
    <3> QED
      BY <1>1, <3>1 DEF Closers
  <2>4. CASE HandleClose(k)
    <3>1. /\ UNCHANGED <<closed, emitter>> /\ handler[k] = "close" /\ handler'[k] = "done"
          /\ \A j \in Finals : j # k => handler'[j] = handler[j]
      BY <1>0, <2>4 DEF HandleClose, HandlerType
    <3>2. k \in Closers /\ k \notin Closers' /\ Closers' \subseteq Closers
      BY <1>0, <3>1 DEF Closers
    <3> QED
      BY <1>3, <3>1, <3>2
  <2> QED
    BY <1>11, <2>1, <2>2, <2>3, <2>4 DEF Handle
<1>12. CASE HandleNotice \/ Read
  <2>1. UNCHANGED <<closed, outClosed, handler, emitter>>
    BY <1>12 DEF HandleNotice, Read, Put
  <2>2. Closers' = Closers
    BY <2>1 DEF Closers
  <2> QED
    BY <1>1, <2>1, <2>2
<1> QED
  BY <1>4, <1>5, <1>6, <1>7, <1>8, <1>9, <1>10, <1>11, <1>12 DEF Next, Emitter

LEMMA CloserInit == Init => OneCloser
  BY DEF Init, OneCloser, Closers

\* One goroutine at a time may close the output channel, and it is closed once.
THEOREM ClosedOnce == Spec => []OneCloser
<1>1. TypeOK /\ OneCloser /\ [Next]_vars => TypeOK' /\ OneCloser'
  BY TypeStep, CloserStep
<1> QED
  BY <1>1, TypeInit, CloserInit, PTL DEF Spec

-----------------------------------------------------------------------------
(* What was sent.                                                           *)

\* A final item was sent.
Done == \E i \in DOMAIN Sent : Sent[i].event \in Finals

\* No code was sent after a final item.
InOrder ==
  \A i, j \in DOMAIN Sent : Sent[i].event \in Finals /\ Sent[j].event = "code" => j < i

\* Why a channel may be closed without a final item.
Excused == cancelled \/ (emitter.next <= NCodes /\ Len(Sent) >= Capacity)

\* A final item is sent by the closer and nobody else, before it closes; codes go
\* up; an emitter about to send a code passed its check before any final item.
Ledger ==
  /\ Done => closed
  /\ \A k \in Finals : handler[k] = "send" => ~Done
  /\ \A k \in Finals : handler[k] = "close" => Done
  /\ emitter.step = "final" => ~Done
  /\ emitter.step = "send" => InOrder
  /\ \A i \in DOMAIN Sent : Sent[i].code < emitter.next
  /\ outClosed \/ emitter.step = "close" => Done \/ Excused

\* The items after one more is sent.
LEMMA Appended ==
  ASSUME TypeOK, NEW x \in Item, Room, Put(x)
  PROVE  /\ Sent \in Seq(Item) /\ Len(Sent') = Len(Sent) + 1 /\ Len(Sent) \in Nat
         /\ DOMAIN Sent = 1..Len(Sent) /\ DOMAIN Sent' = 1..(Len(Sent) + 1)
         /\ \A i \in DOMAIN Sent : Sent'[i] = Sent[i]
         /\ Sent'[Len(Sent) + 1] = x
         /\ Done' <=> Done \/ x.event \in Finals
         /\ Sent' = Append(Sent, x)
<1>1. Sent \in Seq(Item) /\ Sent' = Append(Sent, x)
  BY PutType
<1>2. /\ Len(Sent') = Len(Sent) + 1 /\ Len(Sent) \in Nat
      /\ DOMAIN Sent = 1..Len(Sent) /\ DOMAIN Sent' = 1..(Len(Sent) + 1)
      /\ \A i \in DOMAIN Sent : Sent'[i] = Sent[i]
      /\ Sent'[Len(Sent) + 1] = x
  BY <1>1
<1>3. \A i \in DOMAIN Sent' : i \in DOMAIN Sent \/ i = Len(Sent) + 1
  BY <1>2
<1>4. Len(Sent) + 1 \in DOMAIN Sent' /\ \A i \in DOMAIN Sent : i \in DOMAIN Sent'
  BY <1>2
<1>5. Done' <=> Done \/ x.event \in Finals
  BY <1>2, <1>3, <1>4 DEF Done
<1> QED
  BY <1>1, <1>2, <1>5

\* An item that is no code is sent in order after any others.
LEMMA StillInOrder ==
  ASSUME TypeOK, NEW x \in Item, Room, Put(x), x.event # "code", InOrder
  PROVE  InOrder'
<1> SUFFICES ASSUME NEW i \in DOMAIN Sent', NEW j \in DOMAIN Sent',
                    Sent'[i].event \in Finals, Sent'[j].event = "code"
             PROVE  j < i
  BY DEF InOrder
<1>1. j \in DOMAIN Sent
  BY Appended
<1>2. CASE i \in DOMAIN Sent
  BY <1>1, <1>2, Appended DEF InOrder
<1>3. CASE i \notin DOMAIN Sent
  BY <1>1, <1>3, Appended
<1> QED
  BY <1>2, <1>3

\* A step that sends nothing.
LEMMA LedgerKept ==
  ASSUME TypeOK, Ledger, Sent' = Sent, closed => closed', emitter'.next = emitter.next,
         cancelled => cancelled',
         \A k \in Finals : handler'[k] = "send" => handler[k] = "send" \/ ~closed,
         \A k \in Finals : handler'[k] = "close" => handler[k] = "close",
         emitter'.step = "final" => emitter.step = "final" \/ ~closed,
         emitter'.step = "send" => emitter.step = "send" \/ ~closed,
         emitter'.step = "close" => emitter.step = "close" \/ Excused',
         outClosed' => outClosed \/ emitter.step = "close"
                         \/ \E k \in Finals : handler[k] = "close"
  PROVE  Ledger'
<1>1. Done' = Done /\ InOrder' = InOrder /\ (Excused => Excused')
  BY DEF Done, InOrder, Excused
<1>2. ~Done => InOrder
  BY DEF Done, InOrder
<1> QED
  BY <1>1, <1>2 DEF Ledger

LEMMA LedgerStep == TypeOK /\ OneCloser /\ Ledger /\ [Next]_vars => Ledger'
<1> SUFFICES ASSUME TypeOK, OneCloser, Ledger, [Next]_vars PROVE Ledger'
  OBVIOUS
<1> USE DEF socket, flags, channel
<1>0. emitter \in EmitterType /\ handler \in HandlerType /\ closed \in BOOLEAN
      /\ output \in Seq(Item) /\ received \in Seq(Item) /\ "emitter" \notin Finals
  BY DEF TypeOK, EmitterType, Steps, HandlerType, Finals
<1>1. CASE EmitPanics \/ UNCHANGED vars
  <2>1. UNCHANGED <<cancelled, socket, flags, channel, emitter, handler>>
    BY <1>1 DEF EmitPanics, vars
  <2> QED
    BY <2>1, LedgerKept DEF Sent
<1>2. CASE World
  <2>1. UNCHANGED <<flags, channel>> /\ (cancelled => cancelled')
    BY <1>2 DEF World, QRCodes, PairSuccess, PairError, Login, Refused, Drop,
                ScanWithoutMultidevice, Cancel
  <2>2. \A k \in Finals : Fires(k) =>
          \A j \in Finals : handler'[j] \in {"send", "close"} => handler'[j] = handler[j]
    BY <1>0 DEF Fires, HandlerType
  <2>3. \A j \in Finals : handler'[j] \in {"send", "close"} => handler'[j] = handler[j]
    BY <1>2, <2>2 DEF World, QRCodes, PairSuccess, PairError, Login, Refused, Drop,
                ScanWithoutMultidevice, Cancel, Finals
  <2>4. emitter'.next = emitter.next /\ emitter'.step \in {"check", emitter.step}
    BY <1>0, <1>2 DEF World, QRCodes, PairSuccess, PairError, Login, Refused, Drop,
                ScanWithoutMultidevice, Cancel, EmitterType
  <2> QED
    BY <2>1, <2>3, <2>4, LedgerKept DEF Sent
<1>3. CASE EmitCheck
  <2>1. UNCHANGED <<cancelled, channel, handler>>
    BY <1>3 DEF EmitCheck
  <2>2. /\ emitter'.next = emitter.next
        /\ \/ emitter'.step \in {"send", "final"} /\ ~closed
           \/ emitter'.step = "done"
        /\ closed => closed'
    BY <1>0, <1>3 DEF EmitCheck, EmitterSwap, EmitterType
  <2> QED
    BY <2>1, <2>2, LedgerKept DEF Sent
<1>4. CASE EmitCode
  <2>1. CASE Room
    <3> DEFINE x == Code(emitter.next)
    <3>1. /\ emitter.next \in Codes /\ emitter'.step = "wait" /\ emitter'.next = emitter.next + 1
          /\ Put(x) /\ UNCHANGED <<cancelled, closed, handler, outClosed>> /\ ~outClosed
      BY <1>4, <2>1 DEF EmitCode, TypeOK, Put
    <3>2. x \in Item /\ x.event \notin Finals /\ x.code = emitter.next
      BY <3>1, EventType DEF Code, Finals
    <3> HIDE DEF x
    <3>3. Done' <=> Done
      BY <2>1, <3>1, <3>2, Appended
    <3>4. \A i \in DOMAIN Sent' : Sent'[i].code < emitter'.next
      <4>1. emitter.next \in Nat
        BY <3>1, QRAssumption DEF Codes
      <4>2. \A i \in DOMAIN Sent : Sent[i].code \in Nat
        <5>1. Sent \in Seq(Item)
          BY <2>1, <3>1, <3>2, Appended
        <5>2. \A y \in Item : y.code \in Nat
          BY QRAssumption DEF Item
        <5>3. \A i \in DOMAIN Sent : Sent[i] \in Item
          BY <5>1
        <5> QED
          BY <5>2, <5>3
      <4>3. SUFFICES ASSUME NEW i \in DOMAIN Sent' PROVE Sent'[i].code < emitter.next + 1
        BY <3>1
      <4>4. CASE i \in DOMAIN Sent
        BY <2>1, <3>1, <3>2, <4>1, <4>2, <4>4, Appended DEF Ledger
      <4>5. CASE i \notin DOMAIN Sent
        <5>1. Sent'[i] = x
          BY <2>1, <3>1, <3>2, <4>5, Appended
        <5> QED
          BY <3>2, <4>1, <5>1
      <4> QED
        BY <4>4, <4>5
    <3> QED
      BY <3>1, <3>3, <3>4 DEF Ledger
  <2>2. CASE ~Room
    <3>1. /\ UNCHANGED <<cancelled, channel, handler>> /\ emitter'.next = emitter.next
          /\ emitter'.step \in {"close", "done"} /\ (closed => closed')
          /\ emitter.next \in Codes
      BY <1>0, <1>4, <2>2 DEF EmitCode, EmitterSwap, EmitterType, TypeOK
    <3>2. Len(Sent) >= Capacity /\ emitter.next <= NCodes
      BY <1>0, <2>2, <3>1, QRAssumption DEF Room, Sent, Codes
    <3>3. Excused'
      BY <3>1, <3>2 DEF Excused, Sent
    <3> QED
      BY <3>1, <3>3, LedgerKept DEF Sent
  <2> QED
    BY <2>1, <2>2
<1>5. CASE EmitWait
  <2>1. UNCHANGED <<cancelled, channel, handler>>
    BY <1>5 DEF EmitWait
  <2>2. /\ emitter'.next = emitter.next /\ (closed => closed')
        /\ emitter'.step \in {"check", "done"} \/ (emitter'.step = "close" /\ cancelled)
    BY <1>0, <1>5 DEF EmitWait, EmitterSwap, EmitterType
  <2> QED
    BY <2>1, <2>2, LedgerKept DEF Sent, Excused
<1>6. CASE EmitTimeout
  <2> DEFINE x == Event("timeout")
  <2>1. /\ Room /\ Put(x) /\ UNCHANGED <<cancelled, closed, handler, outClosed>>
        /\ emitter.step = "final" /\ emitter'.step = "close" /\ emitter'.next = emitter.next
    BY <1>0, <1>6 DEF EmitTimeout, EmitterType, Put
  <2>2. x \in Item /\ x.event \in Finals /\ x.code = 0
    BY EventType DEF Finals, Event
  <2> HIDE DEF x
  <2>3. Done'
    BY <2>1, <2>2, Appended
  <2>4. closed /\ \A k \in Finals : handler[k] \notin {"send", "close"}
    BY <1>0, <2>1 DEF OneCloser, Closers
  <2>5. \A i \in DOMAIN Sent' : Sent'[i].code < emitter'.next
    <3>1. emitter.next \in Nat /\ emitter.next > 0
      BY <1>0, QRAssumption DEF EmitterType
    <3>2. /\ DOMAIN Sent' = 1..(Len(Sent) + 1) /\ DOMAIN Sent = 1..Len(Sent) /\ Len(Sent) \in Nat
          /\ \A i \in DOMAIN Sent : Sent'[i] = Sent[i]
          /\ Sent'[Len(Sent) + 1] = x
      BY <2>1, <2>2, Appended
    <3>3. Sent'[Len(Sent) + 1].code < emitter'.next
      BY <2>1, <2>2, <3>1, <3>2
    <3>4. \A i \in DOMAIN Sent : Sent'[i].code < emitter'.next
      BY <2>1, <3>2 DEF Ledger
    <3> QED
      BY <3>2, <3>3, <3>4
  <2> QED
    BY <2>1, <2>3, <2>4, <2>5 DEF Ledger
<1>7. CASE EmitClose
  <2>1. /\ UNCHANGED <<cancelled, output, received, closed, handler>> /\ emitter.step = "close"
        /\ emitter'.step = "disconnect" /\ emitter'.next = emitter.next
    BY <1>0, <1>7 DEF EmitClose, EmitterType
  <2> QED
    BY <2>1, LedgerKept DEF Sent
<1>8. CASE EmitDisconnect
  <2>1. /\ UNCHANGED <<cancelled, channel, closed, handler>>
        /\ emitter'.step = "check" /\ emitter'.next = emitter.next
    BY <1>0, <1>8 DEF EmitDisconnect, EmitterType
  <2> QED
    BY <2>1, LedgerKept DEF Sent
<1>9. ASSUME NEW k \in Finals, HandleStop(k) \/ HandleSwap(k) \/ HandleClose(k) PROVE Ledger'
  <2>1. /\ UNCHANGED <<cancelled, output, received, emitter>> /\ (closed => closed')
        /\ \A j \in Finals : j # k => handler'[j] = handler[j]
        /\ handler'[k] \in {"done", "swap"} \/ (handler'[k] = "send" /\ ~closed)
        /\ outClosed' => outClosed \/ handler[k] = "close"
    BY <1>0, <1>9 DEF HandleStop, HandleSwap, HandleClose, HandlerType
  <2> QED
    BY <2>1, LedgerKept DEF Sent
<1>10. ASSUME NEW k \in Finals, HandleSend(k) PROVE Ledger'
  <2> DEFINE x == Event(k)
  <2>1. /\ Room /\ Put(x) /\ UNCHANGED <<cancelled, closed, emitter, outClosed>>
        /\ handler[k] = "send" /\ handler'[k] = "close"
        /\ \A j \in Finals : j # k => handler'[j] = handler[j]
    BY <1>0, <1>10 DEF HandleSend, HandlerType, Put
  <2>2. x \in Item /\ x.event \in Finals /\ x.code = 0 /\ x.event # "code"
    BY EventType DEF Finals, Event
  <2> HIDE DEF x
  <2>3. Done'
    BY <2>1, <2>2, Appended
  <2>4. /\ closed /\ emitter.step \notin {"final", "close"} /\ ~outClosed
        /\ \A j \in Finals : j # k => handler[j] \notin {"send", "close"}
    BY <1>0, <2>1 DEF OneCloser, Closers
  <2>5. \A i \in DOMAIN Sent' : Sent'[i].code < emitter'.next
    BY <1>0, <2>1, <2>2, Appended, QRAssumption DEF Ledger, EmitterType
  <2>6. emitter.step = "send" => InOrder'
    BY <2>1, <2>2, StillInOrder DEF Ledger
  <2> QED
    BY <2>1, <2>3, <2>4, <2>5, <2>6 DEF Ledger
<1>11. CASE HandleNotice
  <2>1. CASE outClosed
    BY <1>11, <2>1, LedgerKept DEF HandleNotice, Sent
  <2>2. CASE ~outClosed
    <3> DEFINE x == Event(Notice)
    <3>1. /\ Room /\ Put(x) /\ UNCHANGED <<cancelled, closed, emitter, handler, outClosed>>
      BY <1>11, <2>2 DEF HandleNotice, Put
    <3>2. x \in Item /\ x.event \notin Finals /\ x.code = 0 /\ x.event # "code"
      BY EventType DEF Finals, Event, Notice
    <3> HIDE DEF x
    <3>3. (Done' <=> Done) /\ Len(Sent') = Len(Sent) + 1 /\ Len(Sent) \in Nat
      BY <3>1, <3>2, Appended
    <3>4. \A i \in DOMAIN Sent' : Sent'[i].code < emitter'.next
      BY <1>0, <3>1, <3>2, Appended, QRAssumption DEF Ledger, EmitterType
    <3>5. emitter.step = "send" => InOrder'
      BY <3>1, <3>2, StillInOrder DEF Ledger
    <3>6. Excused => Excused'
      BY <3>1, <3>3, QRAssumption DEF Excused
    <3> QED
      BY <3>1, <3>3, <3>4, <3>5, <3>6 DEF Ledger
  <2> QED
    BY <2>1, <2>2
<1>12. CASE Read
  <2>1. /\ UNCHANGED <<cancelled, closed, emitter, handler, outClosed>> /\ Sent' = Sent
    BY <1>0, <1>12, SentRead DEF Read, Sent
  <2> QED
    BY <2>1, LedgerKept
<1> QED
  BY <1>1, <1>2, <1>3, <1>4, <1>5, <1>6, <1>7, <1>8, <1>9, <1>10, <1>11, <1>12
  DEF Next, Emitter, Handle

LEMMA LedgerInit == Init => Ledger
<1> SUFFICES ASSUME Init PROVE Ledger
  OBVIOUS
<1>1. Sent = <<>> /\ DOMAIN Sent = {}
  BY DEF Init, Sent
<1> QED
  BY <1>1 DEF Init, Ledger, Done, InOrder

\* A channel that closes without a final item was given up because the context
\* ended or the reader lagged.
THEOREM SilentEndsExplained == Spec => []SilentEndExplained
<1>1. TypeOK /\ OneCloser /\ Ledger /\ [Next]_vars => TypeOK' /\ OneCloser' /\ Ledger'
  BY TypeStep, CloserStep, LedgerStep
<1>2. Init => TypeOK /\ OneCloser /\ Ledger
  BY TypeInit, CloserInit, LedgerInit
<1>3. Ledger => SilentEndExplained
  BY DEF Ledger, SilentEndExplained, Done, Excused
<1> QED
  BY <1>1, <1>2, <1>3, PTL DEF Spec

-----------------------------------------------------------------------------
(* The channel implements the stream.                                       *)

LEMMA StreamInit == Init => Stream!Init
  BY DEF Init, Stream!Init, Sent

LEMMA StreamStep ==
  TypeOK /\ OneCloser /\ Ledger /\ [Next]_vars => [Stream!Next]_<<Sent, outClosed>>
<1> SUFFICES ASSUME TypeOK, OneCloser, Ledger, [Next]_vars,
                    ~(UNCHANGED <<Sent, outClosed>>)
             PROVE  Stream!Next
  OBVIOUS
<1> USE DEF socket, flags, channel
<1>0. handler \in HandlerType /\ output \in Seq(Item) /\ received \in Seq(Item)
  BY DEF TypeOK, HandlerType
<1>1. CASE EmitPanics \/ UNCHANGED vars \/ World \/ EmitCheck \/ EmitWait \/ EmitDisconnect
  BY <1>1 DEF EmitPanics, vars, World, QRCodes, PairSuccess, PairError, Login, Refused, Drop,
              ScanWithoutMultidevice, Cancel, EmitCheck, EmitWait, EmitDisconnect, Sent
<1>2. CASE EmitCode
  <2>1. CASE Room
    <3>1. /\ emitter.next \in Codes /\ emitter.step = "send" /\ ~outClosed
          /\ Put(Code(emitter.next)) /\ outClosed' = outClosed
      BY <1>2, <2>1 DEF EmitCode, TypeOK, Put
    <3>2. Sent' = Append(Sent, Code(emitter.next))
      BY <2>1, <3>1, EventType, Appended
    <3>3. Stream!Fresh(emitter.next) /\ Stream!NoneLate
      BY <3>1 DEF Ledger, InOrder, Stream!Fresh, Stream!NoneLate, Stream!IsFinal
    <3>4. Stream!SendCode(emitter.next)
      BY <3>1, <3>2, <3>3 DEF Stream!SendCode, Stream!Code, Code
    <3> QED
      BY <3>1, <3>4 DEF Stream!Next, Stream!Codes, Codes
  <2>2. CASE ~Room
    BY <1>2, <2>2 DEF EmitCode, Sent
  <2> QED
    BY <2>1, <2>2
<1>3. ASSUME NEW k \in Finals, Room, Put(Event(k)), ~Done, ~outClosed PROVE Stream!Next
  <2>1. Sent' = Append(Sent, Event(k)) /\ outClosed' = outClosed
    BY <1>3, EventType, Appended DEF Put
  <2>2. ~Stream!HasFinal
    BY <1>3 DEF Done, Stream!HasFinal, Stream!IsFinal
  <2>3. Stream!SendFinal(k)
    BY <1>3, <2>1, <2>2 DEF Stream!SendFinal, Stream!Event, Event
  <2> QED
    BY <2>3 DEF Stream!Next
<1>4. CASE EmitTimeout
  <2>1. "timeout" \in Finals /\ Room /\ Put(Event("timeout")) /\ emitter.step = "final"
    BY <1>4 DEF EmitTimeout, Finals
  <2>2. ~Done /\ ~outClosed
    BY <2>1 DEF Ledger, OneCloser, Closers
  <2> QED
    BY <1>3, <2>1, <2>2
<1>5. ASSUME NEW k \in Finals, HandleSend(k) PROVE Stream!Next
  <2>1. Room /\ Put(Event(k)) /\ handler[k] = "send"
    BY <1>5 DEF HandleSend
  <2>2. ~Done /\ ~outClosed
    BY <2>1 DEF Ledger, OneCloser, Closers
  <2> QED
    BY <1>3, <2>1, <2>2
<1>6. CASE EmitClose \/ \E k \in Finals : HandleClose(k)
  <2>1. outClosed' = TRUE /\ Sent' = Sent
    BY <1>6 DEF EmitClose, HandleClose, Sent
  <2>2. ~outClosed
    BY <1>6 DEF EmitClose, HandleClose, OneCloser, Closers
  <2> QED
    BY <2>1, <2>2 DEF Stream!Next, Stream!Close
<1>7. CASE \E k \in Finals : HandleStop(k) \/ HandleSwap(k)
  BY <1>7 DEF HandleStop, HandleSwap, Sent
<1>8. CASE HandleNotice
  <2>1. CASE outClosed
    BY <1>8, <2>1 DEF HandleNotice, Sent
  <2>2. CASE ~outClosed
    <3>1. Room /\ Put(Event(Notice)) /\ outClosed' = outClosed
      BY <1>8, <2>2 DEF HandleNotice, Put
    <3>2. Sent' = Append(Sent, Event(Notice))
      BY <3>1, EventType, Appended
    <3> QED
      BY <2>2, <3>1, <3>2 DEF Stream!Next, Stream!SendNotice, Stream!Event, Event
  <2> QED
    BY <2>1, <2>2
<1>9. CASE Read
  BY <1>0, <1>9, SentRead DEF Read, Sent
<1> QED
  BY <1>1, <1>2, <1>4, <1>5, <1>6, <1>7, <1>8, <1>9 DEF Next, Emitter, Handle

\* The channel implements the stream its readers rely on: codes in order, at most
\* one final item, at most one code after it, nothing once it is closed.
THEOREM ImplementsStream == Spec => StreamSpec
<1>1. TypeOK /\ OneCloser /\ Ledger /\ [Next]_vars => TypeOK' /\ OneCloser' /\ Ledger'
  BY TypeStep, CloserStep, LedgerStep
<1>2. Init => TypeOK /\ OneCloser /\ Ledger
  BY TypeInit, CloserInit, LedgerInit
<1> QED
  BY <1>1, <1>2, StreamInit, StreamStep, PTL DEF Spec, StreamSpec, Stream!Spec

-----------------------------------------------------------------------------
(* What safety says of StreamEnds and HangsUp: a channel with something in it *)
(* is never left to nobody, and neither is a socket still open after it.      *)

\* Somebody is on the way to close the channel: the emitter at its loop, or a
\* handler that stopped the emitter.
Attended ==
  Sent # <<>> /\ ~outClosed =>
    \/ emitter.step \in {"check", "send", "wait", "final", "close"}
    \/ \E k \in Finals : handler[k] \in {"swap", "send", "close"}

\* An emitter that closed the channel is about to disconnect, unless an event came.
HangUpDue ==
  outClosed => ~open \/ stopped \/ paired = "in" \/ emitter.step = "disconnect"

\* The inductive invariant: who stops the emitter takes its place, and the
\* emitter leaves only a channel that somebody else has taken.
AttendInv ==
  /\ closed /\ ~outClosed => Closers # {}
  /\ stopped /\ ~closed => \E k \in Finals : handler[k] = "swap"
  /\ emitter.step = "done" => closed \/ stopped
  /\ emitter.step = "idle" => notices.held = 0 /\ (~closed => Sent = <<>>)
  /\ emitter.step = "disconnect" => outClosed
  /\ \A k \in Finals : handler[k] \in {"swap", "send", "close"} => stopped
  /\ HangUpDue

LEMMA AttendStep == TypeOK /\ OneCloser /\ AttendInv /\ [Next]_vars => AttendInv'
<1> SUFFICES ASSUME TypeOK, OneCloser, AttendInv, [Next]_vars PROVE AttendInv'
  OBVIOUS
<1> USE DEF socket, flags, channel
<1>0. /\ emitter \in EmitterType /\ handler \in HandlerType /\ "emitter" \notin Finals
      /\ output \in Seq(Item) /\ received \in Seq(Item)
      /\ closed \in BOOLEAN /\ stopped \in BOOLEAN /\ outClosed \in BOOLEAN
  BY DEF TypeOK, EmitterType, Steps, HandlerType, Finals
<1>1. CASE EmitPanics \/ UNCHANGED vars
  <2>1. UNCHANGED <<closed, stopped, outClosed, handler, emitter, notices, open, paired, Sent>>
    BY <1>1 DEF EmitPanics, vars, Sent
  <2> QED
    BY <2>1 DEF AttendInv, HangUpDue, Closers
<1>2. CASE World
  <2>1. UNCHANGED <<closed, stopped, outClosed, Sent>>
    BY <1>2 DEF World, QRCodes, PairSuccess, PairError, Login, Refused, Drop,
                ScanWithoutMultidevice, Cancel, Sent
  <2>2. \A k \in Finals : Fires(k) =>
          \A j \in Finals : \/ handler'[j] = handler[j]
                            \/ handler[j] = "idle" /\ handler'[j] = "stop"
    BY <1>0 DEF Fires, HandlerType
  <2>3. \A j \in Finals : \A step \in {"swap", "send", "close"} :
          handler'[j] = step <=> handler[j] = step
    BY <1>2, <2>2 DEF World, QRCodes, PairSuccess, PairError, Login, Refused, Drop,
                ScanWithoutMultidevice, Cancel, Finals
  <2>4. \/ emitter' = emitter
        \/ emitter.step = "idle" /\ emitter'.step = "check"
    BY <1>0, <1>2 DEF World, QRCodes, PairSuccess, PairError, Login, Refused, Drop,
                ScanWithoutMultidevice, Cancel, EmitterType
  <2>5. notices'.held = notices.held \/ emitter'.step # "idle"
    BY <1>2 DEF World, QRCodes, PairSuccess, PairError, Login, Refused, Drop,
                ScanWithoutMultidevice, Cancel
  <2>6. /\ open' => open \/ paired' = "in"
        /\ paired = "in" => paired' = "in"
    BY <1>2 DEF World, QRCodes, PairSuccess, PairError, Login, Refused, Drop,
                ScanWithoutMultidevice, Cancel
  <2>7. Closers' = Closers
    BY <2>3, <2>4 DEF Closers
  <2> QED
    BY <2>1, <2>3, <2>4, <2>5, <2>6, <2>7 DEF AttendInv, HangUpDue
<1>3. CASE EmitCheck
  <2>1. UNCHANGED <<stopped, outClosed, handler, notices, open, paired>>
    BY <1>3 DEF EmitCheck
  <2>2. /\ emitter.step = "check" /\ (closed => closed')
        /\ \/ emitter'.step = "send" /\ ~closed'
           \/ emitter'.step = "done" /\ closed
           \/ emitter'.step = "final" /\ closed'
    BY <1>0, <1>3 DEF EmitCheck, EmitterSwap, EmitterType
  <2> QED
    BY <2>1, <2>2 DEF AttendInv, HangUpDue, Closers
<1>4. CASE EmitCode
  <2>1. UNCHANGED <<stopped, outClosed, handler, notices, open, paired>> /\ ~outClosed
    BY <1>4 DEF EmitCode, Put
  <2>2. /\ emitter.step = "send" /\ (closed => closed')
        /\ \/ emitter'.step = "wait" /\ closed' = closed
           \/ emitter'.step = "done" /\ closed
           \/ emitter'.step = "close" /\ closed'
    BY <1>0, <1>4 DEF EmitCode, EmitterSwap, EmitterType
  <2> QED
    BY <2>1, <2>2 DEF AttendInv, HangUpDue, Closers
<1>5. CASE EmitWait
  <2>1. UNCHANGED <<stopped, outClosed, handler, notices, open, paired>>
    BY <1>5 DEF EmitWait
  <2>2. /\ emitter.step = "wait" /\ (closed => closed')
        /\ \/ emitter'.step = "check" /\ closed' = closed
           \/ emitter'.step = "done" /\ stopped /\ closed' = closed
           \/ emitter'.step = "close" /\ closed'
    BY <1>0, <1>5 DEF EmitWait, EmitterSwap, EmitterType
  <2> QED
    BY <2>1, <2>2 DEF AttendInv, HangUpDue, Closers
<1>6. CASE EmitTimeout
  <2>1. /\ UNCHANGED <<closed, stopped, outClosed, handler, notices, open, paired>>
        /\ emitter.step = "final" /\ emitter'.step = "close"
    BY <1>0, <1>6 DEF EmitTimeout, Put, EmitterType
  <2> QED
    BY <2>1 DEF AttendInv, HangUpDue, Closers
<1>7. CASE EmitClose
  <2>1. /\ UNCHANGED <<closed, stopped, handler, notices, open, paired>> /\ outClosed'
        /\ emitter.step = "close" /\ emitter'.step = "disconnect"
    BY <1>0, <1>7 DEF EmitClose, EmitterType
  <2> QED
    BY <2>1 DEF AttendInv, HangUpDue
<1>8. CASE EmitDisconnect
  <2>1. /\ UNCHANGED <<closed, stopped, outClosed, handler, notices>> /\ ~open'
        /\ emitter.step = "disconnect" /\ emitter'.step = "check"
    BY <1>0, <1>8 DEF EmitDisconnect, EmitterType
  <2> QED
    BY <2>1 DEF AttendInv, HangUpDue
<1>9. ASSUME NEW k \in Finals, HandleStop(k) PROVE AttendInv'
  <2>1. /\ UNCHANGED <<closed, outClosed, Sent, emitter, notices, open, paired>>
        /\ handler[k] = "stop" /\ stopped'
        /\ handler'[k] = IF stopped THEN "done" ELSE "swap"
        /\ \A j \in Finals : j # k => handler'[j] = handler[j]
    BY <1>0, <1>9 DEF HandleStop, HandlerType, Sent
  <2>2. Closers' = Closers
    BY <2>1 DEF Closers
  <2> QED
    BY <2>1, <2>2 DEF AttendInv, HangUpDue
<1>10. ASSUME NEW k \in Finals, HandleSwap(k) PROVE AttendInv'
  <2>1. /\ UNCHANGED <<stopped, outClosed, Sent, emitter, notices, open, paired>>
        /\ handler[k] = "swap" /\ closed'
        /\ handler'[k] = IF closed THEN "done" ELSE "send"
        /\ \A j \in Finals : j # k => handler'[j] = handler[j]
    BY <1>0, <1>10 DEF HandleSwap, HandlerType, Sent
  <2>2. closed => Closers' = Closers
    BY <2>1 DEF Closers
  <2>3. ~closed => k \in Closers'
    BY <2>1 DEF Closers
  <2> QED
    BY <1>0, <2>1, <2>2, <2>3 DEF AttendInv, HangUpDue
<1>11. ASSUME NEW k \in Finals, HandleSend(k) PROVE AttendInv'
  <2>1. /\ UNCHANGED <<closed, stopped, outClosed, emitter, notices, open, paired>>
        /\ handler[k] = "send" /\ handler'[k] = "close"
        /\ \A j \in Finals : j # k => handler'[j] = handler[j]
    BY <1>0, <1>11 DEF HandleSend, HandlerType, Put
  <2>2. Closers' = Closers /\ k \in Closers
    BY <2>1 DEF Closers
  <2>3. closed
    BY <2>2 DEF OneCloser
  <2> QED
    BY <2>1, <2>2, <2>3 DEF AttendInv, HangUpDue
<1>12. ASSUME NEW k \in Finals, HandleClose(k) PROVE AttendInv'
  <2>1. /\ UNCHANGED <<closed, stopped, Sent, emitter, notices, open, paired>>
        /\ handler[k] = "close" /\ handler'[k] = "done" /\ outClosed'
        /\ \A j \in Finals : j # k => handler'[j] = handler[j]
    BY <1>0, <1>12 DEF HandleClose, HandlerType, Sent
  <2> QED
    BY <2>1 DEF AttendInv, HangUpDue
<1>13. CASE HandleNotice
  <2>1. /\ UNCHANGED <<closed, stopped, outClosed, handler, emitter, open, paired>>
        /\ emitter.step # "idle"
    <3>1. notices.held # 0
      BY <1>13 DEF HandleNotice, TypeOK
    <3> QED
      BY <1>13, <3>1 DEF HandleNotice, Put, AttendInv
  <2>2. Closers' = Closers
    BY <2>1 DEF Closers
  <2> QED
    BY <2>1, <2>2 DEF AttendInv, HangUpDue
<1>14. CASE Read
  <2>1. UNCHANGED <<closed, stopped, outClosed, handler, emitter, notices, open, paired, Sent>>
    BY <1>0, <1>14, SentRead DEF Read, Sent
  <2> QED
    BY <2>1 DEF AttendInv, HangUpDue, Closers
<1> QED
  BY <1>1, <1>2, <1>3, <1>4, <1>5, <1>6, <1>7, <1>8, <1>9, <1>10, <1>11, <1>12, <1>13, <1>14
  DEF Next, Emitter, Handle

\* Once a code was sent somebody is always on the way to close the channel, and a
\* channel that no event ended leaves an open socket only to an emitter about to
\* close it.
THEOREM NeverUnattended == Spec => [](Attended /\ HangUpDue)
<1>1. Init => AttendInv
  BY DEF Init, AttendInv, HangUpDue, Sent
<1>2. TypeOK /\ OneCloser /\ AttendInv /\ [Next]_vars => TypeOK' /\ OneCloser' /\ AttendInv'
  BY TypeStep, CloserStep, AttendStep
<1>3. TypeOK /\ OneCloser /\ AttendInv => Attended /\ HangUpDue
  BY DEF TypeOK, AttendInv, Attended, Closers, OneCloser
<1> QED
  BY <1>1, <1>2, <1>3, TypeInit, CloserInit, PTL DEF Spec

=============================================================================
