------------------------------ MODULE QRStream ------------------------------
(***************************************************************************)
(* What a reader of GetQRChannel may rely on, whatever events, timers and   *)
(* cancellations race inside it: the codes come in the server's order, each *)
(* once; at most one final item is sent; one code, from an emitter that had *)
(* already looked, and notices may still follow it; nothing is sent to a    *)
(* channel that is closed.                                                  *)
(***************************************************************************)
EXTENDS Naturals, Sequences

CONSTANTS NCodes, Finals, Notice

VARIABLES
  sent,   \* everything that was sent so far, read or not
  ended   \* is the channel closed?

Codes == 1..NCodes
Event(e) == [event |-> e, code |-> 0]
Code(k) == [event |-> "code", code |-> k]

IsFinal(i) == sent[i].event \in Finals
HasFinal == \E i \in DOMAIN sent : IsFinal(i)
Fresh(k) == \A i \in DOMAIN sent : sent[i].code < k

\* No code was sent after the final item.
NoneLate ==
  \A i, j \in DOMAIN sent : IsFinal(i) /\ sent[j].event = "code" => j < i

Init == sent = <<>> /\ ended = FALSE

SendCode(k) ==
  /\ ~ended /\ Fresh(k) /\ NoneLate
  /\ sent' = Append(sent, Code(k))
  /\ UNCHANGED ended

SendNotice ==
  /\ ~ended
  /\ sent' = Append(sent, Event(Notice))
  /\ UNCHANGED ended

SendFinal(f) ==
  /\ ~ended /\ ~HasFinal
  /\ sent' = Append(sent, Event(f))
  /\ UNCHANGED ended

Close ==
  /\ ~ended /\ ended' = TRUE
  /\ UNCHANGED sent

Next ==
  \/ \E k \in Codes : SendCode(k)
  \/ \E f \in Finals : SendFinal(f)
  \/ SendNotice \/ Close

Spec == Init /\ [][Next]_<<sent, ended>>
=============================================================================
