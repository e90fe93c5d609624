-------------------------- MODULE SessionRowProofs --------------------------
(***************************************************************************)
(* Proof that the session row tells the truth (RowTruthful of               *)
(* WhatsAppSession), for any number of clients, codes and troubles. As long *)
(* as nothing excuses it one goroutine at most is at work on the row, for   *)
(* the current client; so the row has a future, what it will say once that   *)
(* goroutine is through, and the invariant relates this future to what the  *)
(* client and its QR channel are doing.                                     *)
(***************************************************************************)
EXTENDS WhatsAppSessionProofs, FiniteSetTheorems

-----------------------------------------------------------------------------
(* What an action does to its client and to the upserts.                    *)

Became(c, paired, link, expected, retry, lost) ==
  /\ cli'[c].step = cli[c].step /\ cli'[c].paired = paired /\ cli'[c].link = link
  /\ cli'[c].expected = expected /\ cli'[c].retry = retry /\ cli'[c].lost = lost
  /\ \A b \in Clients \ {c} : cli'[b] = cli[b]

\* It is hung up, and nothing else.
BecameHungUp(c) == Became(c, cli[c].paired, "down", TRUE, cli[c].retry, cli[c].lost)

LEMMA ClientSet ==
  ASSUME TypeOK, NEW c \in Clients, NEW q, cli' = [cli EXCEPT ![c] = q]
  PROVE  cli'[c] = q /\ \A b \in Clients \ {c} : cli'[b] = cli[b]
BY DEF TypeOK

LEMMA BecameBy ==
  ASSUME TypeOK, NEW c \in Clients, NEW q, cli' = [cli EXCEPT ![c] = q], q.step = cli[c].step
  PROVE  Became(c, q.paired, q.link, q.expected, q.retry, q.lost)
BY ClientSet DEF Became

LEMMA HungUpDoes ==
  ASSUME NEW k \in ClientRecords
  PROVE  /\ HungUp(k).step = k.step /\ HungUp(k).paired = k.paired /\ HungUp(k).link = "down"
         /\ HungUp(k).expected = TRUE /\ HungUp(k).retry = k.retry /\ HungUp(k).lost = k.lost
BY DEF HungUp, ClientRecords

LEMMA ServerDoes ==
  ASSUME TypeOK, NEW c \in Clients
  PROVE  /\ ScanFails(c) \/ Replaced(c) => BecameHungUp(c)
         /\ Scan(c) => Became(c, TRUE, "scanned", TRUE, cli[c].retry, cli[c].lost)
         /\ Restart(c) => Became(c, cli[c].paired, "down", TRUE, "restart", cli[c].lost)
         /\ DropQuietly(c) => Became(c, cli[c].paired, "down", TRUE, cli[c].retry, TRUE)
         /\ Login(c) => Became(c, cli[c].paired, "up", cli[c].expected, cli[c].retry, cli[c].lost)
         /\ Drop(c) =>
              Became(c, cli[c].paired, "down", cli[c].expected,
                     IF cli[c].paired THEN "waiting" ELSE "no", cli[c].lost)
         /\ KeepAliveFails(c) => Became(c, cli[c].paired, "down", TRUE, "forced", cli[c].lost)
         /\ ForceRetry(c) =>
              Became(c, cli[c].paired, cli[c].link, FALSE,
                     IF cli[c].paired THEN "waiting" ELSE "no", ~cli[c].paired)
         /\ Retry(c) =>
              Became(c, cli[c].paired, cli[c].link, cli[c].expected,
                     IF cli[c].expected THEN "no" ELSE "going", cli[c].lost)
         /\ Reconnect(c) => Became(c, cli[c].paired, "paired", FALSE, "no", cli[c].lost)
         /\ ReconnectFails(c) =>
              Became(c, cli[c].paired, cli[c].link, FALSE,
                     IF cli[c].retry = "going" THEN "waiting" ELSE "no", (cli[c].retry = "restart"))
         /\ Refused(c) => Became(c, cli[c].paired, "down", TRUE, cli[c].retry, cli[c].paired)
         /\ LogOut(c) => Became(c, FALSE, "down", TRUE, cli[c].retry, cli[c].lost)
<1>1. cli[c] \in ClientRecords
  BY DEF TypeOK, ClientRecords
<1>2. /\ HungUp(cli[c]) \in ClientRecords
      /\ HungUp(cli[c]).step = cli[c].step /\ HungUp(cli[c]).paired = cli[c].paired
      /\ HungUp(cli[c]).link = "down" /\ HungUp(cli[c]).expected = TRUE
      /\ HungUp(cli[c]).retry = cli[c].retry /\ HungUp(cli[c]).lost = cli[c].lost
  BY <1>1, HungUpDoes, HungUpTyped
<1>3. ScanFails(c) \/ Replaced(c) => BecameHungUp(c)
  <2>1. ScanFails(c) \/ Replaced(c) => cli' = [cli EXCEPT ![c] = HungUp(cli[c])]
    BY DEF ScanFails, Replaced
  <2> QED
    BY <1>2, <2>1, BecameBy DEF BecameHungUp
<1>4. Scan(c) => Became(c, TRUE, "scanned", TRUE, cli[c].retry, cli[c].lost)
  <2> DEFINE q == [cli[c] EXCEPT !.link = "scanned", !.paired = TRUE, !.expected = TRUE]
  <2>1. /\ q.step = cli[c].step /\ q.paired = TRUE /\ q.link = "scanned"
        /\ q.expected = TRUE /\ q.lost = cli[c].lost
        /\ q.retry = cli[c].retry
    BY <1>1 DEF ClientRecords
  <2>2. Scan(c) => cli' = [cli EXCEPT ![c] = q]
    BY DEF Scan
  <2> HIDE DEF q
  <2> QED
    BY <2>1, <2>2, BecameBy
<1>5. Restart(c) => Became(c, cli[c].paired, "down", TRUE, "restart", cli[c].lost)
  <2> DEFINE q == [HungUp(cli[c]) EXCEPT !.retry = "restart"]
  <2>1. /\ q.step = cli[c].step /\ q.paired = cli[c].paired /\ q.link = "down"
        /\ q.expected = TRUE /\ q.lost = cli[c].lost
        /\ q.retry = "restart"
    BY <1>2 DEF ClientRecords
  <2>2. Restart(c) => cli' = [cli EXCEPT ![c] = q]
    BY DEF Restart
  <2> HIDE DEF q
  <2> QED
    BY <2>1, <2>2, BecameBy
<1>6. DropQuietly(c) => Became(c, cli[c].paired, "down", TRUE, cli[c].retry, TRUE)
  <2> DEFINE q == [HungUp(cli[c]) EXCEPT !.lost = TRUE]
  <2>1. /\ q.step = cli[c].step /\ q.paired = cli[c].paired /\ q.link = "down"
        /\ q.expected = TRUE /\ q.lost = TRUE
        /\ q.retry = cli[c].retry
    BY <1>2 DEF ClientRecords
  <2>2. DropQuietly(c) => cli' = [cli EXCEPT ![c] = q]
    BY DEF DropQuietly
  <2> HIDE DEF q
  <2> QED
    BY <2>1, <2>2, BecameBy
<1>7. Login(c) => Became(c, cli[c].paired, "up", cli[c].expected, cli[c].retry, cli[c].lost)
  <2> DEFINE q == [cli[c] EXCEPT !.link = "up"]
  <2>1. /\ q.step = cli[c].step /\ q.paired = cli[c].paired /\ q.link = "up"
        /\ q.expected = cli[c].expected /\ q.lost = cli[c].lost
        /\ q.retry = cli[c].retry
    BY <1>1 DEF ClientRecords
  <2>2. Login(c) => cli' = [cli EXCEPT ![c] = q]
    BY DEF Login
  <2> HIDE DEF q
  <2> QED
    BY <2>1, <2>2, BecameBy
<1>8. Drop(c) =>
       Became(c, cli[c].paired, "down", cli[c].expected,
              IF cli[c].paired THEN "waiting" ELSE "no", cli[c].lost)
  <2> DEFINE q == [cli[c] EXCEPT !.link = "down",
                               !.retry = IF cli[c].paired THEN "waiting" ELSE "no"]
  <2>1. /\ q.step = cli[c].step /\ q.paired = cli[c].paired /\ q.link = "down"
        /\ q.expected = cli[c].expected /\ q.lost = cli[c].lost
        /\ q.retry = IF cli[c].paired THEN "waiting" ELSE "no"
    BY <1>1 DEF ClientRecords
  <2>2. Drop(c) => cli' = [cli EXCEPT ![c] = q]
    BY DEF Drop
  <2> HIDE DEF q
  <2> QED
    BY <2>1, <2>2, BecameBy
<1>9. KeepAliveFails(c) => Became(c, cli[c].paired, "down", TRUE, "forced", cli[c].lost)
  <2> DEFINE q == [HungUp(cli[c]) EXCEPT !.retry = "forced"]
  <2>1. /\ q.step = cli[c].step /\ q.paired = cli[c].paired /\ q.link = "down"
        /\ q.expected = TRUE /\ q.lost = cli[c].lost
        /\ q.retry = "forced"
    BY <1>2 DEF ClientRecords
  <2>2. KeepAliveFails(c) => cli' = [cli EXCEPT ![c] = q]
    BY DEF KeepAliveFails
  <2> HIDE DEF q
  <2> QED
    BY <2>1, <2>2, BecameBy
<1>10. ForceRetry(c) =>
       Became(c, cli[c].paired, cli[c].link, FALSE,
              IF cli[c].paired THEN "waiting" ELSE "no", ~cli[c].paired)
  <2> DEFINE q == [cli[c] EXCEPT !.expected = FALSE, !.lost = ~cli[c].paired,
                               !.retry = IF cli[c].paired THEN "waiting" ELSE "no"]
  <2>1. /\ q.step = cli[c].step /\ q.paired = cli[c].paired /\ q.link = cli[c].link
        /\ q.expected = FALSE /\ q.lost = ~cli[c].paired
        /\ q.retry = IF cli[c].paired THEN "waiting" ELSE "no"
    BY <1>1 DEF ClientRecords
  <2>2. ForceRetry(c) => cli' = [cli EXCEPT ![c] = q]
    BY DEF ForceRetry
  <2> HIDE DEF q
  <2> QED
    BY <2>1, <2>2, BecameBy
<1>11. Retry(c) =>
       Became(c, cli[c].paired, cli[c].link, cli[c].expected,
              IF cli[c].expected THEN "no" ELSE "going", cli[c].lost)
  <2> DEFINE q == [cli[c] EXCEPT !.retry = IF cli[c].expected THEN "no" ELSE "going"]
  <2>1. /\ q.step = cli[c].step /\ q.paired = cli[c].paired /\ q.link = cli[c].link
        /\ q.expected = cli[c].expected /\ q.lost = cli[c].lost
        /\ q.retry = IF cli[c].expected THEN "no" ELSE "going"
    BY <1>1 DEF ClientRecords
  <2>2. Retry(c) => cli' = [cli EXCEPT ![c] = q]
    BY DEF Retry
  <2> HIDE DEF q
  <2> QED
    BY <2>1, <2>2, BecameBy
<1>12. Reconnect(c) => Became(c, cli[c].paired, "paired", FALSE, "no", cli[c].lost)
  <2> DEFINE q == [cli[c] EXCEPT !.retry = "no", !.link = "paired", !.expected = FALSE]
  <2>1. /\ q.step = cli[c].step /\ q.paired = cli[c].paired /\ q.link = "paired"
        /\ q.expected = FALSE /\ q.lost = cli[c].lost
        /\ q.retry = "no"
    BY <1>1 DEF ClientRecords
  <2>2. Reconnect(c) => cli' = [cli EXCEPT ![c] = q]
    BY DEF Reconnect
  <2> HIDE DEF q
  <2> QED
    BY <2>1, <2>2, BecameBy
<1>13. ReconnectFails(c) =>
       Became(c, cli[c].paired, cli[c].link, FALSE,
              IF cli[c].retry = "going" THEN "waiting" ELSE "no", (cli[c].retry = "restart"))
  <2> DEFINE q == [cli[c] EXCEPT !.expected = FALSE, !.lost = cli[c].retry = "restart",
                               !.retry = IF cli[c].retry = "going" THEN "waiting" ELSE "no"]
  <2>1. /\ q.step = cli[c].step /\ q.paired = cli[c].paired /\ q.link = cli[c].link
        /\ q.expected = FALSE /\ q.lost = (cli[c].retry = "restart")
        /\ q.retry = IF cli[c].retry = "going" THEN "waiting" ELSE "no"
    BY <1>1 DEF ClientRecords
  <2>2. ReconnectFails(c) => cli' = [cli EXCEPT ![c] = q]
    BY DEF ReconnectFails
  <2> HIDE DEF q
  <2> QED
    BY <2>1, <2>2, BecameBy
<1>14. Refused(c) => Became(c, cli[c].paired, "down", TRUE, cli[c].retry, cli[c].paired)
  <2> DEFINE q == [HungUp(cli[c]) EXCEPT !.lost = cli[c].paired]
  <2>1. /\ q.step = cli[c].step /\ q.paired = cli[c].paired /\ q.link = "down"
        /\ q.expected = TRUE /\ q.lost = cli[c].paired
        /\ q.retry = cli[c].retry
    BY <1>2 DEF ClientRecords
  <2>2. Refused(c) => cli' = [cli EXCEPT ![c] = q]
    BY DEF Refused
  <2> HIDE DEF q
  <2> QED
    BY <2>1, <2>2, BecameBy
<1>15. LogOut(c) => Became(c, FALSE, "down", TRUE, cli[c].retry, cli[c].lost)
  <2> DEFINE q == [HungUp(cli[c]) EXCEPT !.paired = FALSE]
  <2>1. /\ q.step = cli[c].step /\ q.paired = FALSE /\ q.link = "down"
        /\ q.expected = TRUE /\ q.lost = cli[c].lost
        /\ q.retry = cli[c].retry
    BY <1>2 DEF ClientRecords
  <2>2. LogOut(c) => cli' = [cli EXCEPT ![c] = q]
    BY DEF LogOut
  <2> HIDE DEF q
  <2> QED
    BY <2>1, <2>2, BecameBy
<1> QED
  BY <1>3, <1>4, <1>5, <1>6, <1>7, <1>8, <1>9, <1>10, <1>11, <1>12, <1>13, <1>14, <1>15

\* The emitter and Disconnect may hang a client up.
LEMMA HangingUpDoes ==
  ASSUME TypeOK, NEW c \in Clients,
         RunOut(c) \/ CutOff(c) \/ (Disconnect /\ c = wac)
  PROVE  BecameHungUp(c)
<1>1. cli[c] \in ClientRecords
  BY DEF TypeOK, ClientRecords
<1>2. /\ HungUp(cli[c]) \in ClientRecords
      /\ HungUp(cli[c]).step = cli[c].step /\ HungUp(cli[c]).paired = cli[c].paired
      /\ HungUp(cli[c]).link = "down" /\ HungUp(cli[c]).expected = TRUE
      /\ HungUp(cli[c]).retry = cli[c].retry /\ HungUp(cli[c]).lost = cli[c].lost
  BY <1>1, HungUpDoes, HungUpTyped
<1>3. CASE RunOut(c) \/ CutOff(c)
  <2>1. cli' = [cli EXCEPT ![c] = HungUp(cli[c])]
    BY <1>3 DEF RunOut, CutOff
  <2> QED
    BY <1>2, <2>1, BecameBy DEF BecameHungUp
<1>4. CASE Disconnect /\ c = wac
  <2> DEFINE q == [HungUp(cli[c]) EXCEPT !.stopped = Stops(c)]
  <2>1. /\ q.step = cli[c].step /\ q.paired = cli[c].paired /\ q.link = "down"
        /\ q.expected = TRUE /\ q.retry = cli[c].retry /\ q.lost = cli[c].lost
    BY <1>2 DEF ClientRecords
  <2>2. c # 0
    BY SessionAssumption DEF Clients
  <2>3. cli' = [cli EXCEPT ![c] = q]
    BY <1>4, <2>2 DEF Disconnect
  <2> HIDE DEF q
  <2> QED
    BY <2>1, <2>3, BecameBy DEF BecameHungUp
<1> QED
  BY <1>3, <1>4

LEMMA ConnectingDoes ==
  ASSUME TypeOK, NEW c \in Clients
  PROVE  /\ \A byBoot \in BOOLEAN : Load(c, byBoot) =>
              /\ cli'[c].step = "installed" /\ cli'[c].paired = device
              /\ cli'[c].link = "down" /\ cli'[c].retry = "no"
              /\ \A b \in Clients \ {c} : cli'[b] = cli[b]
         /\ Dial(c) =>
              /\ cli'[c].step = "running"
              /\ cli'[c].paired = cli[c].paired /\ cli'[c].retry = cli[c].retry
              /\ cli'[c].link = IF cli[c].paired THEN "paired" ELSE "qr"
              /\ \A b \in Clients \ {c} : cli'[b] = cli[b]
         /\ DialFails(c) =>
              /\ cli'[c].step = "failed"
              /\ cli'[c].paired = cli[c].paired /\ cli'[c].retry = cli[c].retry
              /\ cli'[c].link = cli[c].link
              /\ \A b \in Clients \ {c} : cli'[b] = cli[b]
<1>1. cli[c] \in ClientRecords
  BY DEF TypeOK, ClientRecords
<1>2. ASSUME NEW byBoot \in BOOLEAN, Load(c, byBoot)
      PROVE  /\ cli'[c].step = "installed" /\ cli'[c].paired = device
             /\ cli'[c].link = "down" /\ cli'[c].retry = "no"
             /\ \A b \in Clients \ {c} : cli'[b] = cli[b]
  <2> DEFINE q == [NewClient EXCEPT !.step = "installed", !.byBoot = byBoot, !.paired = device]
  <2>1. /\ q.step = "installed" /\ q.paired = device
        /\ q.link = "down" /\ q.retry = "no"
    BY DEF NewClient
  <2>2. cli' = [cli EXCEPT ![c] = q]
    BY <1>2 DEF Load
  <2> HIDE DEF q
  <2> QED
    BY <2>1, <2>2, ClientSet
<1>3. ASSUME Dial(c)
      PROVE  /\ cli'[c].step = "running"
             /\ cli'[c].paired = cli[c].paired /\ cli'[c].retry = cli[c].retry
             /\ cli'[c].link = IF cli[c].paired THEN "paired" ELSE "qr"
             /\ \A b \in Clients \ {c} : cli'[b] = cli[b]
  <2> DEFINE link == IF cli[c].paired THEN "paired" ELSE "qr"
             q == [cli[c] EXCEPT !.step = "running", !.expected = FALSE, !.link = link]
  <2>1. /\ q.step = "running"
        /\ q.paired = cli[c].paired /\ q.link = link /\ q.retry = cli[c].retry
    BY <1>1 DEF ClientRecords
  <2>2. cli' = [cli EXCEPT ![c] = q]
    BY <1>3 DEF Dial
  <2> HIDE DEF q
  <2> QED
    BY <2>1, <2>2, ClientSet
<1>4. ASSUME DialFails(c)
      PROVE  /\ cli'[c].step = "failed"
             /\ cli'[c].paired = cli[c].paired /\ cli'[c].retry = cli[c].retry
             /\ cli'[c].link = cli[c].link
             /\ \A b \in Clients \ {c} : cli'[b] = cli[b]
  <2> DEFINE q == [cli[c] EXCEPT !.step = "failed"]
  <2>1. /\ q.step = "failed"
        /\ q.paired = cli[c].paired /\ q.link = cli[c].link /\ q.retry = cli[c].retry
    BY <1>1 DEF ClientRecords
  <2>2. cli' = [cli EXCEPT ![c] = q]
    BY <1>4 DEF DialFails
  <2> HIDE DEF q
  <2> QED
    BY <2>1, <2>2, ClientSet
<1> QED
  BY <1>2, <1>3, <1>4

-----------------------------------------------------------------------------
(* What is under way.                                                       *)

Agents == Writers \cup (Clients \X {"unread"})

\* Who is busy, before a step and after it.
LEMMA BusyIs ==
  /\ \A w \in Writers : (w \in Busy <=> ~Idle(w)) /\ (w \in Busy' <=> ~Idle(w)')
  /\ \A c \in Clients : (<<c, "unread">> \in Busy <=> Unread(c)) /\ (<<c, "unread">> \in Busy' <=> Unread(c)')
  /\ Busy \subseteq Agents /\ Busy' \subseteq Agents
<1>1. \A w \in Writers, c \in Clients : w # <<c, "unread">>
  BY SessionAssumption DEF Writers, Kinds, Clients
<1>2. /\ \A w \in Writers : w \in Busy <=> ~Idle(w)
      /\ \A c \in Clients : <<c, "unread">> \in Busy <=> Unread(c)
      /\ Busy \subseteq Agents
  BY <1>1 DEF Busy, Agents
<1>3. /\ \A w \in Writers : w \in Busy' <=> ~Idle(w)'
      /\ \A c \in Clients : <<c, "unread">> \in Busy' <=> Unread(c)'
      /\ Busy' \subseteq Agents
  BY <1>1 DEF Busy, Agents
<1> QED
  BY <1>2, <1>3

LEMMA AgentsFinite == IsFiniteSet(Agents)
<1>1. IsFiniteSet(Clients)
  BY SessionAssumption, FS_Interval DEF Clients
<1>2. IsFiniteSet(Kinds \cup {"reader"})
  <2>1. IsFiniteSet({"PairSuccess"} \cup {"PairError"})
    BY FS_Singleton, FS_AddElement
  <2>2. IsFiniteSet(({"PairSuccess"} \cup {"PairError"}) \cup {"Connected"})
    BY <2>1, FS_AddElement
  <2>3. IsFiniteSet((({"PairSuccess"} \cup {"PairError"}) \cup {"Connected"}) \cup {"Disconnected"})
    BY <2>2, FS_AddElement
  <2>4. IsFiniteSet(((({"PairSuccess"} \cup {"PairError"}) \cup {"Connected"}) \cup {"Disconnected"}) \cup {"LoggedOut"})
    BY <2>3, FS_AddElement
  <2>5. IsFiniteSet((((({"PairSuccess"} \cup {"PairError"}) \cup {"Connected"}) \cup {"Disconnected"})
                        \cup {"LoggedOut"}) \cup {"Refused"})
    BY <2>4, FS_AddElement
  <2>6. Kinds = ((((({"PairSuccess"} \cup {"PairError"}) \cup {"Connected"}) \cup {"Disconnected"})
                     \cup {"LoggedOut"}) \cup {"Refused"})
    BY DEF Kinds
  <2> QED
    BY <2>5, <2>6, FS_AddElement
<1>3. IsFiniteSet(Clients \X (Kinds \cup {"reader"})) /\ IsFiniteSet(Clients \X {"unread"})
  BY <1>1, <1>2, FS_Product, FS_Singleton
<1>4. IsFiniteSet(Writers)
  BY <1>3, FS_AddElement DEF Writers
<1> QED
  BY <1>3, <1>4, FS_Union DEF Agents

LEMMA OneAtMost ==
  ASSUME NEW S, IsFiniteSet(S), ~(Cardinality(S) > 1), NEW y \in S, NEW z \in S
  PROVE  y = z
<1> SUFFICES ASSUME y # z PROVE FALSE
  OBVIOUS
<1>1. IsFiniteSet({y} \cup {z}) /\ Cardinality({y} \cup {z}) = 2
  <2>1. IsFiniteSet({y}) /\ Cardinality({y}) = 1 /\ z \notin {y}
    BY FS_Singleton
  <2>2. /\ IsFiniteSet({y} \cup {z})
        /\ Cardinality({y} \cup {z}) = IF z \in {y} THEN Cardinality({y}) ELSE Cardinality({y}) + 1
    BY <2>1, FS_AddElement
  <2> QED
    BY <2>1, <2>2
<1>2. Cardinality({y} \cup {z}) <= Cardinality(S) /\ Cardinality(S) \in Nat
  BY FS_Subset, FS_CardinalityType
<1> QED
  BY <1>1, <1>2

\* A step that nothing excuses.
Calm ==
  /\ ~excused
  /\ \A y, z \in Busy' : y = z
  /\ \A c \in Clients : ~SendsLate(c)
  /\ wac' # wac /\ wac' # 0 => Busy = {} /\ \A c \in Clients : ~AtWork(c)

LEMMA CalmStep ==
  ASSUME Noted, ~excused'
  PROVE  Calm
<1>1. /\ ~excused /\ ~(Cardinality(Busy') > 1)
      /\ \A c \in Clients : ~SendsLate(c)
      /\ ~(wac' # wac /\ wac' # 0 /\ (Busy # {} \/ \E b \in Clients : AtWork(b)))
  BY Zenon DEF Noted
<1>2. IsFiniteSet(Busy')
  BY BusyIs, AgentsFinite, FS_Subset
<1>3. \A y, z \in Busy' : y = z
  BY <1>1, <1>2, OneAtMost
<1> QED
  BY <1>1, <1>3 DEF Calm

-----------------------------------------------------------------------------
(* What the row will say once a goroutine is through.                       *)

LastFields(c) == ItemFields(flow[c].sent[Len(flow[c].sent)])
Handling(x) == x \in Busy /\ x[2] \in Kinds
Pairing(x) == x \in Busy /\ x[2] = "PairSuccess"
Reading(x) == x \in Busy /\ x[2] \in {"reader", "unread"}

\* What x is to write itself, and what is to come of it with the channel's final item.
Written(x) ==
  IF x \notin Busy THEN Nothing ELSE IF x[2] = "unread" THEN LastFields(x[1]) ELSE todo[x]
Due(x) ==
  IF Handling(x) /\ flow[x[1]].step = "live" THEN ItemFields(Event(FinalOf[x[2]])) ELSE Written(x)

\* The row r once fields are written to it, at one column.
Will(fields, col, r) == IF col \in DOMAIN fields THEN fields[col] ELSE r[col]
StatusDue(x) == Will(Due(x), "status", row)
QRDue(x) == Will(Due(x), "qr", row)
StatusWritten(x) == Will(Written(x), "status", row)

LEMMA WillOf ==
  ASSUME NEW r
  PROVE  /\ \A col : Will(Nothing, col, r) = r[col]
         /\ \A s : Will([status |-> s], "status", r) = s /\ Will([status |-> s], "qr", r) = r.qr
         /\ \A k \in Kinds :
              LET final == ItemFields(Event(FinalOf[k]))
              IN  /\ Will(final, "status", r) = IF k = "PairSuccess" THEN "connected" ELSE "disconnected"
                  /\ Will(final, "qr", r) = IF k = "PairSuccess" THEN NULL ELSE r.qr
         /\ \A k : Will(ItemFields(Code(k)), "status", r) = "pending_qr"
         /\ Will(ItemFields(Event("timeout")), "status", r) = "disconnected"
         /\ Will(ItemFields(Event("timeout")), "qr", r) = r.qr
<1>1. \A col : Will(Nothing, col, r) = r[col]
  BY DEF Will, Nothing
<1>2. \A s : Will([status |-> s], "status", r) = s /\ Will([status |-> s], "qr", r) = r.qr
  BY DEF Will
<1>3. \A k \in Kinds :
        ItemFields(Event(FinalOf[k])) =
          IF k = "PairSuccess" THEN [status |-> "connected", qr |-> NULL] ELSE [status |-> "disconnected"]
  BY DEF ItemFields, Event, FinalOf, Kinds
<1>4. ItemFields(Event("timeout")) = [status |-> "disconnected"]
  BY DEF ItemFields, Event
<1>5. \A k : ItemFields(Code(k)) = [status |-> "pending_qr", qr |-> k]
  BY DEF ItemFields, Code
<1>6. \A q : /\ Will([status |-> "connected", qr |-> q], "status", r) = "connected"
             /\ Will([status |-> "connected", qr |-> q], "qr", r) = q
  BY DEF Will
<1>7. \A q : Will([status |-> "pending_qr", qr |-> q], "status", r) = "pending_qr"
  BY DEF Will
<1> HIDE DEF Will
<1> QED
  BY <1>1, <1>2, <1>3, <1>4, <1>5, <1>6, <1>7

-----------------------------------------------------------------------------
(* The invariant.                                                           *)

Cur == IF wac = 0 THEN NewClient ELSE cli[wac]
CurStep == IF wac = 0 THEN "off" ELSE flow[wac].step
Coded == wac # 0 /\ CodesSent(wac) # {}

\* How the current client, its channel and its handlers go together.
Wired(x) ==
  /\ Cur.link # "down" => Cur.retry = "no"
  /\ Cur.link # "down" \/ Cur.retry # "no" => Cur.step = "running"
  /\ Cur.link \in {"scanned", "paired", "up"} \/ Cur.retry \notin {"no", "forced"} => Cur.paired
  /\ Cur.step # "running" => CurStep = "off" /\ ~Handling(x)
  /\ Cur.link = "qr" => CurStep = "live" /\ ~Handling(x)
  /\ wac # 0 => Cur.step # "none" /\ Cur.paired = device
  /\ CurStep = "live" /\ Cur.paired => Pairing(x)
  /\ CurStep = "live" /\ Pairing(x) => Coded

\* What the row will say, held against what the client does.
Good(x) ==
  /\ Cur.link = "up" => StatusDue(x) = "connected"
  /\ StatusDue(x) = "connected" =>
       \/ boot = "connect" \/ (boot = "start" /\ row.status = "connected")
       \/ Cur.step \in {"installed", "failed"} \/ Cur.lost \/ Cur.retry # "no"
       \/ Cur.link \in {"scanned", "paired", "up"} \/ (Cur.link = "qr" /\ ~Coded)
  /\ Cur.retry = "waiting" /\ Cur.expected => StatusDue(x) # "connected"
  /\ CurStep = "live" /\ Coded => StatusWritten(x) # "connected"
  /\ device \/ StatusDue(x) = "connected" => QRDue(x) = NULL \/ cutShort
  /\ row.status = "connected" => row.qr = NULL \/ cutShort \/ CurStep = "live" \/ Reading(x)
  /\ StatusDue(x) = "pending_qr" => cutShort \/ (CurStep = "live" /\ Coded)
  /\ row.status = "pending_qr" => cutShort \/ CurStep = "live" \/ Reading(x)

\* Only the current client is at work, and only x, of it, is busy.
Sole(x) ==
  /\ x \in Agents /\ x[1] \in {0, wac} /\ Busy \subseteq {x}
  /\ \A c \in Clients \ {wac} : ~AtWork(c)

RowInv == excused \/ \E x \in Agents : Sole(x) /\ Wired(x) /\ Good(x)

\* Only a reader writes more than a status, PairSuccess's handler writes nothing, and
\* Disconnect has no handler to wait for.
TodoOK ==
  /\ \A w \in Writers : w[2] # "reader" => todo[w] \in {NULL, Nothing} \cup [status : Statuses]
  /\ \A c \in Clients : todo[<<c, "PairSuccess">>] \in {NULL, Nothing}
  /\ todo[<<0, "Disconnect">>] # NULL

\* Nobody is busy: what the row will say it says.
LEMMA IdleView ==
  ASSUME NEW x, x \notin Busy
  PROVE  /\ StatusDue(x) = row.status /\ QRDue(x) = row.qr /\ StatusWritten(x) = row.status
         /\ ~Handling(x) /\ ~Pairing(x) /\ ~Reading(x)
<1>1. Due(x) = Nothing /\ Written(x) = Nothing
  BY DEF Due, Written, Handling
<1> QED
  BY <1>1, WillOf DEF StatusDue, QRDue, StatusWritten, Handling, Pairing, Reading

LEMMA RowTruthfulFollows == TypeOK /\ RowInv => RowTruthful
<1> SUFFICES ASSUME TypeOK, RowInv, Quiet, ~excused
             PROVE  /\ wac # 0 /\ cli[wac].link = "up" => row.status = "connected"
                    /\ row.status = "connected" => (wac # 0 /\ cli[wac].link = "up") \/ Forsaken
                    /\ row.status = "connected" => row.qr = NULL \/ cutShort
                    /\ row.status = "pending_qr" => cutShort
  BY DEF RowTruthful
<1>1. PICK x \in Agents : Sole(x) /\ Wired(x) /\ Good(x)
  BY DEF RowInv
<1>2. StatusDue(x) = row.status /\ QRDue(x) = row.qr
  BY IdleView DEF Quiet
<1>3. boot = "done"
  BY DEF Quiet
<1>4. /\ Cur.retry = "no" /\ Cur.link \in {"down", "up"} /\ Cur.step # "installed"
      /\ ~(CurStep = "live" /\ Coded)
  <2>1. CASE wac = 0
    BY <2>1 DEF Cur, CurStep, NewClient
  <2>2. CASE wac # 0
    <3>1. wac \in Clients
      BY <2>2, SessionAssumption DEF TypeOK, Clients
    <3>2. /\ ~Showing(wac) /\ cli[wac].retry = "no" /\ cli[wac].link \in {"down", "up"}
          /\ cli[wac].step # "installed"
      BY <3>1 DEF Quiet
    <3>3. ~(flow[wac].step = "live" /\ CodesSent(wac) # {})
      BY <3>2 DEF Showing, Live
    <3> QED
      BY <2>2, <3>2, <3>3 DEF Cur, CurStep, Coded
  <2> QED
    BY <2>1, <2>2
<1>5. /\ Cur.link = "up" <=> wac # 0 /\ cli[wac].link = "up"
      /\ Cur.step = "failed" \/ Cur.lost => Forsaken
  BY DEF Cur, NewClient, Forsaken
<1> HIDE DEF StatusDue, QRDue, Cur, CurStep
<1>6. row.status = "connected" => Cur.link = "up" \/ Forsaken
  BY <1>1, <1>2, <1>3, <1>4, <1>5 DEF Good
<1>7. Cur.link = "up" => row.status = "connected"
  BY <1>1, <1>2 DEF Good
<1>8. row.status = "connected" => row.qr = NULL \/ cutShort
  BY <1>1, <1>2 DEF Good
<1>9. row.status = "pending_qr" => cutShort
  BY <1>1, <1>2, <1>4 DEF Good
<1> QED
  BY <1>5, <1>6, <1>7, <1>8, <1>9

LEMMA RowInit == Init => TodoOK /\ RowInv
<1> SUFFICES ASSUME Init PROVE TodoOK /\ RowInv
  OBVIOUS
<1>1. \A w \in Writers : todo[w] \in {NULL, Nothing} /\ Idle(w)
  BY DEF Init, AllIdle, Idle
<1>2. TodoOK
  <2>1. todo[<<0, "Disconnect">>] = Nothing
    BY <1>1, WriterKinds DEF Idle, Kinds
  <2> QED
    BY <1>1, <2>1, WriterKinds, NullAssumption DEF TodoOK, Kinds
<1>3. \A c \in Clients : ~Unread(c) /\ ~AtWork(c)
  BY DEF Init, NewFlow, NewClient, Unread, AtWork, Live
<1>4. Busy = {}
  BY <1>1, <1>3 DEF Busy
<1> DEFINE x == <<0, "Disconnect">>
<1>5. x \in Agents /\ x[1] = 0
  BY DEF Agents, Writers
<1>6. /\ StatusDue(x) = row.status /\ QRDue(x) = row.qr /\ StatusWritten(x) = row.status
      /\ ~Handling(x) /\ ~Pairing(x) /\ ~Reading(x)
  BY <1>4, IdleView
<1>7. row.status = "disconnected" /\ wac = 0 /\ ~device
  BY DEF Init
<1>8. /\ Cur.step = "none" /\ Cur.link = "down" /\ Cur.retry = "no" /\ ~Cur.paired /\ CurStep = "off" /\ ~Coded
  BY <1>7 DEF Cur, CurStep, Coded, NewClient
<1> HIDE DEF x
<1>9. Sole(x)
  BY <1>3, <1>4, <1>5 DEF Sole
<1>10. Wired(x)
  BY <1>6, <1>7, <1>8 DEF Wired
<1>11. Good(x)
  BY <1>6, <1>7, <1>8 DEF Good
<1> QED
  BY <1>2, <1>5, <1>9, <1>10, <1>11 DEF RowInv

-----------------------------------------------------------------------------
(* Upserts change one at a time.                                            *)

\* One goroutine's columns become fields.
Turned(w, fields) ==
  /\ todo'[w] = fields
  /\ \A v \in Writers \ {w} : todo'[v] = todo[v]

LEMMA TurnedBy ==
  ASSUME TypeOK, NEW w \in Writers, NEW fields, todo' = [todo EXCEPT ![w] = fields]
  PROVE  Turned(w, fields)
BY DEF TypeOK, Turned

LEMMA TodoTurned ==
  ASSUME TodoOK, NEW w \in Writers, NEW fields, Turned(w, fields),
         w[2] # "reader" => fields \in {NULL, Nothing} \cup [status : Statuses],
         w[2] = "PairSuccess" => fields \in {NULL, Nothing},
         w[2] = "Disconnect" => fields # NULL
  PROVE  TodoOK'
<1> DEFINE F == {NULL, Nothing} \cup [status : Statuses]
<1>1. /\ todo'[w] = fields
      /\ \A v \in Writers : v # w => todo'[v] = todo[v]
  BY DEF Turned
<1>2. /\ todo[<<0, "Disconnect">>] # NULL
      /\ \A v \in Writers : v[2] # "reader" => todo[v] \in F
      /\ \A c \in Clients : todo[<<c, "PairSuccess">>] \in {NULL, Nothing}
  BY DEF TodoOK
<1> HIDE DEF F
<1>3. \A v \in Writers : v[2] # "reader" => todo'[v] \in F
  BY <1>1, <1>2 DEF F
<1>4. ASSUME NEW c \in Clients PROVE todo'[<<c, "PairSuccess">>] \in {NULL, Nothing}
  <2>1. <<c, "PairSuccess">> \in Writers /\ <<c, "PairSuccess">>[2] = "PairSuccess"
    BY WriterKinds DEF Kinds
  <2> QED
    BY <1>1, <1>2, <2>1
<1>5. todo'[<<0, "Disconnect">>] # NULL
  BY <1>1, <1>2, WriterKinds
<1> QED
  BY <1>3, <1>4, <1>5 DEF TodoOK, F

\* A column written: what is left of its upsert.
Wrote(w, col, s, rest) ==
  /\ col \in {"status", "qr"}
  /\ ~Idle(w) /\ todo[w] # NULL /\ col \in DOMAIN todo[w] /\ s = todo[w][col]
  /\ row' = [row EXCEPT ![col] = s]
  /\ Turned(w, rest) /\ DOMAIN rest = DOMAIN todo[w] \ {col}
  /\ \A k \in DOMAIN rest : rest[k] = todo[w][k]
  /\ w[2] # "reader" => col = "status" /\ rest = Nothing
  /\ w[2] # "PairSuccess"

LEMMA WriteDoes ==
  ASSUME TypeOK, TodoOK, NEW w \in Writers, WriteColumn(w)
  PROVE  \E col, s, rest : Wrote(w, col, s, rest)
<1>1. PICK col \in DOMAIN todo[w] :
        /\ row' = [row EXCEPT ![col] = todo[w][col]]
        /\ todo' = [todo EXCEPT ![w] = [rest \in DOMAIN @ \ {col} |-> @[rest]]]
  BY DEF WriteColumn
<1>2. todo[w] \in Upserts /\ todo[w] # NULL
  BY DEF WriteColumn, TypeOK
<1> DEFINE u == todo[w]
           rest == [k \in DOMAIN u \ {col} |-> u[k]]
<1>3. Turned(w, rest)
  <2>1. todo' = [todo EXCEPT ![w] = rest]
    BY <1>1
  <2> HIDE DEF rest
  <2> QED
    BY <2>1, TurnedBy
<1>4. DOMAIN rest = DOMAIN u \ {col} /\ \A k \in DOMAIN rest : rest[k] = u[k]
  OBVIOUS
<1>5. col \in {"status", "qr"}
  BY <1>2, UpsertRest
<1>6. u # Nothing /\ ~Idle(w)
  <2>1. u # Nothing
    BY <1>1 DEF Nothing
  <2> QED
    BY <1>2, <2>1 DEF Idle
<1>7. w[2] # "reader" => col = "status" /\ rest = Nothing
  <2>1. w[2] # "reader" => u \in [status : Statuses]
    BY <1>2, <1>6 DEF TodoOK
  <2>2. u \in [status : Statuses] => DOMAIN u = {"status"}
    OBVIOUS
  <2>3. w[2] # "reader" => col = "status" /\ DOMAIN u \ {col} = {}
    BY <2>1, <2>2, <1>1
  <2> QED
    BY <2>3 DEF Nothing
<1>8. w[2] # "PairSuccess"
  <2>1. w[2] = "PairSuccess" => u \in {NULL, Nothing}
    BY WriterParts DEF TodoOK
  <2> QED
    BY <1>2, <1>6, <2>1
<1> HIDE DEF rest
<1>9. Wrote(w, col, todo[w][col], rest)
  BY <1>1, <1>2, <1>3, <1>4, <1>5, <1>6, <1>7, <1>8 DEF Wrote
<1> QED
  BY <1>9

LEMMA FireDoes ==
  ASSUME TypeOK, NEW c \in Clients, NEW k \in Kinds, NEW fields, Fire(c, k, fields)
  PROVE  <<c, k>> \in Writers /\ Idle(<<c, k>>) /\ Turned(<<c, k>>, fields)
BY WriterKinds, TurnedBy DEF Fire

\* Which events fire, and with which columns to write.
Fires(c) ==
  \E k \in Kinds, fields \in {Nothing} \cup [status : Statuses] :
    /\ Fire(c, k, fields)
    /\ k = "PairSuccess" => fields = Nothing

LEMMA FiringFires ==
  ASSUME NEW c \in Clients,
         Scan(c) \/ ScanFails(c) \/ Login(c) \/ Drop(c) \/ Refused(c) \/ LogOut(c)
  PROVE  Fires(c)
<1>1. /\ [status |-> "disconnected"] \in [status : Statuses]
      /\ ConnectedFields \in [status : Statuses]
  BY DEF Statuses, ConnectedFields
<1>2. CASE Scan(c)
  BY <1>2 DEF Fires, Scan, Kinds
<1>3. CASE ScanFails(c)
  BY <1>3 DEF Fires, ScanFails, Kinds
<1>4. CASE Login(c)
  BY <1>1, <1>4 DEF Fires, Login, Kinds
<1>5. CASE Drop(c)
  BY <1>1, <1>5 DEF Fires, Drop, Kinds
<1>6. CASE Refused(c)
  BY <1>6 DEF Fires, Refused, Kinds
<1>7. CASE LogOut(c)
  BY <1>1, <1>7 DEF Fires, LogOut, Kinds
<1> QED
  BY <1>2, <1>3, <1>4, <1>5, <1>6, <1>7

LEMMA TodoStep == TypeOK /\ TodoOK /\ [Next]_vars => TodoOK'
<1> SUFFICES ASSUME TypeOK, TodoOK, [Next]_vars PROVE TodoOK'
  OBVIOUS
<1>1. CASE UNCHANGED todo
  BY <1>1 DEF TodoOK
<1>2. CASE Crash
  <2>1. \A w \in Writers : todo'[w] \in {NULL, Nothing}
    BY <1>2 DEF Crash, AllIdle
  <2>2. todo'[<<0, "Disconnect">>] = Nothing
    BY <1>2, WriterKinds DEF Crash, AllIdle, Kinds
  <2> QED
    BY <2>1, <2>2, WriterKinds, NullAssumption DEF TodoOK, Kinds
<1>3. CASE Disconnect
  <2>1. Turned(<<0, "Disconnect">>, [status |-> "disconnected"])
    BY <1>3, WriterKinds, TurnedBy DEF Disconnect
  <2>2. [status |-> "disconnected"] \in [status : Statuses]
    BY DEF Statuses
  <2> QED
    BY <2>1, <2>2, TodoTurned, WriterKinds, NullAssumption
<1>4. ASSUME NEW c \in Clients, Fires(c) PROVE TodoOK'
  <2>1. PICK k \in Kinds, fields \in {Nothing} \cup [status : Statuses] :
          Fire(c, k, fields) /\ (k = "PairSuccess" => fields = Nothing)
    BY <1>4 DEF Fires
  <2>2. <<c, k>> \in Writers /\ Turned(<<c, k>>, fields)
    BY <2>1, FireDoes
  <2> QED
    BY <2>1, <2>2, TodoTurned DEF Kinds
<1>5. ASSUME NEW w \in Writers, Working(w) PROVE TodoOK'
  <2>1. CASE WriteColumn(w)
    <3>1. PICK col, s, rest :
            /\ Turned(w, rest)
            /\ w[2] # "reader" => col = "status" /\ rest = Nothing
      BY <2>1, WriteDoes DEF Wrote
    <3> QED
      BY <3>1, TodoTurned, NullAssumption
  <2>2. CASE w[2] = "reader" /\ Take(w[1])
    <3>1. w = <<w[1], "reader">>
      BY <2>2, WriterParts DEF Kinds
    <3>2. \E fields : Turned(w, fields)
      BY <2>2, <3>1, TurnedBy DEF Take
    <3> QED
      BY <2>2, <3>2, TodoTurned
  <2>3. CASE w[2] \in Kinds /\ EndFlow(w[1], w[2])
    <3>1. w = <<w[1], w[2]>>
      BY <2>3, WriterParts DEF Kinds
    <3>2. Turned(w, NULL)
      BY <2>3, <3>1, TurnedBy DEF EndFlow
    <3> QED
      BY <2>3, <3>2, TodoTurned DEF Kinds
  <2> QED
    BY <1>5, <2>1, <2>2, <2>3 DEF Working
<1>6. ASSUME NEW c \in Clients, Server(c) PROVE TodoOK'
  <2>1. CASE Scan(c) \/ ScanFails(c) \/ Login(c) \/ Drop(c) \/ Refused(c) \/ LogOut(c)
    BY <2>1, <1>4, FiringFires
  <2>2. CASE \/ Restart(c) \/ DropQuietly(c) \/ KeepAliveFails(c) \/ ForceRetry(c) \/ Replaced(c) \/ Retry(c)
             \/ Reconnect(c) \/ ReconnectFails(c)
    BY <2>2, <1>1 DEF Restart, DropQuietly, KeepAliveFails, ForceRetry, Replaced, Retry, Reconnect,
                      ReconnectFails
  <2> QED
    BY <1>6, <2>1, <2>2 DEF Server
<1>7. ASSUME NEW c \in Clients,
             Load(c, FALSE) \/ DialFails(c) \/ Connecting(c) \/ Emitting(c)
      PROVE  TodoOK'
  BY <1>1, <1>7 DEF Load, DialFails, Connecting, Dial, Emitting, EmitCode, RunOut, CutOff, CloseFlow
<1>8. CASE AutoReconnect \/ UNCHANGED vars
  BY <1>1, <1>8 DEF AutoReconnect, vars
<1> QED
  BY <1>2, <1>3, <1>5, <1>6, <1>7, <1>8 DEF Next, Step

-----------------------------------------------------------------------------
(* Who is busy after a step.                                                *)

\* An upsert starts: nobody was busy, and its goroutine alone is.
LEMMA StartsAlone ==
  ASSUME Calm, NEW w \in Writers, NEW fields, Turned(w, fields), Idle(w), ~Idle(w)', UNCHANGED flow
  PROVE  Busy = {} /\ Busy' = {w}
<1>1. w \in Busy'
  BY BusyIs
<1>2. Busy' = {w}
  BY <1>1 DEF Calm
<1>3. ASSUME NEW v \in Busy PROVE FALSE
  <2>1. v # w
    BY BusyIs
  <2>2. v \in Busy'
    <3>1. CASE v \in Writers
      <4>1. todo'[v] = todo[v]
        BY <2>1, <3>1 DEF Turned
      <4> QED
        BY <3>1, <4>1, BusyIs DEF Idle
    <3>2. CASE v \in Clients \X {"unread"}
      <4>1. PICK c \in Clients : v = <<c, "unread">>
        BY <3>2
      <4> QED
        BY <4>1, BusyIs DEF Unread
    <3> QED
      BY <3>1, <3>2, BusyIs DEF Agents
  <2> QED
    BY <1>2, <2>1, <2>2
<1> QED
  BY <1>2, <1>3

\* Nothing is written, read or sent: everyone stands where it stood.
LEMMA Stands ==
  ASSUME UNCHANGED <<row, todo, flow>>, NEW x
  PROVE  /\ Busy' = Busy
         /\ StatusDue(x)' = StatusDue(x) /\ QRDue(x)' = QRDue(x) /\ StatusWritten(x)' = StatusWritten(x)
         /\ (Handling(x)' <=> Handling(x)) /\ (Pairing(x)' <=> Pairing(x)) /\ (Reading(x)' <=> Reading(x))
<1>1. Busy' = Busy
  BY DEF Busy, Idle, Unread
<1>2. Written(x)' = Written(x)
  BY <1>1 DEF Written, LastFields
<1>3. (Handling(x)' <=> Handling(x)) /\ (Pairing(x)' <=> Pairing(x)) /\ (Reading(x)' <=> Reading(x))
  BY <1>1 DEF Handling, Pairing, Reading
<1>4. Due(x)' = Due(x)
  BY <1>2, <1>3 DEF Due
<1> QED
  BY <1>1, <1>2, <1>3, <1>4 DEF StatusDue, QRDue, StatusWritten

-----------------------------------------------------------------------------
(* The steps, one kind at a time, in a state where x alone is busy.         *)

Before(x) == TypeOK /\ TodoOK /\ OffInv /\ FlowInv /\ Sole(x) /\ Wired(x) /\ Good(x) /\ Calm
After(x) == (Sole(x) /\ Wired(x) /\ Good(x))'

LEMMA OnlyCurrent ==
  ASSUME NEW x, Before(x), NEW c \in Clients, AtWork(c)
  PROVE  c = wac
BY DEF Before, Sole

LEMMA CurIs ==
  ASSUME NEW c \in Clients, c = wac, wac' = wac
  PROVE  /\ Cur = cli[c] /\ CurStep = flow[c].step /\ (Coded <=> CodesSent(c) # {})
         /\ Cur' = cli'[c] /\ CurStep' = flow'[c].step /\ (Coded' <=> CodesSent(c)' # {})
<1>1. wac # 0
  BY SessionAssumption DEF Clients
<1> QED
  BY <1>1 DEF Cur, CurStep, Coded, CodesSent

\* The current client becomes ...
CurBecame(paired, link, expected, retry, lost) ==
  /\ Cur'.step = Cur.step /\ Cur'.paired = paired /\ Cur'.link = link
  /\ Cur'.expected = expected /\ Cur'.retry = retry /\ Cur'.lost = lost

LEMMA BecameCur ==
  ASSUME NEW c \in Clients, c = wac, wac' = wac
  PROVE  /\ \A p, l, e, r, t : Became(c, p, l, e, r, t) => CurBecame(p, l, e, r, t)
         /\ BecameHungUp(c) => CurBecame(Cur.paired, "down", TRUE, Cur.retry, Cur.lost)
<1>1. Cur = cli[c] /\ Cur' = cli'[c]
  BY CurIs
<1> QED
  BY <1>1 DEF Became, CurBecame, BecameHungUp

\* ... and the others stay as they are.
LEMMA OthersRest ==
  ASSUME NEW x, Sole(x), wac' = wac,
         \A b \in Clients \ {wac} : cli'[b] = cli[b] /\ flow'[b] = flow[b]
  PROVE  \A b \in Clients \ {wac'} : ~AtWork(b)'
BY DEF Sole, AtWork, Live

LEMMA SoleStays ==
  ASSUME NEW x, Sole(x), wac' = wac, Busy' = Busy,
         \A b \in Clients \ {wac} : cli'[b] = cli[b] /\ flow'[b] = flow[b]
  PROVE  Sole(x)'
<1>1. \A b \in Clients \ {wac'} : ~AtWork(b)'
  BY OthersRest
<1> QED
  BY <1>1 DEF Sole, Agents, Writers

LEMMA AutoReconnectKeeps ==
  ASSUME NEW x, Before(x), AutoReconnect
  PROVE  After(x)
<1>1. UNCHANGED <<row, device, wac, cli, flow, todo, cutShort>>
  BY DEF AutoReconnect
<1>2. /\ Busy' = Busy
      /\ StatusDue(x)' = StatusDue(x) /\ QRDue(x)' = QRDue(x) /\ StatusWritten(x)' = StatusWritten(x)
      /\ (Handling(x)' <=> Handling(x)) /\ (Pairing(x)' <=> Pairing(x)) /\ (Reading(x)' <=> Reading(x))
  BY <1>1, Stands
<1>3. Sole(x)'
  BY <1>1, <1>2, SoleStays DEF Before
<1>4. Cur' = Cur /\ CurStep' = CurStep /\ (Coded' <=> Coded)
  BY <1>1 DEF Cur, CurStep, Coded, CodesSent
<1>5. boot = "start" /\ (row.status = "connected" => boot' = "connect")
  BY DEF AutoReconnect
<1>6. Wired(x)'
  BY <1>1, <1>2, <1>4 DEF Before, Wired
<1>7. Good(x)'
  BY <1>1, <1>2, <1>4, <1>5 DEF Before, Good
<1> QED
  BY <1>3, <1>6, <1>7 DEF After

\* What is neither written, sent nor fired: the 515, a quiet loss, the keepalive,
\* autoReconnect and the failed dial.
LEMMA LinkKeeps ==
  ASSUME NEW x, Before(x), NEW c \in Clients,
         \/ Restart(c) \/ DropQuietly(c) \/ KeepAliveFails(c) \/ ForceRetry(c) \/ Replaced(c) \/ Retry(c)
         \/ Reconnect(c) \/ ReconnectFails(c) \/ DialFails(c)
  PROVE  After(x)
<1>1. UNCHANGED <<row, device, wac, flow, todo, boot, cutShort>>
  BY DEF Restart, DropQuietly, KeepAliveFails, ForceRetry, Replaced, Retry, Reconnect,
         ReconnectFails, DialFails
<1>2. /\ Busy' = Busy
      /\ StatusDue(x)' = StatusDue(x) /\ QRDue(x)' = QRDue(x) /\ StatusWritten(x)' = StatusWritten(x)
      /\ (Handling(x)' <=> Handling(x)) /\ (Pairing(x)' <=> Pairing(x)) /\ (Reading(x)' <=> Reading(x))
  BY <1>1, Stands
<1>3. c = wac
  <2>1. AtWork(c)
    BY DEF Restart, DropQuietly, KeepAliveFails, ForceRetry, Replaced, Retry, Reconnect,
           ReconnectFails, DialFails, AtWork
  <2> QED
    BY <2>1, OnlyCurrent
<1>4. Cur = cli[c] /\ CurStep' = CurStep /\ (Coded' <=> Coded)
  BY <1>1, <1>3, CurIs DEF CurStep, Coded, CodesSent
<1>5. TypeOK /\ Sole(x) /\ Wired(x) /\ Good(x)
  BY DEF Before
<1>6. SUFFICES ASSUME \A b \in Clients \ {wac} : cli'[b] = cli[b] PROVE Wired(x)' /\ Good(x)'
  <2>1. \A b \in Clients \ {wac} : cli'[b] = cli[b]
    BY <1>3, <1>5, ServerDoes, ConnectingDoes DEF Became, BecameHungUp
  <2>2. Sole(x)'
    BY <1>1, <1>2, <1>5, <2>1, SoleStays
  <2> QED
    BY <1>6, <2>1, <2>2 DEF After
<1>7. CASE Restart(c)
  <2>1. Cur.link = "scanned"
    BY <1>4, <1>7 DEF Restart
  <2>2. CurBecame(Cur.paired, "down", TRUE, "restart", Cur.lost)
    BY <1>1, <1>3, <1>4, <1>5, <1>7, ServerDoes, BecameCur
  <2> QED
    BY <1>1, <1>2, <1>4, <1>5, <2>1, <2>2 DEF CurBecame, Wired, Good
<1>8. CASE DropQuietly(c)
  <2>1. Cur.link = "scanned"
    BY <1>4, <1>8 DEF DropQuietly
  <2>2. CurBecame(Cur.paired, "down", TRUE, Cur.retry, TRUE)
    BY <1>1, <1>3, <1>4, <1>5, <1>8, ServerDoes, BecameCur
  <2> QED
    BY <1>1, <1>2, <1>4, <1>5, <2>1, <2>2 DEF CurBecame, Wired, Good
<1>9. CASE KeepAliveFails(c)
  <2>1. Cur.link # "down"
    BY <1>4, <1>9 DEF KeepAliveFails
  <2>2. CurBecame(Cur.paired, "down", TRUE, "forced", Cur.lost)
    BY <1>1, <1>3, <1>4, <1>5, <1>9, ServerDoes, BecameCur
  <2> QED
    BY <1>1, <1>2, <1>4, <1>5, <2>1, <2>2 DEF CurBecame, Wired, Good
<1>10. CASE ForceRetry(c)
  <2>1. Cur.retry = "forced"
    BY <1>4, <1>10 DEF ForceRetry
  <2>2. CurBecame(Cur.paired, Cur.link, FALSE, IF Cur.paired THEN "waiting" ELSE "no", ~Cur.paired)
    BY <1>1, <1>3, <1>4, <1>5, <1>10, ServerDoes, BecameCur
  <2> QED
    BY <1>1, <1>2, <1>4, <1>5, <2>1, <2>2 DEF CurBecame, Wired, Good
<1>11. CASE Retry(c)
  <2>1. Cur.retry = "waiting"
    BY <1>4, <1>11 DEF Retry
  <2>2. CurBecame(Cur.paired, Cur.link, Cur.expected, IF Cur.expected THEN "no" ELSE "going", Cur.lost)
    BY <1>1, <1>3, <1>4, <1>5, <1>11, ServerDoes, BecameCur
  <2> QED
    BY <1>1, <1>2, <1>4, <1>5, <2>1, <2>2 DEF CurBecame, Wired, Good
<1>12. CASE Reconnect(c)
  <2>1. Cur.retry \in {"going", "restart"}
    BY <1>4, <1>12 DEF Reconnect
  <2>2. CurBecame(Cur.paired, "paired", FALSE, "no", Cur.lost)
    BY <1>1, <1>3, <1>4, <1>5, <1>12, ServerDoes, BecameCur
  <2> QED
    BY <1>1, <1>2, <1>4, <1>5, <2>1, <2>2 DEF CurBecame, Wired, Good
<1>13. CASE ReconnectFails(c)
  <2>1. Cur.retry \in {"going", "restart"}
    BY <1>4, <1>13 DEF ReconnectFails
  <2>2. CurBecame(Cur.paired, Cur.link, FALSE,
                  IF Cur.retry = "going" THEN "waiting" ELSE "no", (Cur.retry = "restart"))
    BY <1>1, <1>3, <1>4, <1>5, <1>13, ServerDoes, BecameCur
  <2> QED
    BY <1>1, <1>2, <1>4, <1>5, <2>1, <2>2 DEF CurBecame, Wired, Good
<1>14. CASE Replaced(c)
  <2>1. PICK b \in Clients : b > c /\ cli[b].link = "up"
    BY <1>14 DEF Replaced
  <2>2. b = wac
    BY <2>1, OnlyCurrent DEF AtWork
  <2> QED
    BY <1>3, <2>1, <2>2, SessionAssumption DEF Clients
<1>15. CASE DialFails(c)
  <2>1. /\ cli'[c].step = "failed" /\ cli'[c].paired = cli[c].paired
        /\ cli'[c].retry = cli[c].retry /\ cli'[c].link = cli[c].link
    BY <1>5, <1>15, ConnectingDoes
  <2>2. cli[c].step = "installed"
    BY <1>15 DEF DialFails
  <2>3. Cur' = cli'[c]
    BY <1>1, <1>3, CurIs
  <2>4. Cur.retry = "no" /\ Cur.link = "down"
    BY <1>4, <1>5, <2>2 DEF Wired
  <2> QED
    BY <1>1, <1>2, <1>4, <1>5, <2>1, <2>2, <2>3, <2>4 DEF Wired, Good
<1> QED
  BY <1>7, <1>8, <1>9, <1>10, <1>11, <1>12, <1>13, <1>14, <1>15

LEMMA FlowSet ==
  ASSUME TypeOK, NEW c \in Clients, NEW q, flow' = [flow EXCEPT ![c] = q]
  PROVE  flow'[c] = q /\ \A b \in Clients \ {c} : flow'[b] = flow[b]
BY DEF TypeOK

\* A channel opens or closes: nothing is sent or read.
FlowSteps(c, step) ==
  /\ flow'[c].step = step /\ flow'[c].sent = flow[c].sent /\ flow'[c].read = flow[c].read
  /\ \A b \in Clients \ {c} : flow'[b] = flow[b]

LEMMA FlowStepsBy ==
  ASSUME TypeOK, NEW c \in Clients, NEW step, flow' = [flow EXCEPT ![c].step = step]
  PROVE  FlowSteps(c, step)
<1> DEFINE q == [flow[c] EXCEPT !.step = step]
<1>1. flow[c] \in FlowRecords
  BY DEF TypeOK, FlowRecords
<1>2. q.step = step /\ q.sent = flow[c].sent /\ q.read = flow[c].read
  BY <1>1 DEF FlowRecords
<1>3. flow' = [flow EXCEPT ![c] = q]
  OBVIOUS
<1> HIDE DEF q
<1> QED
  BY <1>2, <1>3, FlowSet DEF FlowSteps

\* What a channel's opening or closing leaves as it was.
LEMMA StandsBut ==
  ASSUME UNCHANGED <<row, todo>>, NEW c \in Clients, NEW step, FlowSteps(c, step), NEW x \in Agents
  PROVE  /\ Busy' = Busy /\ StatusWritten(x)' = StatusWritten(x)
         /\ (Handling(x)' <=> Handling(x)) /\ (Pairing(x)' <=> Pairing(x)) /\ (Reading(x)' <=> Reading(x))
         /\ ~Handling(x) \/ (flow[c].step # "live" /\ step # "live") =>
              StatusDue(x)' = StatusDue(x) /\ QRDue(x)' = QRDue(x)
         /\ x[1] \in {0, c} /\ step # "live" => StatusDue(x)' = StatusWritten(x)
<1>1. \A b \in Clients : flow'[b].sent = flow[b].sent /\ flow'[b].read = flow[b].read
  BY DEF FlowSteps
<1>2. Busy' = Busy
  BY <1>1 DEF Busy, Idle, Unread
<1>3. x[2] = "unread" => x[1] \in Clients
  BY DEF Agents, Writers, Kinds
<1>4. Written(x)' = Written(x)
  BY <1>1, <1>2, <1>3 DEF Written, LastFields
<1>5. (Handling(x)' <=> Handling(x)) /\ (Pairing(x)' <=> Pairing(x)) /\ (Reading(x)' <=> Reading(x))
  BY <1>2 DEF Handling, Pairing, Reading
<1>6. Handling(x) => x[1] \in Clients
  BY DEF Handling, Kinds, Agents, Writers
<1>7. ~Handling(x) \/ (flow[c].step # "live" /\ step # "live") => Due(x)' = Due(x)
  <2>1. CASE ~Handling(x)
    BY <1>4, <1>5, <2>1 DEF Due
  <2>2. CASE Handling(x) /\ flow[c].step # "live" /\ step # "live"
    <3>1. flow'[x[1]].step = "live" <=> flow[x[1]].step = "live"
      BY <1>6, <2>2 DEF FlowSteps
    <3> QED
      BY <1>4, <1>5, <3>1 DEF Due
  <2> QED
    BY <2>1, <2>2
<1>8. x[1] \in {0, c} /\ step # "live" => Due(x)' = Written(x)
  <2>1. Handling(x) => x[1] # 0
    BY <1>6, SessionAssumption DEF Clients
  <2> QED
    BY <1>4, <1>5, <2>1 DEF Due, FlowSteps
<1> QED
  BY <1>2, <1>4, <1>5, <1>7, <1>8 DEF StatusDue, QRDue, StatusWritten

LEMMA DialKeeps ==
  ASSUME NEW x, Before(x), NEW c \in Clients, Dial(c)
  PROVE  After(x)
<1>1. UNCHANGED <<row, device, wac, todo, boot, cutShort>> /\ cli[c].step = "installed"
  BY DEF Dial
<1>2. c = wac
  BY <1>1, OnlyCurrent DEF AtWork
<1>3. TypeOK /\ FlowInv /\ Sole(x) /\ Wired(x) /\ Good(x) /\ x \in Agents
  BY DEF Before, Sole
<1>4. /\ cli'[c].step = "running"
      /\ cli'[c].paired = cli[c].paired /\ cli'[c].retry = cli[c].retry
      /\ cli'[c].link = IF cli[c].paired THEN "paired" ELSE "qr"
      /\ \A b \in Clients \ {c} : cli'[b] = cli[b]
  BY <1>3, ConnectingDoes
<1>5. /\ Cur = cli[c] /\ CurStep = flow[c].step /\ Cur' = cli'[c] /\ CurStep' = flow'[c].step
      /\ (Coded' <=> CodesSent(c)' # {})
  BY <1>1, <1>2, CurIs
<1>6. CurStep = "off" /\ ~Handling(x) /\ ~Pairing(x) /\ Cur.link = "down" /\ Cur.retry = "no"
  <2>1. CurStep = "off" /\ ~Handling(x) /\ Cur.link = "down" /\ Cur.retry = "no"
    BY <1>1, <1>3, <1>5 DEF Wired
  <2> QED
    BY <2>1 DEF Handling, Pairing, Kinds
<1>7. FlowSteps(c, IF cli[c].paired THEN "off" ELSE "live")
  <2>1. CASE cli[c].paired
    BY <1>5, <1>6, <2>1 DEF Dial, FlowSteps
  <2>2. CASE ~cli[c].paired
    BY <1>3, <2>2, FlowStepsBy DEF Dial
  <2> QED
    BY <2>1, <2>2
<1>8. /\ Busy' = Busy /\ StatusWritten(x)' = StatusWritten(x)
      /\ StatusDue(x)' = StatusDue(x) /\ QRDue(x)' = QRDue(x)
      /\ (Handling(x)' <=> Handling(x)) /\ (Pairing(x)' <=> Pairing(x)) /\ (Reading(x)' <=> Reading(x))
  BY <1>1, <1>3, <1>6, <1>7, StandsBut
<1>9. ~Coded'
  <2>1. flow'[c].sent = <<>>
    BY <1>3, <1>5, <1>6, <1>7 DEF FlowInv, FlowOf, FlowSteps
  <2> QED
    BY <1>5, <2>1 DEF CodesSent
<1>10. Sole(x)'
  BY <1>1, <1>2, <1>3, <1>4, <1>7, <1>8, SoleStays DEF FlowSteps
<1>11. CurStep' = IF Cur.paired THEN "off" ELSE "live"
  BY <1>5, <1>7 DEF FlowSteps
<1>12. /\ Cur'.step = "running" /\ Cur'.paired = Cur.paired
       /\ Cur'.retry = "no" /\ Cur'.link = (IF Cur.paired THEN "paired" ELSE "qr")
       /\ Cur.step = "installed"
  BY <1>1, <1>4, <1>5, <1>6
<1>13. Wired(x)'
  BY <1>1, <1>3, <1>6, <1>8, <1>9, <1>11, <1>12 DEF Wired
<1>14. Good(x)'
  BY <1>1, <1>3, <1>6, <1>8, <1>9, <1>11, <1>12 DEF Good
<1> QED
  BY <1>10, <1>13, <1>14 DEF After

\* A new client is installed where nobody is at work.
LEMMA LoadKeeps ==
  ASSUME NEW x, Before(x), NEW c \in Clients, NEW byBoot \in BOOLEAN, Load(c, byBoot)
  PROVE  After(<<0, "Disconnect">>)
<1> DEFINE y == <<0, "Disconnect">>
<1>1. /\ UNCHANGED <<row, device, flow, todo, cutShort>> /\ cli[c].step = "none" /\ wac' = c
      /\ boot' = IF byBoot THEN "done" ELSE boot
      /\ byBoot => boot = "connect"
  BY DEF Load
<1>2. TypeOK /\ OffInv /\ FlowInv /\ Sole(x) /\ Wired(x) /\ Good(x) /\ Calm
  BY DEF Before
<1>3. /\ cli'[c].step = "installed" /\ cli'[c].paired = device
      /\ cli'[c].link = "down" /\ cli'[c].retry = "no"
      /\ \A b \in Clients \ {c} : cli'[b] = cli[b]
  BY <1>2, ConnectingDoes
<1>4. c # 0
  BY SessionAssumption DEF Clients
<1>5. wac # c
  <2>1. wac # 0 => Cur.step # "none" /\ Cur = cli[wac]
    BY <1>2 DEF Wired, Cur
  <2> QED
    BY <1>1, <1>4, <2>1
<1>6. Busy = {} /\ \A b \in Clients : ~AtWork(b)
  BY <1>1, <1>2, <1>4, <1>5 DEF Calm
<1>7. Busy' = {}
  BY <1>1, <1>6, Stands
<1>8. /\ StatusDue(x) = row.status /\ QRDue(x) = row.qr
      /\ ~Handling(x) /\ ~Pairing(x) /\ ~Reading(x)
  BY <1>6, IdleView
<1>9. /\ StatusDue(y)' = row.status /\ QRDue(y)' = row.qr /\ StatusWritten(y)' = row.status
      /\ ~Handling(y)' /\ ~Pairing(y)' /\ ~Reading(y)'
  <2>1. /\ StatusDue(y)' = StatusDue(y) /\ QRDue(y)' = QRDue(y) /\ StatusWritten(y)' = StatusWritten(y)
        /\ (Handling(y)' <=> Handling(y)) /\ (Pairing(y)' <=> Pairing(y)) /\ (Reading(y)' <=> Reading(y))
    BY <1>1, Stands
  <2>2. /\ StatusDue(y) = row.status /\ QRDue(y) = row.qr /\ StatusWritten(y) = row.status
        /\ ~Handling(y) /\ ~Pairing(y) /\ ~Reading(y)
    BY <1>6, IdleView
  <2> QED
    BY <2>1, <2>2
<1>10. Cur.link = "down" /\ Cur.retry = "no" /\ CurStep # "live" /\ Cur.step # "installed"
  <2>1. CASE wac = 0
    BY <2>1 DEF Cur, CurStep, NewClient
  <2>2. CASE wac # 0
    <3>1. wac \in Clients
      BY <1>2, <2>2, SessionAssumption DEF TypeOK, Clients
    <3> QED
      BY <1>6, <2>2, <3>1 DEF Cur, CurStep, AtWork, Live
  <2> QED
    BY <2>1, <2>2
<1>11. Cur' = cli'[c] /\ CurStep' = "off"
  BY <1>1, <1>2, <1>4 DEF Cur, CurStep, OffInv
<1>12. Sole(y)'
  <2>1. y \in Agents' /\ y[1] = 0
    BY DEF Agents, Writers
  <2>2. \A b \in Clients \ {wac'} : ~AtWork(b)'
    BY <1>1, <1>3, <1>6 DEF AtWork, Live
  <2> QED
    BY <1>7, <2>1, <2>2 DEF Sole
<1> HIDE DEF y
<1>13. Wired(y)'
  BY <1>1, <1>3, <1>9, <1>11 DEF Wired
<1>14. Good(y)'
  BY <1>1, <1>2, <1>3, <1>8, <1>9, <1>10, <1>11 DEF Good
<1> QED
  BY <1>12, <1>13, <1>14 DEF After, y

LEMMA CrashKeeps ==
  ASSUME NEW x, Before(x), Crash
  PROVE  After(<<0, "Disconnect">>)
<1> DEFINE y == <<0, "Disconnect">>
<1>1. /\ UNCHANGED <<row, device>> /\ wac' = 0 /\ boot' = "start"
      /\ cli' = [c \in Clients |-> NewClient] /\ flow' = [c \in Clients |-> NewFlow]
      /\ todo' = AllIdle
      /\ cutShort' <=> cutShort \/ \E c \in Clients : Live(c) \/ Unread(c) \/ ~Idle(<<c, "reader">>)
  BY Zenon DEF Crash
<1>2. TypeOK /\ TodoOK /\ Sole(x) /\ Wired(x) /\ Good(x) /\ x \in Agents
  BY DEF Before, Sole
<1>3. Busy' = {}
  <2>1. \A w \in Writers : Idle(w)'
    BY <1>1 DEF Idle, AllIdle
  <2>2. \A c \in Clients : ~Unread(c)'
    BY <1>1 DEF Unread, NewFlow
  <2> QED
    BY <2>1, <2>2 DEF Busy
<1>4. /\ StatusDue(y)' = row.status /\ QRDue(y)' = row.qr /\ StatusWritten(y)' = row.status
      /\ ~Handling(y)' /\ ~Pairing(y)' /\ ~Reading(y)'
  <2>1. Due(y)' = Nothing /\ Written(y)' = Nothing /\ ~Handling(y)' /\ ~Pairing(y)' /\ ~Reading(y)'
    BY <1>3 DEF Due, Written, Handling, Pairing, Reading
  <2> QED
    BY <1>1, <2>1, WillOf DEF StatusDue, QRDue, StatusWritten
<1>5. ~cutShort' => ~cutShort /\ CurStep # "live" /\ ~Reading(x) /\ QRDue(x) = row.qr
  <2> SUFFICES ASSUME ~cutShort' PROVE ~cutShort /\ CurStep # "live" /\ ~Reading(x) /\ QRDue(x) = row.qr
    OBVIOUS
  <2>1. ~cutShort /\ \A c \in Clients : ~Live(c) /\ ~Unread(c) /\ Idle(<<c, "reader">>)
    BY <1>1
  <2>2. CurStep # "live"
    <3>1. wac # 0 => wac \in Clients
      BY <1>2, SessionAssumption DEF TypeOK, Clients
    <3> QED
      BY <2>1, <3>1 DEF CurStep, Live
  <2>3. ~Reading(x)
    <3>1. \A c \in Clients : <<c, "reader">> \notin Busy /\ <<c, "unread">> \notin Busy
      BY <2>1, BusyIs, WriterKinds
    <3>2. x[2] \in {"reader", "unread"} => \E c \in Clients : x \in {<<c, "reader">>, <<c, "unread">>}
      BY <1>2 DEF Agents, Writers, Kinds
    <3> QED
      BY <3>1, <3>2 DEF Reading
  <2>4. QRDue(x) = row.qr
    <3>1. CASE x \notin Busy
      BY <3>1, IdleView
    <3>2. CASE x \in Busy
      <4>1. x \in Writers /\ x[2] # "reader" /\ x[2] # "unread"
        BY <1>2, <2>3, <3>2 DEF Reading, Agents
      <4>2. ~(Handling(x) /\ flow[x[1]].step = "live")
        <5>1. Handling(x) => x[1] \in Clients
          BY <1>2, WriterParts, <4>1 DEF Handling, Kinds
        <5> QED
          BY <2>1, <5>1 DEF Live
      <4>3. Due(x) = todo[x]
        BY <3>2, <4>1, <4>2 DEF Due, Written
      <4>4. todo[x] # NULL
        BY <1>2, <3>2, <4>1, BusyIs, WriterParts DEF Idle, TodoOK
      <4> QED
        BY <4>1, <4>3, <4>4, <1>2, WillOf DEF QRDue, TodoOK
    <3> QED
      BY <3>1, <3>2
  <2> QED
    BY <2>1, <2>2, <2>3, <2>4
<1>6. /\ Cur'.step = "none" /\ Cur'.link = "down" /\ Cur'.retry = "no" /\ ~Cur'.paired
      /\ CurStep' = "off" /\ ~Coded'
  BY <1>1 DEF Cur, CurStep, Coded, NewClient
<1>7. Sole(y)'
  <2>1. y \in Agents' /\ y[1] = 0
    BY DEF Agents, Writers
  <2>2. \A b \in Clients : ~AtWork(b)'
    BY <1>1 DEF AtWork, Live, NewClient, NewFlow
  <2> QED
    BY <1>3, <2>1, <2>2 DEF Sole
<1> HIDE DEF y
<1>8. Wired(y)'
  BY <1>1, <1>4, <1>6 DEF Wired
<1>9. Good(y)'
  BY <1>1, <1>2, <1>4, <1>5, <1>6 DEF Good
<1> QED
  BY <1>7, <1>8, <1>9 DEF After, y

\* An event has fired: its handler alone is busy.
LEMMA FiredView ==
  ASSUME TypeOK, Calm, NEW c \in Clients, NEW k \in Kinds,
         NEW fields \in {Nothing} \cup [status : Statuses], Fire(c, k, fields), UNCHANGED <<row, flow>>
  PROVE  LET y == <<c, k>>
         IN  /\ Busy = {} /\ Busy' = {y} /\ y \in Agents
             /\ Handling(y)' /\ (Pairing(y)' <=> k = "PairSuccess") /\ ~Reading(y)'
             /\ StatusWritten(y)' = Will(fields, "status", row)
             /\ flow[c].step # "live" =>
                  StatusDue(y)' = Will(fields, "status", row) /\ QRDue(y)' = Will(fields, "qr", row)
             /\ flow[c].step = "live" =>
                  /\ StatusDue(y)' = IF k = "PairSuccess" THEN "connected" ELSE "disconnected"
                  /\ QRDue(y)' = IF k = "PairSuccess" THEN NULL ELSE row.qr
<1> DEFINE y == <<c, k>>
<1>1. y \in Writers /\ y \in Agents /\ Idle(y) /\ Turned(y, fields) /\ y[1] = c /\ y[2] = k
  BY FireDoes DEF Agents
<1>2. todo'[y] = fields /\ ~Idle(y)'
  BY <1>1, NullAssumption DEF Turned, Idle
<1>3. Busy = {} /\ Busy' = {y}
  BY <1>1, <1>2, StartsAlone
<1> HIDE DEF y
<1>4. Handling(y)' /\ (Pairing(y)' <=> k = "PairSuccess") /\ ~Reading(y)'
  BY <1>1, <1>3 DEF Handling, Pairing, Reading, Kinds
<1>5. Written(y)' = fields
  BY <1>1, <1>2, <1>3 DEF Written, Kinds
<1>6. Due(y)' = IF flow[c].step = "live" THEN ItemFields(Event(FinalOf[k])) ELSE fields
  BY <1>1, <1>4, <1>5 DEF Due
<1>7. StatusWritten(y)' = Will(fields, "status", row)
  BY <1>5 DEF StatusWritten
<1>8. flow[c].step # "live" =>
        StatusDue(y)' = Will(fields, "status", row) /\ QRDue(y)' = Will(fields, "qr", row)
  BY <1>6 DEF StatusDue, QRDue
<1>9. flow[c].step = "live" =>
        /\ StatusDue(y)' = IF k = "PairSuccess" THEN "connected" ELSE "disconnected"
        /\ QRDue(y)' = IF k = "PairSuccess" THEN NULL ELSE row.qr
  BY <1>6, WillOf DEF StatusDue, QRDue
<1> QED
  BY <1>1, <1>3, <1>4, <1>7, <1>8, <1>9 DEF y

LEMMA FiringKeeps ==
  ASSUME NEW x, Before(x), NEW c \in Clients,
         Scan(c) \/ ScanFails(c) \/ Login(c) \/ Drop(c) \/ Refused(c) \/ LogOut(c)
  PROVE  \E y \in Agents : After(y)
<1>1. UNCHANGED <<row, flow, wac, boot, cutShort>> /\ cli[c].link # "down"
  BY DEF Scan, ScanFails, Login, Drop, Refused, LogOut
<1>2. c = wac
  BY <1>1, OnlyCurrent DEF AtWork
<1>3. TypeOK /\ Sole(x) /\ Wired(x) /\ Good(x) /\ Calm
  BY DEF Before
<1>4. /\ Cur = cli[c] /\ CurStep = flow[c].step /\ CurStep' = CurStep
      /\ (Coded <=> CodesSent(c) # {}) /\ (Coded' <=> Coded)
  BY <1>1, <1>2, CurIs DEF CurStep, Coded, CodesSent
<1>5. Cur.step = "running" /\ Cur.retry = "no"
  BY <1>1, <1>3, <1>4 DEF Wired
<1>6. \A b \in Clients \ {wac} : cli'[b] = cli[b] /\ flow'[b] = flow[b]
  BY <1>1, <1>2, <1>3, ServerDoes DEF Became, BecameHungUp
<1>7. ASSUME NEW k \in Kinds, NEW fields \in {Nothing} \cup [status : Statuses], Fire(c, k, fields)
      PROVE  /\ Sole(<<c, k>>)'
             /\ StatusDue(x) = row.status /\ QRDue(x) = row.qr /\ StatusWritten(x) = row.status
             /\ ~Handling(x) /\ ~Pairing(x) /\ ~Reading(x)
  <2> DEFINE y == <<c, k>>
  <2>1. Busy = {} /\ Busy' = {y} /\ y \in Agents
    BY <1>1, <1>3, <1>7, FiredView
  <2>2. \A b \in Clients \ {wac'} : ~AtWork(b)'
    BY <1>1, <1>3, <1>6, OthersRest
  <2>3. y \in Agents' /\ y[1] = wac'
    BY <1>1, <1>2, <2>1 DEF Agents, Writers
  <2> QED
    BY <2>1, <2>2, <2>3, IdleView DEF Sole
<1>8. CASE Scan(c)
  <2> DEFINE y == <<c, "PairSuccess">>
  <2>1. /\ Fire(c, "PairSuccess", Nothing) /\ cli[c].link = "qr" /\ CodesSent(c) # {} /\ device' = TRUE
        /\ "PairSuccess" \in Kinds
    BY <1>8 DEF Scan, Kinds
  <2>2. CurStep = "live" /\ Coded
    BY <1>3, <1>4, <2>1 DEF Wired
  <2>3. /\ Sole(y)' /\ StatusDue(x) = row.status /\ StatusWritten(x) = row.status
        /\ QRDue(x) = row.qr /\ ~Reading(x)
    BY <1>7, <2>1
  <2>4. /\ y \in Agents /\ StatusDue(y)' = "connected" /\ QRDue(y)' = NULL /\ Pairing(y)'
        /\ StatusWritten(y)' = row.status
    <3>1. Will(Nothing, "status", row) = row.status
      BY WillOf
    <3>2. Nothing \in {Nothing} \cup [status : Statuses]
      OBVIOUS
    <3>3. /\ y \in Agents /\ Pairing(y)'
          /\ StatusWritten(y)' = Will(Nothing, "status", row)
          /\ flow[c].step = "live" =>
               StatusDue(y)' = "connected" /\ QRDue(y)' = NULL
      BY <1>1, <1>3, <2>1, <3>2, FiredView
    <3> QED
      BY <1>4, <2>2, <3>1, <3>3
  <2>5. CurBecame(TRUE, "scanned", TRUE, Cur.retry, Cur.lost)
    BY <1>1, <1>2, <1>3, <1>4, <1>8, ServerDoes, BecameCur
  <2> HIDE DEF y
  <2>6. Wired(y)'
    BY <1>1, <1>3, <1>4, <1>5, <2>1, <2>2, <2>4, <2>5 DEF CurBecame, Wired
  <2>7. Good(y)'
    BY <1>1, <1>3, <1>4, <1>5, <2>1, <2>2, <2>3, <2>4, <2>5 DEF CurBecame, Good
  <2> QED
    BY <2>3, <2>4, <2>6, <2>7 DEF After
<1>9. CASE ScanFails(c)
  <2> DEFINE y == <<c, "PairError">>
  <2>1. /\ Fire(c, "PairError", Nothing) /\ cli[c].link = "qr" /\ device' = device /\ "PairError" \in Kinds
    BY <1>9 DEF ScanFails, Kinds
  <2>2. CurStep = "live"
    BY <1>3, <1>4, <2>1 DEF Wired
  <2>3. /\ Sole(y)' /\ StatusDue(x) = row.status /\ StatusWritten(x) = row.status
        /\ QRDue(x) = row.qr /\ ~Pairing(x) /\ ~Reading(x)
    BY <1>7, <2>1
  <2>4. /\ y \in Agents /\ StatusDue(y)' = "disconnected" /\ QRDue(y)' = row.qr /\ ~Pairing(y)'
        /\ StatusWritten(y)' = row.status
    <3>1. Will(Nothing, "status", row) = row.status
      BY WillOf
    <3>2. Nothing \in {Nothing} \cup [status : Statuses]
      OBVIOUS
    <3>3. /\ y \in Agents /\ ~Pairing(y)'
          /\ StatusWritten(y)' = Will(Nothing, "status", row)
          /\ flow[c].step = "live" =>
               StatusDue(y)' = "disconnected" /\ QRDue(y)' = row.qr
      BY <1>1, <1>3, <2>1, <3>2, FiredView
    <3> QED
      BY <1>4, <2>2, <3>1, <3>3
  <2>5. CurBecame(Cur.paired, "down", TRUE, Cur.retry, Cur.lost)
    BY <1>1, <1>2, <1>3, <1>9, ServerDoes, BecameCur
  <2> HIDE DEF y
  <2>6. Wired(y)'
    BY <1>1, <1>3, <1>4, <1>5, <2>1, <2>2, <2>3, <2>4, <2>5 DEF CurBecame, Wired
  <2>7. Good(y)'
    BY <1>1, <1>3, <1>4, <1>5, <2>1, <2>2, <2>3, <2>4, <2>5 DEF CurBecame, Good
  <2> QED
    BY <2>3, <2>4, <2>6, <2>7 DEF After
<1>10. CASE Login(c)
  <2> DEFINE y == <<c, "Connected">>
  <2>1. /\ Fire(c, "Connected", ConnectedFields) /\ cli[c].link = "paired" /\ device' = device
        /\ "Connected" \in Kinds /\ ConnectedFields \in [status : Statuses]
    BY <1>10 DEF Login, Kinds, ConnectedFields, Statuses
  <2>2. /\ Sole(y)' /\ StatusDue(x) = row.status /\ StatusWritten(x) = row.status
        /\ QRDue(x) = row.qr /\ ~Pairing(x) /\ ~Reading(x)
    BY <1>7, <2>1
  <2>3. Cur.paired /\ device /\ CurStep # "live"
    <3>1. wac # 0
      BY <1>2, SessionAssumption DEF Clients
    <3> QED
      BY <1>3, <1>4, <2>1, <2>2, <3>1 DEF Wired
  <2>4. /\ y \in Agents /\ StatusDue(y)' = "connected" /\ QRDue(y)' = row.qr /\ ~Pairing(y)'
        /\ StatusWritten(y)' = "connected"
    BY <1>1, <1>3, <1>4, <2>1, <2>3, FiredView, WillOf DEF ConnectedFields
  <2>5. CurBecame(Cur.paired, "up", Cur.expected, Cur.retry, Cur.lost)
    BY <1>1, <1>2, <1>3, <1>4, <1>10, ServerDoes, BecameCur
  <2> HIDE DEF y
  <2>6. Wired(y)'
    BY <1>1, <1>3, <1>4, <1>5, <2>1, <2>3, <2>4, <2>5 DEF CurBecame, Wired
  <2>7. Good(y)'
    BY <1>1, <1>3, <1>4, <1>5, <2>1, <2>2, <2>3, <2>4, <2>5 DEF CurBecame, Good
  <2> QED
    BY <2>2, <2>4, <2>6, <2>7 DEF After
<1>11. CASE Drop(c)
  <2> DEFINE y == <<c, "Disconnected">>
             fields == [status |-> "disconnected"]
  <2>1. /\ Fire(c, "Disconnected", fields) /\ device' = device
        /\ "Disconnected" \in Kinds /\ fields \in [status : Statuses]
    BY <1>11 DEF Drop, Kinds, Statuses
  <2>2. /\ Sole(y)' /\ StatusDue(x) = row.status /\ StatusWritten(x) = row.status
        /\ QRDue(x) = row.qr /\ ~Pairing(x) /\ ~Reading(x)
    BY <1>7, <2>1
  <2>3. Will(fields, "status", row) = "disconnected" /\ Will(fields, "qr", row) = row.qr
    BY WillOf
  <2> HIDE DEF fields
  <2>4. /\ y \in Agents /\ StatusDue(y)' = "disconnected" /\ QRDue(y)' = row.qr /\ ~Pairing(y)'
        /\ StatusWritten(y)' = "disconnected"
    BY <1>1, <1>3, <1>4, <2>1, <2>3, FiredView
  <2>5. CurBecame(Cur.paired, "down", Cur.expected, IF Cur.paired THEN "waiting" ELSE "no", Cur.lost)
    BY <1>1, <1>2, <1>3, <1>4, <1>11, ServerDoes, BecameCur
  <2> HIDE DEF y
  <2>6. Wired(y)'
    BY <1>1, <1>3, <1>4, <1>5, <2>1, <2>2, <2>4, <2>5 DEF CurBecame, Wired
  <2>7. Good(y)'
    BY <1>1, <1>3, <1>4, <1>5, <2>1, <2>2, <2>4, <2>5 DEF CurBecame, Good
  <2> QED
    BY <2>2, <2>4, <2>6, <2>7 DEF After
<1>12. CASE LogOut(c)
  <2> DEFINE y == <<c, "LoggedOut">>
             fields == [status |-> "disconnected"]
  <2>1. /\ Fire(c, "LoggedOut", fields) /\ cli[c].link \in {"paired", "up"} /\ device' = FALSE
        /\ "LoggedOut" \in Kinds /\ fields \in [status : Statuses]
    BY <1>12 DEF LogOut, Kinds, Statuses
  <2>2. /\ Sole(y)' /\ StatusDue(x) = row.status /\ StatusWritten(x) = row.status
        /\ QRDue(x) = row.qr /\ ~Pairing(x) /\ ~Reading(x)
    BY <1>7, <2>1
  <2>3. Will(fields, "status", row) = "disconnected" /\ Will(fields, "qr", row) = row.qr
    BY WillOf
  <2> HIDE DEF fields
  <2>4. CurStep # "live"
    BY <1>3, <1>4, <2>1, <2>2 DEF Wired
  <2>5. /\ y \in Agents /\ StatusDue(y)' = "disconnected" /\ ~Pairing(y)'
        /\ StatusWritten(y)' = "disconnected"
    BY <1>1, <1>3, <1>4, <2>1, <2>3, FiredView
  <2>6. CurBecame(FALSE, "down", TRUE, Cur.retry, Cur.lost)
    BY <1>1, <1>2, <1>3, <1>4, <1>12, ServerDoes, BecameCur
  <2> HIDE DEF y
  <2>7. Wired(y)'
    BY <1>1, <1>3, <1>4, <1>5, <2>1, <2>4, <2>5, <2>6 DEF CurBecame, Wired
  <2>8. Good(y)'
    BY <1>1, <1>3, <1>4, <1>5, <2>1, <2>2, <2>4, <2>5, <2>6 DEF CurBecame, Good
  <2> QED
    BY <2>2, <2>5, <2>7, <2>8 DEF After
<1>13. CASE Refused(c)
  <2> DEFINE y == <<c, "Refused">>
  <2>1. /\ Fire(c, "Refused", Nothing) /\ device' = device /\ "Refused" \in Kinds
        /\ cli[c].link \in {"qr", "paired"}
    BY <1>13 DEF Refused, Kinds
  <2>2. CurBecame(Cur.paired, "down", TRUE, Cur.retry, Cur.paired)
    BY <1>1, <1>2, <1>3, <1>4, <1>13, ServerDoes, BecameCur
  <2>3. /\ Sole(y)' /\ StatusDue(x) = row.status /\ StatusWritten(x) = row.status
        /\ QRDue(x) = row.qr /\ ~Pairing(x) /\ ~Reading(x)
    BY <1>7, <2>1
  <2>4. /\ y \in Agents /\ ~Pairing(y)' /\ ~Reading(y)' /\ StatusWritten(y)' = row.status
        /\ CurStep = "live" => StatusDue(y)' = "disconnected" /\ QRDue(y)' = row.qr
        /\ CurStep # "live" => StatusDue(y)' = row.status /\ QRDue(y)' = row.qr
    <3>1. Will(Nothing, "status", row) = row.status /\ Will(Nothing, "qr", row) = row.qr
      BY WillOf
    <3>2. Nothing \in {Nothing} \cup [status : Statuses]
      OBVIOUS
    <3>3. /\ y \in Agents /\ ~Pairing(y)' /\ ~Reading(y)'
          /\ StatusWritten(y)' = Will(Nothing, "status", row)
          /\ flow[c].step = "live" => StatusDue(y)' = "disconnected" /\ QRDue(y)' = row.qr
          /\ flow[c].step # "live" =>
               /\ StatusDue(y)' = Will(Nothing, "status", row)
               /\ QRDue(y)' = Will(Nothing, "qr", row)
      BY <1>1, <1>3, <2>1, <3>2, FiredView
    <3> QED
      BY <1>4, <3>1, <3>3
  <2>5. /\ Cur.link = "paired" => Cur.paired /\ CurStep # "live"
        /\ Cur.link = "qr" => CurStep = "live"
    BY <1>3, <2>3 DEF Wired
  <2> HIDE DEF y
  <2>6. Wired(y)'
    BY <1>1, <1>3, <1>4, <1>5, <2>1, <2>2, <2>3, <2>4, <2>5 DEF CurBecame, Wired
  <2>7. Good(y)'
    BY <1>1, <1>3, <1>4, <1>5, <2>1, <2>2, <2>3, <2>4, <2>5 DEF CurBecame, Good
  <2> QED
    BY <2>3, <2>4, <2>6, <2>7 DEF After
<1> QED
  BY <1>8, <1>9, <1>10, <1>11, <1>12, <1>13

LEMMA DisconnectKeeps ==
  ASSUME NEW x, Before(x), Disconnect
  PROVE  After(<<0, "Disconnect">>)
<1> DEFINE y == <<0, "Disconnect">>
           fields == [status |-> "disconnected"]
<1>1. UNCHANGED <<row, flow, device, wac, boot, cutShort>>
  BY DEF Disconnect
<1>2. TypeOK /\ Sole(x) /\ Wired(x) /\ Good(x) /\ Calm
  BY DEF Before
<1>3. y \in Writers /\ y \in Agents /\ y \in Agents' /\ y[1] = 0 /\ y[2] = "Disconnect"
  BY DEF Agents, Writers
<1>4. Turned(y, fields) /\ Idle(y) /\ ~Idle(y)'
  <2>1. Turned(y, fields) /\ Idle(y)
    BY <1>2, <1>3, TurnedBy DEF Disconnect
  <2>2. fields # Nothing
    <3>1. "status" \in DOMAIN fields /\ DOMAIN Nothing = {}
      BY DEF Nothing
    <3> QED
      BY <3>1
  <2> HIDE DEF fields
  <2> QED
    BY <1>3, <2>1, <2>2 DEF Turned, Idle, Kinds
<1>5. Will(fields, "status", row) = "disconnected" /\ Will(fields, "qr", row) = row.qr
  BY WillOf
<1> HIDE DEF y, fields
<1>6. Busy = {} /\ Busy' = {y}
  BY <1>1, <1>2, <1>3, <1>4, StartsAlone
<1>7. /\ StatusDue(x) = row.status /\ QRDue(x) = row.qr /\ StatusWritten(x) = row.status
      /\ ~Handling(x) /\ ~Pairing(x) /\ ~Reading(x)
  BY <1>6, IdleView
<1>8. /\ StatusDue(y)' = "disconnected" /\ QRDue(y)' = row.qr /\ StatusWritten(y)' = "disconnected"
      /\ ~Handling(y)' /\ ~Pairing(y)' /\ ~Reading(y)'
  <2>1. ~Handling(y)' /\ ~Pairing(y)' /\ ~Reading(y)'
    BY <1>3 DEF Handling, Pairing, Reading, Kinds
  <2>2. Written(y)' = fields /\ Due(y)' = fields
    BY <1>3, <1>4, <1>6, <2>1 DEF Written, Due, Turned
  <2> QED
    BY <1>1, <1>5, <2>1, <2>2 DEF StatusDue, QRDue, StatusWritten
<1>9. CurStep' = CurStep /\ (Coded' <=> Coded)
  BY <1>1 DEF CurStep, Coded, CodesSent
<1>10. /\ Cur'.step = Cur.step
       /\ Cur'.paired = Cur.paired /\ Cur'.link = "down" /\ Cur'.retry = Cur.retry
       /\ \A b \in Clients \ {wac} : cli'[b] = cli[b]
  <2>1. CASE wac = 0
    BY <1>1, <2>1 DEF Cur, NewClient, Disconnect
  <2>2. CASE wac # 0
    <3>1. wac \in Clients
      BY <1>2, <2>2, SessionAssumption DEF TypeOK, Clients
    <3>2. BecameHungUp(wac)
      BY <1>2, <3>1, HangingUpDoes
    <3>3. Cur = cli[wac]
      BY <2>2 DEF Cur
    <3> QED
      BY <1>1, <3>1, <3>2, <3>3, BecameCur DEF BecameHungUp, Became, CurBecame
  <2> QED
    BY <2>1, <2>2
<1>11. Sole(y)'
  <2>1. \A b \in Clients \ {wac'} : ~AtWork(b)'
    BY <1>1, <1>2, <1>10, OthersRest
  <2> QED
    BY <1>3, <1>6, <2>1 DEF Sole
<1>12. Wired(y)'
  BY <1>1, <1>2, <1>7, <1>8, <1>9, <1>10 DEF Wired
<1>13. Good(y)'
  BY <1>1, <1>2, <1>7, <1>8, <1>9, <1>10 DEF Good
<1> QED
  BY <1>11, <1>12, <1>13 DEF After, y

-----------------------------------------------------------------------------
(* What is sent and read.                                                   *)

ReadOK == \A c \in Clients : flow[c].read <= Len(flow[c].sent)

\* A channel sends an item.
SendsTo(c, item, step) ==
  /\ flow'[c].step = step /\ flow'[c].read = flow[c].read
  /\ flow'[c].sent = Append(flow[c].sent, item)
  /\ \A b \in Clients \ {c} : flow'[b] = flow[b]

LEMMA SendsDoes ==
  ASSUME TypeOK, NEW c \in Clients, NEW item, NEW step, Sends(c, item, step)
  PROVE  SendsTo(c, item, step)
<1> DEFINE q == [flow[c] EXCEPT !.sent = Append(flow[c].sent, item), !.step = step]
<1>1. flow[c] \in FlowRecords
  BY DEF TypeOK, FlowRecords
<1>2. q.step = step /\ q.sent = Append(flow[c].sent, item) /\ q.read = flow[c].read
  BY <1>1 DEF FlowRecords
<1>3. flow' = [flow EXCEPT ![c] = q]
  BY DEF Sends
<1> HIDE DEF q
<1> QED
  BY <1>2, <1>3, FlowSet DEF SendsTo

LEMMA TakeDoes ==
  ASSUME TypeOK, NEW c \in Clients, Take(c)
  PROVE  /\ flow'[c].step = flow[c].step /\ flow'[c].sent = flow[c].sent
         /\ flow'[c].read = flow[c].read + 1
         /\ \A b \in Clients \ {c} : flow'[b] = flow[b]
         /\ Turned(<<c, "reader">>, ItemFields(flow[c].sent[flow[c].read + 1]))
<1> DEFINE q == [flow[c] EXCEPT !.read = @ + 1]
<1>1. flow[c] \in FlowRecords
  BY DEF TypeOK, FlowRecords
<1>2. q.step = flow[c].step /\ q.sent = flow[c].sent /\ q.read = flow[c].read + 1
  BY <1>1 DEF FlowRecords
<1>3. flow' = [flow EXCEPT ![c] = q]
  BY DEF Take
<1> HIDE DEF q
<1>4. flow'[c] = q /\ \A b \in Clients \ {c} : flow'[b] = flow[b]
  BY <1>3, FlowSet
<1>5. Turned(<<c, "reader">>, ItemFields(flow[c].sent[flow[c].read + 1]))
  BY WriterKinds, TurnedBy DEF Take
<1> QED
  BY <1>2, <1>4, <1>5

\* What an item appended looks like.
LEMMA Appended ==
  ASSUME TypeOK, ReadOK, NEW c \in Clients, NEW item, NEW step, SendsTo(c, item, step)
  PROVE  /\ Unread(c)' /\ flow'[c].sent # flow[c].sent
         /\ flow'[c].read <= Len(flow'[c].sent)
         /\ flow'[c].sent[Len(flow'[c].sent)] = item
         /\ item.event = "code" => CodesSent(c)' # {}
<1>1. flow[c].sent \in Seq(Items) /\ flow[c].read \in Nat /\ flow[c].read <= Len(flow[c].sent)
  BY DEF TypeOK, ReadOK
<1>2. /\ Len(flow'[c].sent) = Len(flow[c].sent) + 1 /\ Len(flow[c].sent) \in Nat
      /\ flow'[c].sent[Len(flow[c].sent) + 1] = item
      /\ Len(flow[c].sent) + 1 \in DOMAIN flow'[c].sent
  BY <1>1 DEF SendsTo
<1>3. flow'[c].sent # flow[c].sent
  BY <1>2
<1>4. item.event = "code" => CodesSent(c)' # {}
  BY <1>2 DEF CodesSent
<1> QED
  BY <1>1, <1>2, <1>3, <1>4 DEF SendsTo, Unread

LEMMA ReadInit == Init => ReadOK
BY DEF Init, ReadOK, NewFlow

LEMMA ReadStep == TypeOK /\ ReadOK /\ [Next]_vars => ReadOK'
<1> SUFFICES ASSUME TypeOK, ReadOK, [Next]_vars PROVE ReadOK'
  OBVIOUS
<1>1. CASE UNCHANGED flow
  BY <1>1 DEF ReadOK
<1>2. CASE Crash
  BY <1>2 DEF Crash, ReadOK, NewFlow
<1>3. ASSUME NEW c \in Clients, NEW step, FlowSteps(c, step) PROVE ReadOK'
  BY <1>3 DEF ReadOK, FlowSteps
<1>4. ASSUME NEW c \in Clients, NEW item, NEW step, SendsTo(c, item, step) PROVE ReadOK'
  <2>1. flow'[c].read <= Len(flow'[c].sent)
    BY <1>4, Appended
  <2> QED
    BY <1>4, <2>1 DEF ReadOK, SendsTo
<1>5. ASSUME NEW c \in Clients, Take(c) PROVE ReadOK'
  <2>1. /\ flow'[c].sent = flow[c].sent /\ flow'[c].read = flow[c].read + 1
        /\ \A b \in Clients \ {c} : flow'[b] = flow[b]
    BY <1>5, TakeDoes
  <2>2. flow[c].read < Len(flow[c].sent) /\ flow[c].read \in Nat /\ Len(flow[c].sent) \in Nat
    BY <1>5 DEF Take, Unread, TypeOK
  <2>3. flow'[c].read <= Len(flow'[c].sent)
    BY <2>1, <2>2
  <2> QED
    BY <2>1, <2>3 DEF ReadOK
<1>6. ASSUME NEW c \in Clients, Emitting(c) PROVE ReadOK'
  <2>1. CASE EmitCode(c)
    <3>1. PICK k \in 1..NCodes : Sends(c, Code(k), flow[c].step)
      BY <2>1 DEF EmitCode
    <3> QED
      BY <3>1, <1>4, SendsDoes
  <2>2. CASE RunOut(c)
    BY <2>2, <1>4, SendsDoes DEF RunOut
  <2>3. CASE CutOff(c) \/ CloseFlow(c)
    BY <2>3, <1>3, FlowStepsBy DEF CutOff, CloseFlow
  <2> QED
    BY <1>6, <2>1, <2>2, <2>3 DEF Emitting
<1>7. ASSUME NEW w \in Writers, Working(w) PROVE ReadOK'
  <2>1. CASE WriteColumn(w)
    BY <2>1, <1>1 DEF WriteColumn
  <2>2. CASE w[2] = "reader" /\ Take(w[1])
    BY <2>2, <1>5, WriterParts DEF Kinds
  <2>3. CASE w[2] \in Kinds /\ EndFlow(w[1], w[2])
    <3>1. w[1] \in Clients
      BY <2>3, WriterParts DEF Kinds
    <3>2. UNCHANGED flow \/ Sends(w[1], Event(FinalOf[w[2]]), "final")
      BY <2>3 DEF EndFlow
    <3> QED
      BY <3>1, <3>2, <1>1, <1>4, SendsDoes
  <2> QED
    BY <1>7, <2>1, <2>2, <2>3 DEF Working
<1>8. ASSUME NEW c \in Clients, Dial(c) PROVE ReadOK'
  BY <1>8, <1>1, <1>3, FlowStepsBy DEF Dial
<1>9. ASSUME NEW c \in Clients,
             Load(c, FALSE) \/ Load(c, TRUE) \/ DialFails(c) \/ Server(c)
      PROVE  ReadOK'
  BY <1>1, <1>9, ServerKeepsFlows DEF Load, DialFails
<1>10. CASE AutoReconnect \/ Disconnect \/ UNCHANGED vars
  BY <1>1, <1>10 DEF AutoReconnect, Disconnect, vars
<1> QED
  BY <1>2, <1>6, <1>7, <1>8, <1>9, <1>10 DEF Next, Step, Connecting

\* An item waits: nobody else is busy, and the reader will write it.
LEMMA SentView ==
  ASSUME TypeOK, ReadOK, Calm, NEW c \in Clients, NEW item, NEW step, SendsTo(c, item, step)
  PROVE  LET y == <<c, "unread">>
         IN  /\ Busy' = {y} /\ y \in Agents
             /\ ~Handling(y)' /\ ~Pairing(y)' /\ Reading(y)'
             /\ StatusDue(y)' = Will(ItemFields(item), "status", row')
             /\ QRDue(y)' = Will(ItemFields(item), "qr", row')
             /\ StatusWritten(y)' = Will(ItemFields(item), "status", row')
<1> DEFINE y == <<c, "unread">>
<1>1. y \in Agents /\ y[1] = c /\ y[2] = "unread"
  BY DEF Agents
<1>2. Unread(c)' /\ flow'[c].sent[Len(flow'[c].sent)] = item
  BY Appended
<1>3. y \in Busy'
  BY <1>2, BusyIs
<1> HIDE DEF y
<1>4. Busy' = {y}
  BY <1>3 DEF Calm
<1>5. ~Handling(y)' /\ ~Pairing(y)' /\ Reading(y)'
  BY <1>1, <1>4 DEF Handling, Pairing, Reading, Kinds
<1>6. Written(y)' = ItemFields(item)
  BY <1>1, <1>2, <1>4 DEF Written, LastFields
<1>7. Due(y)' = ItemFields(item)
  BY <1>5, <1>6 DEF Due
<1> QED
  BY <1>1, <1>4, <1>5, <1>6, <1>7 DEF StatusDue, QRDue, StatusWritten, y

\* An emitter that sends has no handler beside it.
LEMMA NoHandler ==
  ASSUME TypeOK, ReadOK, Calm, UNCHANGED todo, NEW c \in Clients, NEW item, NEW step, SendsTo(c, item, step),
         NEW x
  PROVE  ~Pairing(x)
<1>1. Busy' = {<<c, "unread">>}
  BY SentView
<1>2. ASSUME Pairing(x) PROVE FALSE
  <2>1. x \in Busy /\ x[2] = "PairSuccess"
    BY <1>2 DEF Pairing
  <2>2. x \in Writers
    BY <2>1, BusyIs DEF Agents
  <2>3. x \in Busy'
    BY <2>1, <2>2, BusyIs DEF Idle
  <2> QED
    BY <1>1, <2>1, <2>3
<1> QED
  BY <1>2

LEMMA EmittingKeeps ==
  ASSUME NEW x, Before(x), ReadOK, NEW c \in Clients, Emitting(c)
  PROVE  \E y \in Agents : After(y)
<1> DEFINE y == <<c, "unread">>
<1>1. UNCHANGED <<row, device, wac, todo, boot>> /\ Live(c)
  BY DEF Emitting, EmitCode, RunOut, CutOff, CloseFlow, Live
<1>2. c = wac /\ wac # 0
  BY <1>1, OnlyCurrent, SessionAssumption DEF AtWork, Clients
<1>3. TypeOK /\ Sole(x) /\ Wired(x) /\ Good(x) /\ Calm /\ x \in Agents /\ x[1] \in {0, c}
  BY <1>2 DEF Before, Sole
<1>4. /\ Cur = cli[c] /\ CurStep = flow[c].step /\ (Coded <=> CodesSent(c) # {})
      /\ Cur' = cli'[c] /\ CurStep' = flow'[c].step /\ (Coded' <=> CodesSent(c)' # {})
  BY <1>1, <1>2, CurIs
<1>5. Cur.step = "running"
  BY <1>1, <1>3, <1>4 DEF Wired, Live
<1>6. ASSUME NEW item, NEW step, SendsTo(c, item, step)
      PROVE  /\ ~Pairing(x) /\ Busy' = {y} /\ y \in Agents
             /\ ~Handling(y)' /\ ~Pairing(y)' /\ Reading(y)'
             /\ StatusDue(y)' = Will(ItemFields(item), "status", row)
             /\ QRDue(y)' = Will(ItemFields(item), "qr", row)
             /\ StatusWritten(y)' = Will(ItemFields(item), "status", row)
  BY <1>1, <1>3, <1>6, SentView, NoHandler
<1>7. ASSUME Busy' = {y}, \A b \in Clients \ {wac} : cli'[b] = cli[b] /\ flow'[b] = flow[b]
      PROVE  Sole(y)'
  <2>1. \A b \in Clients \ {wac'} : ~AtWork(b)'
    BY <1>1, <1>3, <1>7, OthersRest
  <2>2. y \in Agents' /\ y[1] = wac'
    BY <1>1, <1>2 DEF Agents
  <2> QED
    BY <1>7, <2>1, <2>2 DEF Sole
<1>8. CASE EmitCode(c)
  <2>1. PICK k \in 1..NCodes : Sends(c, Code(k), flow[c].step)
    BY <1>8 DEF EmitCode
  <2>2. SendsTo(c, Code(k), flow[c].step) /\ UNCHANGED <<cli, cutShort>>
    BY <1>3, <1>8, <2>1, SendsDoes DEF EmitCode
  <2>3. flow'[c].sent # flow[c].sent /\ CodesSent(c)' # {}
    BY <1>3, <2>2, Appended DEF Code
  <2>4. CurStep = "live" /\ CurStep' = "live" /\ Coded'
    BY <1>1, <1>3, <1>4, <2>2, <2>3 DEF Calm, SendsLate, SendsTo, Live
  <2>5. /\ ~Pairing(x) /\ Busy' = {y} /\ ~Handling(y)' /\ ~Pairing(y)' /\ Reading(y)' /\ y \in Agents
        /\ StatusDue(y)' = "pending_qr" /\ StatusWritten(y)' = "pending_qr"
    <3>1. Will(ItemFields(Code(k)), "status", row) = "pending_qr"
      BY WillOf
    <3> QED
      BY <1>6, <2>2, <3>1
  <2>6. Cur' = Cur
    BY <1>4, <2>2
  <2>7. ~Cur.paired /\ ~device
    BY <1>2, <1>3, <2>4, <2>5 DEF Wired
  <2>8. Sole(y)'
    BY <1>2, <1>7, <2>2, <2>5 DEF SendsTo
  <2> HIDE DEF y
  <2>9. Wired(y)'
    BY <1>1, <1>3, <1>5, <2>4, <2>5, <2>6, <2>7 DEF Wired
  <2>10. Cur.link # "up" /\ Cur.retry # "waiting"
    BY <1>3, <2>7 DEF Wired
  <2>11. Good(y)'
    BY <1>1, <2>2, <2>4, <2>5, <2>6, <2>7, <2>10 DEF Good
  <2> QED
    BY <2>5, <2>8, <2>9, <2>11 DEF After
<1>9. CASE RunOut(c)
  <2>1. SendsTo(c, Event("timeout"), "final") /\ UNCHANGED cutShort /\ flow[c].step = "live"
    BY <1>3, <1>9, SendsDoes DEF RunOut
  <2>2. CurStep = "live" /\ CurStep' = "final"
    BY <1>4, <2>1 DEF SendsTo
  <2>3. /\ ~Pairing(x) /\ Busy' = {y} /\ ~Handling(y)' /\ ~Pairing(y)' /\ Reading(y)' /\ y \in Agents
        /\ StatusDue(y)' = "disconnected" /\ StatusWritten(y)' = "disconnected"
    BY <1>6, <2>1, WillOf
  <2>4. BecameHungUp(c)
    BY <1>3, <1>9, HangingUpDoes
  <2>5. /\ Cur'.step = Cur.step /\ Cur'.paired = Cur.paired /\ Cur'.link = "down" /\ Cur'.retry = Cur.retry
    BY <1>1, <1>2, <1>4, <2>4, BecameCur DEF CurBecame
  <2>6. ~Cur.paired /\ ~device
    BY <1>2, <1>3, <2>2, <2>3 DEF Wired
  <2>7. Sole(y)'
    BY <1>2, <1>7, <2>1, <2>3, <2>4 DEF SendsTo, BecameHungUp, Became
  <2> HIDE DEF y
  <2>8. Wired(y)'
    BY <1>1, <1>3, <1>5, <2>2, <2>3, <2>5, <2>6 DEF Wired
  <2>9. Good(y)'
    BY <1>1, <2>1, <2>2, <2>3, <2>5, <2>6 DEF Good
  <2> QED
    BY <2>3, <2>7, <2>8, <2>9 DEF After
<1>10. CASE CutOff(c)
  <2>1. FlowSteps(c, "ended") /\ cutShort' = TRUE /\ flow[c].step = "live" /\ CodesSent(c) # {}
    BY <1>3, <1>10, FlowStepsBy DEF CutOff
  <2>2. CurStep = "live" /\ CurStep' = "ended" /\ Coded
    BY <1>4, <2>1 DEF FlowSteps
  <2>3. /\ Busy' = Busy /\ StatusDue(x)' = StatusWritten(x)
        /\ (Handling(x)' <=> Handling(x)) /\ (Pairing(x)' <=> Pairing(x))
    BY <1>1, <1>3, <2>1, StandsBut
  <2>4. StatusWritten(x) # "connected"
    BY <1>3, <2>2 DEF Good
  <2>5. BecameHungUp(c)
    BY <1>3, <1>10, HangingUpDoes
  <2>6. /\ Cur'.step = Cur.step /\ Cur'.paired = Cur.paired /\ Cur'.link = "down" /\ Cur'.retry = Cur.retry
    BY <1>1, <1>2, <1>4, <2>5, BecameCur DEF CurBecame
  <2>7. Sole(x)'
    BY <1>1, <1>2, <1>3, <2>1, <2>3, <2>5, SoleStays DEF FlowSteps, BecameHungUp, Became
  <2>8. Wired(x)'
    BY <1>1, <1>3, <1>5, <2>2, <2>3, <2>6 DEF Wired
  <2>9. Good(x)'
    BY <1>1, <1>3, <2>1, <2>2, <2>3, <2>4, <2>6 DEF Good
  <2> QED
    BY <1>3, <2>7, <2>8, <2>9 DEF After
<1>11. CASE CloseFlow(c)
  <2>1. FlowSteps(c, "ended") /\ UNCHANGED <<cli, cutShort>> /\ flow[c].step = "final"
    BY <1>3, <1>11, FlowStepsBy DEF CloseFlow
  <2>2. CurStep = "final" /\ CurStep' = "ended"
    BY <1>4, <2>1 DEF FlowSteps
  <2>3. /\ Busy' = Busy /\ StatusDue(x)' = StatusDue(x) /\ QRDue(x)' = QRDue(x)
        /\ (Handling(x)' <=> Handling(x)) /\ (Reading(x)' <=> Reading(x))
    BY <1>1, <1>3, <2>1, StandsBut
  <2>4. Cur' = Cur
    BY <1>4, <2>1
  <2>5. Sole(x)'
    BY <1>1, <1>2, <1>3, <2>1, <2>3, SoleStays DEF FlowSteps
  <2>6. Wired(x)'
    BY <1>1, <1>3, <1>5, <2>2, <2>3, <2>4 DEF Wired
  <2>7. Good(x)'
    BY <1>1, <1>3, <2>1, <2>2, <2>3, <2>4 DEF Good, Wired
  <2> QED
    BY <1>3, <2>5, <2>6, <2>7 DEF After
<1> QED
  BY <1>8, <1>9, <1>10, <1>11 DEF Emitting

-----------------------------------------------------------------------------
(* What is written.                                                         *)

LEMMA IdleNext ==
  ASSUME NEW x, x \notin Busy'
  PROVE  /\ StatusDue(x)' = row'.status /\ QRDue(x)' = row'.qr /\ StatusWritten(x)' = row'.status
         /\ ~Handling(x)' /\ ~Pairing(x)' /\ ~Reading(x)'
<1>1. Due(x)' = Nothing /\ Written(x)' = Nothing
  BY DEF Due, Written, Handling
<1>2. Will(Nothing, "status", row') = row'.status /\ Will(Nothing, "qr", row') = row'.qr
  BY WillOf
<1> QED
  BY <1>1, <1>2 DEF StatusDue, QRDue, StatusWritten, Handling, Pairing, Reading

LEMMA TakeKeeps ==
  ASSUME NEW x, Before(x), ReadOK, NEW c \in Clients, Take(c)
  PROVE  \E y \in Agents : After(y)
<1> DEFINE y == <<c, "reader">>
           fields == ItemFields(flow[c].sent[flow[c].read + 1])
<1>1. UNCHANGED <<row, device, wac, cli, boot, cutShort>> /\ Unread(c)
  BY DEF Take
<1>2. TypeOK /\ Sole(x) /\ Wired(x) /\ Good(x) /\ Calm
  BY DEF Before
<1>3. <<c, "unread">> \in Busy /\ x = <<c, "unread">>
  BY <1>1, <1>2, BusyIs DEF Sole
<1>4. c = wac
  BY <1>2, <1>3, SessionAssumption DEF Sole, Clients
<1>5. /\ flow'[c].step = flow[c].step /\ flow'[c].sent = flow[c].sent
      /\ flow'[c].read = flow[c].read + 1
      /\ \A b \in Clients \ {c} : flow'[b] = flow[b]
      /\ Turned(y, fields)
  BY <1>2, TakeDoes
<1>6. fields # Nothing
  <2>1. \A item : "status" \in DOMAIN ItemFields(item)
    BY DEF ItemFields
  <2> QED
    BY <2>1 DEF Nothing
<1> HIDE DEF fields
<1>7. y \in Writers /\ y \in Agents /\ y[1] = c /\ y[2] = "reader"
  BY WriterKinds DEF Agents
<1>8. y \in Busy'
  BY <1>5, <1>6, <1>7, BusyIs DEF Turned, Idle, Kinds
<1> HIDE DEF y
<1>9. Busy' = {y}
  BY <1>2, <1>8 DEF Calm
<1>10. fields = LastFields(c)
  <2>1. ~Unread(c)'
    <3>1. <<c, "unread">> \notin Busy'
      BY <1>7, <1>9
    <3> QED
      BY <3>1, BusyIs
  <2>2. flow[c].read \in Nat /\ Len(flow[c].sent) \in Nat
    BY <1>2 DEF TypeOK
  <2>3. flow[c].read + 1 = Len(flow[c].sent)
    BY <1>1, <1>5, <2>1, <2>2 DEF Unread
  <2> QED
    BY <2>3 DEF fields, LastFields
<1>11. /\ Written(x) = fields /\ Due(x) = fields /\ Reading(x) /\ ~Handling(x) /\ ~Pairing(x)
  BY <1>3, <1>10 DEF Written, Due, Reading, Handling, Pairing, Kinds
<1>12. Reading(y)' /\ ~Handling(y)' /\ ~Pairing(y)'
  BY <1>7, <1>9 DEF Reading, Handling, Pairing, Kinds
<1>13. Written(y)' = fields /\ Due(y)' = fields
  BY <1>5, <1>7, <1>9, <1>12 DEF Written, Due, Turned
<1>14. /\ StatusDue(y)' = StatusDue(x) /\ QRDue(y)' = QRDue(x) /\ StatusWritten(y)' = StatusWritten(x)
  BY <1>1, <1>11, <1>13 DEF StatusDue, QRDue, StatusWritten
<1>15. Cur' = Cur /\ CurStep' = CurStep /\ (Coded' <=> Coded)
  BY <1>1, <1>4, <1>5 DEF Cur, CurStep, Coded, CodesSent
<1>16. Sole(y)'
  <2>1. \A b \in Clients \ {wac'} : ~AtWork(b)'
    BY <1>1, <1>2, <1>4, <1>5, OthersRest
  <2>2. y \in Agents' /\ y[1] = wac'
    BY <1>1, <1>4, <1>7 DEF Agents, Writers
  <2> QED
    BY <1>9, <2>1, <2>2 DEF Sole
<1>17. Wired(y)'
  BY <1>1, <1>2, <1>11, <1>12, <1>15 DEF Wired
<1>18. Good(y)'
  BY <1>1, <1>2, <1>11, <1>12, <1>14, <1>15 DEF Good
<1> QED
  BY <1>7, <1>16, <1>17, <1>18 DEF After

LEMMA EndFlowKeeps ==
  ASSUME NEW x, Before(x), ReadOK, NEW c \in Clients, NEW k \in Kinds, EndFlow(c, k)
  PROVE  \E y \in Agents : After(y)
<1> DEFINE w == <<c, k>>
           y == <<c, "unread">>
           final == Event(FinalOf[k])
<1>1. UNCHANGED <<row, device, wac, cli, boot, cutShort>> /\ todo[w] = Nothing
  BY DEF EndFlow
<1>2. TypeOK /\ TodoOK /\ Sole(x) /\ Wired(x) /\ Good(x) /\ Calm /\ x \in Agents
  BY DEF Before, Sole
<1>3. w \in Writers /\ w[1] = c /\ w[2] = k
  BY WriterKinds
<1>4. w \in Busy /\ x = w
  BY <1>1, <1>2, <1>3, BusyIs, NullAssumption DEF Sole, Idle
<1>5. c = wac /\ wac # 0
  BY <1>2, <1>3, <1>4, SessionAssumption DEF Sole, Clients
<1>6. /\ Cur = cli[c] /\ CurStep = flow[c].step /\ (Coded <=> CodesSent(c) # {})
      /\ CurStep' = flow'[c].step /\ Cur' = Cur
  BY <1>1, <1>5, CurIs DEF Cur
<1>7. Turned(w, NULL)
  BY <1>2, <1>3, TurnedBy DEF EndFlow
<1>8. Handling(x) /\ (Pairing(x) <=> k = "PairSuccess") /\ ~Reading(x) /\ Written(x) = Nothing
  BY <1>1, <1>3, <1>4 DEF Handling, Pairing, Reading, Written, Kinds
<1>9. CASE flow[c].step = "live"
  <2>1. SendsTo(c, final, "final")
    BY <1>2, <1>9, SendsDoes DEF EndFlow
  <2>2. CurStep = "live" /\ CurStep' = "final"
    BY <1>6, <1>9, <2>1 DEF SendsTo
  <2>3. /\ Busy' = {y} /\ y \in Agents
        /\ ~Handling(y)' /\ ~Pairing(y)' /\ Reading(y)'
        /\ StatusDue(y)' = Will(ItemFields(final), "status", row)
        /\ QRDue(y)' = Will(ItemFields(final), "qr", row)
        /\ StatusWritten(y)' = Will(ItemFields(final), "status", row)
    BY <1>1, <1>2, <2>1, SentView
  <2>4. Due(x) = ItemFields(final)
    BY <1>3, <1>4, <1>8, <1>9 DEF Due
  <2>5. StatusDue(y)' = StatusDue(x) /\ QRDue(y)' = QRDue(x)
    BY <2>3, <2>4 DEF StatusDue, QRDue
  <2>6. StatusDue(x) = IF k = "PairSuccess" THEN "connected" ELSE "disconnected"
    <3>1. Will(ItemFields(final), "status", row) = IF k = "PairSuccess" THEN "connected" ELSE "disconnected"
      BY WillOf
    <3> QED
      BY <2>4, <3>1 DEF StatusDue
  <2>7. Sole(y)'
    <3>1. \A b \in Clients \ {wac'} : ~AtWork(b)'
      BY <1>1, <1>2, <1>5, <2>1, OthersRest DEF SendsTo
    <3>2. y \in Agents' /\ y[1] = wac'
      BY <1>1, <1>5 DEF Agents
    <3> QED
      BY <2>3, <3>1, <3>2 DEF Sole
  <2>8. k = "PairSuccess" => Coded
    BY <1>2, <1>8, <2>2 DEF Wired
  <2> HIDE DEF y, w, final
  <2>9. Wired(y)'
    BY <1>1, <1>2, <1>6, <1>8, <2>2, <2>3 DEF Wired
  <2>10. Good(y)'
    BY <1>1, <1>2, <1>6, <2>2, <2>3, <2>5, <2>6, <2>8 DEF Good
  <2> QED
    BY <2>3, <2>7, <2>9, <2>10 DEF After
<1>10. CASE flow[c].step # "live"
  <2>1. UNCHANGED flow
    BY <1>10 DEF EndFlow
  <2>2. CurStep # "live" /\ CurStep' = CurStep /\ (Coded' <=> Coded)
    BY <1>1, <1>6, <1>10, <2>1 DEF Coded, CodesSent
  <2>3. Due(x) = Nothing
    BY <1>3, <1>4, <1>8, <1>10 DEF Due
  <2>4. StatusDue(x) = row.status /\ QRDue(x) = row.qr
    BY <2>3, WillOf DEF StatusDue, QRDue
  <2>5. Busy' = {}
    <3>1. ASSUME NEW v \in Writers, v \in Busy' PROVE FALSE
      <4>1. v # w
        BY <1>3, <1>7, <3>1, BusyIs DEF Turned, Idle
      <4>2. v \in Busy
        BY <3>1, <4>1, <1>7, BusyIs DEF Turned, Idle
      <4> QED
        BY <1>2, <1>4, <4>1, <4>2 DEF Sole
    <3>2. ASSUME NEW b \in Clients, <<b, "unread">> \in Busy' PROVE FALSE
      <4>1. <<b, "unread">> \in Busy
        BY <2>1, <3>2, BusyIs DEF Unread
      <4> QED
        BY <1>2, <1>3, <1>4, <4>1 DEF Sole, Kinds
    <3>3. \A v \in Agents : v \in Writers \/ \E b \in Clients : v = <<b, "unread">>
      BY DEF Agents
    <3> QED
      BY <3>1, <3>2, <3>3, BusyIs
  <2>6. /\ StatusDue(x)' = row.status /\ QRDue(x)' = row.qr
        /\ ~Handling(x)' /\ ~Pairing(x)' /\ ~Reading(x)'
    BY <1>1, <2>5, IdleNext
  <2>7. Sole(x)'
    <3>1. \A b \in Clients \ {wac'} : ~AtWork(b)'
      BY <1>1, <1>2, <2>1, OthersRest
    <3>2. x \in Agents' /\ x[1] = wac'
      BY <1>1, <1>2, <1>3, <1>4, <1>5 DEF Agents, Writers
    <3> QED
      BY <2>5, <3>1, <3>2 DEF Sole
  <2> HIDE DEF y, w, final
  <2>8. Wired(x)'
    BY <1>1, <1>2, <1>6, <2>2, <2>6 DEF Wired
  <2>9. Good(x)'
    BY <1>1, <1>2, <1>6, <1>8, <2>2, <2>4, <2>6 DEF Good
  <2> QED
    BY <1>2, <2>7, <2>8, <2>9 DEF After
<1> QED
  BY <1>9, <1>10

LEMMA WriteKeeps ==
  ASSUME NEW x, Before(x), NEW w \in Writers, WriteColumn(w)
  PROVE  After(x)
<1>1. UNCHANGED <<device, wac, cli, flow, boot, cutShort>>
  BY DEF WriteColumn
<1>2. TypeOK /\ TodoOK /\ Sole(x) /\ Wired(x) /\ Good(x) /\ Calm /\ x \in Agents
  BY DEF Before, Sole
<1>3. PICK col, s, rest :
        /\ col \in {"status", "qr"}
        /\ ~Idle(w) /\ todo[w] # NULL /\ col \in DOMAIN todo[w] /\ s = todo[w][col]
        /\ row' = [row EXCEPT ![col] = s]
        /\ Turned(w, rest) /\ DOMAIN rest = DOMAIN todo[w] \ {col}
        /\ \A k \in DOMAIN rest : rest[k] = todo[w][k]
        /\ w[2] # "reader" => col = "status" /\ rest = Nothing
        /\ w[2] # "PairSuccess"
  BY <1>2, WriteDoes DEF Wrote
<1>4. w \in Busy /\ x = w
  BY <1>2, <1>3, BusyIs DEF Sole
<1>5. row'[col] = s /\ \A k \in {"status", "qr"} \ {col} : row'[k] = row[k]
  BY <1>2, <1>3 DEF TypeOK
<1>6. todo'[x] = rest
  BY <1>3, <1>4 DEF Turned
<1>7. x \in Busy' <=> (x[2] \in Kinds \/ rest # Nothing)
  BY <1>3, <1>4, <1>6, BusyIs, NullAssumption DEF Idle, Kinds
<1>8. x[2] # "unread" /\ x[2] # "PairSuccess"
  BY <1>3, <1>4, WriterParts DEF Kinds
<1>9. Written(x) = todo[x] /\ Written(x)' = rest
  BY <1>4, <1>6, <1>7, <1>8 DEF Written
<1>10. (Handling(x)' <=> Handling(x)) /\ ~Pairing(x) /\ ~Pairing(x)'
  BY <1>4, <1>7, <1>8 DEF Handling, Pairing
<1>11. \A k \in {"status", "qr"} : Will(rest, k, row') = Will(todo[x], k, row)
  BY <1>3, <1>4, <1>5 DEF Will
<1>12. StatusWritten(x)' = StatusWritten(x)
  BY <1>9, <1>11 DEF StatusWritten
<1>13. /\ StatusDue(x)' = StatusDue(x) /\ QRDue(x)' = QRDue(x)
       /\ row'.status = "pending_qr" => CurStep = "live" \/ StatusDue(x) = "pending_qr" \/ Reading(x)'
       /\ row.status = "connected" /\ StatusDue(x) = "connected" => row'.status = "connected"
       /\ row'.status = "connected" =>
            CurStep = "live" \/ Reading(x)' \/ (StatusDue(x) = "connected" /\ QRDue(x) = row'.qr)
  <2>1. CASE Handling(x) /\ flow[x[1]].step = "live"
    <3>1. Due(x) = ItemFields(Event(FinalOf[x[2]])) /\ Due(x)' = Due(x) /\ x[2] \in Kinds
      BY <1>1, <1>10, <2>1 DEF Due, Handling
    <3>2. col = "status" /\ row'.qr = row.qr
      BY <1>3, <1>4, <1>5, <3>1 DEF Kinds
    <3>3. StatusDue(x) = "disconnected" /\ QRDue(x) = row.qr
      BY <1>8, <3>1, WillOf DEF StatusDue, QRDue
    <3>4. StatusDue(x)' = "disconnected" /\ QRDue(x)' = row'.qr
      BY <1>8, <3>1, WillOf DEF StatusDue, QRDue
    <3>5. CurStep = "live"
      <4>1. x[1] \in Clients
        BY <1>4, <3>1, WriterParts DEF Kinds
      <4>2. x[1] = wac /\ wac # 0
        BY <1>2, <4>1, SessionAssumption DEF Sole, Clients
      <4> QED
        BY <2>1, <4>2 DEF CurStep
    <3> QED
      BY <3>2, <3>3, <3>4, <3>5
  <2>2. CASE ~(Handling(x) /\ flow[x[1]].step = "live")
    <3>1. Due(x) = todo[x] /\ Due(x)' = rest
      BY <1>1, <1>9, <1>10, <2>2 DEF Due
    <3>2. StatusDue(x)' = StatusDue(x) /\ QRDue(x)' = QRDue(x)
      BY <1>11, <3>1 DEF StatusDue, QRDue
    <3>3. CASE col = "status"
      <4>1. row'.status = StatusDue(x)
        BY <1>3, <1>4, <1>5, <3>1, <3>3 DEF StatusDue, Will
      <4>2. Reading(x)' \/ QRDue(x) = row'.qr
        <5>1. CASE x[2] # "reader"
          <6>1. QRDue(x)' = Will(Nothing, "qr", row')
            BY <1>3, <1>4, <3>1, <5>1 DEF QRDue
          <6> QED
            BY <3>2, <6>1, WillOf
        <5>2. CASE x[2] = "reader" /\ x \in Busy'
          BY <5>2 DEF Reading
        <5>3. CASE x \notin Busy'
          BY <3>2, <5>3, IdleNext
        <5> QED
          BY <5>1, <5>2, <5>3
      <4> QED
        BY <3>2, <4>1, <4>2
    <3>4. CASE col = "qr"
      <4>1. row'.status = row.status /\ x[2] = "reader"
        BY <1>3, <1>4, <1>5, <3>4
      <4>2. CASE x \in Busy'
        BY <3>2, <4>1, <4>2 DEF Reading
      <4>3. CASE x \notin Busy'
        <5>1. StatusDue(x)' = row'.status /\ QRDue(x)' = row'.qr
          BY <4>3, IdleNext
        <5> QED
          BY <3>2, <4>1, <5>1
      <4> QED
        BY <4>2, <4>3
    <3> QED
      BY <1>3, <3>3, <3>4
  <2> QED
    BY <2>1, <2>2
<1>15. Cur' = Cur /\ CurStep' = CurStep /\ (Coded' <=> Coded)
  BY <1>1 DEF Cur, CurStep, Coded, CodesSent
<1>16. Sole(x)'
  <2>1. \A b \in Clients \ {wac'} : ~AtWork(b)'
    BY <1>1, <1>2, OthersRest
  <2>2. \A v \in Busy' : v = x
    <3>1. ASSUME NEW v \in Writers, v \in Busy', v # w PROVE FALSE
      <4>1. v \in Busy
        BY <1>3, <3>1, BusyIs DEF Turned, Idle
      <4> QED
        BY <1>2, <1>4, <3>1, <4>1 DEF Sole
    <3>2. ASSUME NEW b \in Clients, <<b, "unread">> \in Busy' PROVE FALSE
      <4>1. <<b, "unread">> \in Busy
        BY <1>1, <3>2, BusyIs DEF Unread
      <4> QED
        BY <1>2, <1>8, <4>1 DEF Sole
    <3>3. \A v \in Agents : v \in Writers \/ \E b \in Clients : v = <<b, "unread">>
      BY DEF Agents
    <3> QED
      BY <1>4, <3>1, <3>2, <3>3, BusyIs
  <2>3. x \in Agents' /\ x[1] \in {0, wac'}
    BY <1>1, <1>2 DEF Sole, Agents, Writers
  <2> QED
    BY <2>1, <2>2, <2>3 DEF Sole
<1>17. Wired(x)'
  BY <1>1, <1>2, <1>10, <1>15 DEF Wired
<1>18. Good(x)'
  BY <1>1, <1>2, <1>12, <1>13, <1>15 DEF Good
<1> QED
  BY <1>16, <1>17, <1>18 DEF After

-----------------------------------------------------------------------------
(* The theorem.                                                             *)

LEMMA RowStep ==
  ASSUME TypeOK, OffInv, FlowInv, TodoOK, ReadOK, RowInv, [Next]_vars
  PROVE  RowInv'
<1>1. CASE UNCHANGED vars
  <2>1. UNCHANGED <<row, device, wac, cli, flow, todo, boot, excused, cutShort>>
    BY <1>1 DEF vars
  <2>2. Cur' = Cur /\ CurStep' = CurStep /\ (Coded' <=> Coded)
    BY <2>1 DEF Cur, CurStep, Coded, CodesSent
  <2>3. ASSUME NEW x \in Agents, Sole(x), Wired(x), Good(x) PROVE After(x)
    <3>1. /\ Busy' = Busy
          /\ StatusDue(x)' = StatusDue(x) /\ QRDue(x)' = QRDue(x) /\ StatusWritten(x)' = StatusWritten(x)
          /\ (Handling(x)' <=> Handling(x)) /\ (Pairing(x)' <=> Pairing(x)) /\ (Reading(x)' <=> Reading(x))
      BY <2>1, Stands
    <3>2. Sole(x)'
      BY <2>1, <2>3, <3>1, SoleStays
    <3>3. Wired(x)'
      BY <2>1, <2>2, <2>3, <3>1 DEF Wired
    <3>4. Good(x)'
      BY <2>1, <2>2, <2>3, <3>1 DEF Good
    <3> QED
      BY <3>2, <3>3, <3>4 DEF After
  <2> QED
    BY <2>1, <2>3 DEF RowInv, After, Agents, Writers
<1>2. CASE Next
  <2> SUFFICES ASSUME ~excused' PROVE \E y \in Agents : After(y)
    BY DEF RowInv, After, Agents, Writers
  <2>1. Calm
    BY <1>2, CalmStep DEF Next
  <2>2. PICK x \in Agents : Sole(x) /\ Wired(x) /\ Good(x)
    BY <2>1 DEF RowInv, Calm
  <2>3. Before(x)
    BY <2>1, <2>2 DEF Before
  <2>4. <<0, "Disconnect">> \in Agents
    BY DEF Agents, Writers
  <2>5. CASE AutoReconnect
    BY <2>3, <2>5, AutoReconnectKeeps
  <2>6. CASE Crash
    BY <2>3, <2>4, <2>6, CrashKeeps
  <2>7. CASE Disconnect
    BY <2>3, <2>4, <2>7, DisconnectKeeps
  <2>8. ASSUME NEW c \in Clients, Load(c, FALSE) \/ Load(c, TRUE) PROVE \E y \in Agents : After(y)
    BY <2>3, <2>4, <2>8, LoadKeeps
  <2>9. ASSUME NEW c \in Clients, Dial(c) \/ DialFails(c) PROVE \E y \in Agents : After(y)
    BY <2>3, <2>9, DialKeeps, LinkKeeps
  <2>10. ASSUME NEW c \in Clients, Server(c) PROVE \E y \in Agents : After(y)
    <3>1. CASE Scan(c) \/ ScanFails(c) \/ Login(c) \/ Drop(c) \/ Refused(c) \/ LogOut(c)
      BY <2>3, <3>1, FiringKeeps
    <3>2. CASE \/ Restart(c) \/ DropQuietly(c) \/ KeepAliveFails(c) \/ ForceRetry(c) \/ Replaced(c) \/ Retry(c)
               \/ Reconnect(c) \/ ReconnectFails(c)
      BY <2>3, <3>2, LinkKeeps
    <3> QED
      BY <2>10, <3>1, <3>2 DEF Server
  <2>11. ASSUME NEW c \in Clients, Emitting(c) PROVE \E y \in Agents : After(y)
    BY <2>3, <2>11, EmittingKeeps
  <2>12. ASSUME NEW w \in Writers, Working(w) PROVE \E y \in Agents : After(y)
    <3>1. CASE WriteColumn(w)
      BY <2>3, <3>1, WriteKeeps
    <3>2. CASE w[2] = "reader" /\ Take(w[1])
      BY <2>3, <3>2, TakeKeeps, WriterParts DEF Kinds
    <3>3. CASE w[2] \in Kinds /\ EndFlow(w[1], w[2])
      BY <2>3, <3>3, EndFlowKeeps, WriterParts DEF Kinds
    <3> QED
      BY <2>12, <3>1, <3>2, <3>3 DEF Working
  <2> QED
    BY <1>2, <2>5, <2>6, <2>7, <2>8, <2>9, <2>10, <2>11, <2>12 DEF Next, Step, Connecting
<1> QED
  BY <1>1, <1>2

IInv == TypeOK /\ OffInv /\ FlowInv /\ TodoOK /\ ReadOK /\ RowInv

LEMMA RowInvariant == Spec => []IInv
<1>1. Init => IInv
  BY TypeInit, OffInit, FlowInit, RowInit, ReadInit DEF IInv
<1>2. IInv /\ [Next]_vars => IInv'
  <2> SUFFICES ASSUME TypeOK, OffInv, FlowInv, TodoOK, ReadOK, RowInv, [Next]_vars PROVE IInv'
    BY DEF IInv
  <2>1. TypeOK' /\ OffInv' /\ TodoOK' /\ ReadOK'
    BY TypeStep, OffStep, TodoStep, ReadStep
  <2>2. FlowInv'
    <3>1. ASSUME NEW c \in Clients PROVE FlowOf(flow'[c])
      <4>1. flow[c] \in FlowRecords /\ FlowOf(flow[c])
        BY DEF TypeOK, FlowRecords, FlowInv
      <4>2. Moved(flow[c], flow'[c])
        BY MovedStep DEF AllMoved
      <4> QED
        BY <4>1, <4>2, FlowOfMoved
    <3> QED
      BY <3>1 DEF FlowInv, FlowOf
  <2>3. RowInv'
    BY RowStep
  <2> QED
    BY <2>1, <2>2, <2>3 DEF IInv
<1> QED
  BY <1>1, <1>2, PTL DEF Spec

\* Whatever order the phone, the timers, the server, the requests and a crash come in:
\* once all is quiet, and nothing excuses it, whatsapp_session says connected while the
\* client that connect made last is logged in, and otherwise only over a client whose
\* Connect failed or that was lost without an event; with connected it shows no QR code
\* but one of a pairing cut short, and pending_qr is left by nothing else
\* (upsertSession, of handleEvent and of connect's reader, in client.go).
THEOREM RowAlwaysTruthful == Spec => []RowTruthful
<1>1. IInv => RowTruthful
  BY RowTruthfulFollows DEF IInv
<1> QED
  BY <1>1, RowInvariant, PTL

\* What safety says of LoginShown: while a client is logged in, and nothing excuses it,
\* the row says connected or has it coming, from the one goroutine that is busy with it.
\* Nothing that is under way then takes the status away again.
LoginOnItsWay ==
  \A c \in Clients : cli[c].link = "up" /\ ~excused =>
    /\ c = wac
    /\ Busy = {} => row.status = "connected"
    /\ \A x \in Busy : Busy = {x} /\ StatusDue(x) = "connected"

LEMMA LoginDue == TypeOK /\ RowInv => LoginOnItsWay
<1> SUFFICES ASSUME TypeOK, RowInv, NEW c \in Clients, cli[c].link = "up", ~excused
             PROVE  /\ c = wac
                    /\ Busy = {} => row.status = "connected"
                    /\ \A x \in Busy : Busy = {x} /\ StatusDue(x) = "connected"
  BY DEF LoginOnItsWay
<1>1. PICK x \in Agents : Sole(x) /\ Wired(x) /\ Good(x)
  BY DEF RowInv
<1>2. c = wac
  BY <1>1 DEF Sole, AtWork
<1>3. c # 0
  BY SessionAssumption DEF Clients
<1>4. StatusDue(x) = "connected"
  BY <1>1, <1>2, <1>3 DEF Good, Cur
<1>5. Busy = {} => row.status = "connected"
  BY <1>4, IdleView
<1>6. \A y \in Busy : y = x /\ Busy = {y}
  BY <1>1 DEF Sole
<1> QED
  BY <1>2, <1>4, <1>5, <1>6

\* However a login came about, by a scan, a 515, a reconnect or AutoReconnect, the row
\* does not miss it: handleEvent's upsert of Connected or the channel's success item is
\* due, and no other item or handler is behind it (client.go).
THEOREM LoginsOnTheirWay == Spec => []LoginOnItsWay
<1>1. IInv => LoginOnItsWay
  BY LoginDue DEF IInv
<1> QED
  BY <1>1, RowInvariant, PTL

\* What safety says of QRRenewed, which a run refutes: a code on offer has a channel
\* that still sends, or a reader with items in hand, unless a pairing was cut short or
\* something excuses it. So the end of connect's request, or a crash, is the one way for
\* a code to outlast its channel.
CodeIsRenewable ==
  row.status = "pending_qr" /\ ~excused =>
    \/ cutShort
    \/ wac # 0 /\ (flow[wac].step = "live" \/ Unread(wac) \/ ~Idle(<<wac, "reader">>))

LEMMA CodeRenewable == TypeOK /\ RowInv => CodeIsRenewable
<1> SUFFICES ASSUME TypeOK, RowInv, row.status = "pending_qr", ~excused, ~cutShort
             PROVE  wac # 0 /\ (flow[wac].step = "live" \/ Unread(wac) \/ ~Idle(<<wac, "reader">>))
  BY DEF CodeIsRenewable
<1>1. PICK x \in Agents : Sole(x) /\ Wired(x) /\ Good(x)
  BY DEF RowInv
<1>2. CurStep = "live" \/ Reading(x)
  BY <1>1 DEF Good
<1>3. CASE CurStep = "live"
  BY <1>3 DEF CurStep
<1>4. CASE Reading(x)
  <2>1. x[2] \in {"reader", "unread"} /\ x \in Busy /\ x[1] \in {0, wac}
    BY <1>1, <1>4 DEF Reading, Sole
  <2>2. \E c \in Clients : x = <<c, x[2]>>
    BY <1>1, <2>1 DEF Agents, Writers
  <2>3. PICK c \in Clients : x = <<c, x[2]>>
    BY <2>2
  <2>4. c # 0 /\ c = wac
    BY <2>1, <2>3, SessionAssumption DEF Clients
  <2>5. <<c, "reader">> \in Writers
    BY DEF Writers
  <2> QED
    BY <2>1, <2>3, <2>4, <2>5, BusyIs
<1> QED
  BY <1>2, <1>3, <1>4

\* Only the end of connect's request, or of the process, leaves a QR code on offer with
\* nobody to replace it: every channel that ends by itself ends with an item, and the
\* reader's upsert of that item takes pending_qr away (connect, in client.go).
THEOREM CodesStayRenewable == Spec => []CodeIsRenewable
<1>1. IInv => CodeIsRenewable
  BY CodeRenewable DEF IInv
<1> QED
  BY <1>1, RowInvariant, PTL
=============================================================================
