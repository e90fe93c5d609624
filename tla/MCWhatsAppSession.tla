------------------------- MODULE MCWhatsAppSession -------------------------
(* A bound for WhatsAppSession.                                             *)
EXTENDS WhatsAppSession

\* What excuses RowTruthful and LoginShown is followed up with one code at most, for
\* one trouble, or none once the last client runs, and while that has no QR flow;
\* until then a behaviour has all the codes, flows and troubles. To be excused is to
\* have reached what LoginShown leads to, and no step takes it back.
Followed ==
  excused => /\ troubles <= IF cli[MaxClients].step = "running" THEN 0 ELSE 1
             /\ \A c \in Clients : Cardinality(CodesSent(c)) <= 1
             /\ flow[MaxClients].step = "off"
=============================================================================
