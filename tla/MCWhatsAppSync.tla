--------------------------- MODULE MCWhatsAppSync ---------------------------
(* Small values for WhatsAppSync: two messages of a contact, and one     *)
(* without text.                                                            *)
EXTENDS WhatsAppSync

CONSTANTS m1, m2, m3, j1, c1, i1, i2

MCSender == [m \in Msgs |-> j1]

\* Two tasks may be found in a message: one in a category, one in none.
MCNamed == [i \in Items |-> IF i = i1 THEN c1 ELSE NULL]

\* The two messages with text differ by name only, and a batch holds one: the first that
\* Claude is asked about is called m1, every other behaviour is one of these renamed. A
\* removed contact is not followed while a sync is under way: that it keeps events from
\* being received is all it does, and a sync does not ask for contacts. Claude finds two
\* tasks in m1, and one in m2.
Followed ==
  /\ m2 \in asked => m1 \in asked
  /\ Active # {} => contacts = known
  /\ \A s \in Active : \A t \in sync[s].told : t.ref = m2 => t.item = i1

\* A sync after the other.
OneAtATime == Cardinality(Active) <= 1
=============================================================================
