----------------------------- MODULE MCGmailSync -----------------------------
(* Small values for GmailSync: two mails of one account, and one of another. *)
EXTENDS GmailSync

CONSTANTS e1, e2, e3, a1, a2

MCOf == [e \in Emails |-> IF e = e3 THEN a2 ELSE a1]
MCSkew == [e \in Emails |-> CASE e = e1 -> 0 [] e = e2 -> 1 [] OTHER -> NULL]
=============================================================================
