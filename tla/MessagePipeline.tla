-------------------------- MODULE MessagePipeline --------------------------
(***************************************************************************)
(* What the WhatsApp buffer promises, whatever syncs, redeliveries and      *)
(* crashes overlap (docs/design-whatsapp-integration.md, "Message           *)
(* Buffering" and "Sync Flow"): a message is buffered once, is shown to     *)
(* Claude before it is marked as processed, never goes back, and gets tasks *)
(* only once Claude has seen it.                                            *)
(***************************************************************************)
CONSTANTS
  Msgs,
  Tasks    \* tasks that may be made

VARIABLES
  stage,   \* how far each message has come
  made     \* the tasks that were made from it

Stages == {"unseen", "buffered", "asked", "processed"}

TypeOK == stage \in [Msgs -> Stages] /\ made \in [Msgs -> SUBSET Tasks]

Init ==
  /\ stage = [m \in Msgs |-> "unseen"]
  /\ made = [m \in Msgs |-> {}]

Buffer(m) ==
  /\ stage[m] = "unseen"
  /\ stage' = [stage EXCEPT ![m] = "buffered"]
  /\ UNCHANGED made

\* Claude sees a batch; some of it may have been seen, or processed, before.
Ask(batch) ==
  /\ \A m \in batch : stage[m] # "unseen"
  /\ stage' = [m \in Msgs |-> IF m \in batch /\ stage[m] = "buffered"
                                THEN "asked" ELSE stage[m]]
  /\ UNCHANGED made

MakeTask(m) ==
  /\ stage[m] \in {"asked", "processed"}
  /\ \E t \in Tasks : made' = [made EXCEPT ![m] = @ \cup {t}]
  /\ UNCHANGED stage

Process(m) ==
  /\ stage[m] = "asked"
  /\ stage' = [stage EXCEPT ![m] = "processed"]
  /\ UNCHANGED made

Next ==
  \/ \E m \in Msgs : Buffer(m) \/ MakeTask(m) \/ Process(m)
  \/ \E batch \in SUBSET Msgs : Ask(batch)

Spec == Init /\ [][Next]_<<stage, made>>
=============================================================================
