-------------------------------- MODULE Outbox --------------------------------
(***************************************************************************)
(* What a connection promises about its outgoing messages: what its queue  *)
(* accepted is written in that order, each message once, at most Cap of    *)
(* them behind the one being written; nothing is written after the end.    *)
(***************************************************************************)
EXTENDS Naturals, Sequences

CONSTANTS Messages, Cap

VARIABLES
  accepted,  \* messages in the order of acceptance
  written,   \* how many of them are written
  open       \* the connection can be written to

outboxVars == <<accepted, written, open>>

OutboxInit == accepted = <<>> /\ written = 0 /\ open = TRUE

Accept(m) ==
  /\ Len(accepted) - written <= Cap
  /\ accepted' = Append(accepted, m)
  /\ UNCHANGED <<written, open>>

Write ==
  /\ open
  /\ written < Len(accepted)
  /\ written' = written + 1
  /\ UNCHANGED <<accepted, open>>

End == open /\ open' = FALSE /\ UNCHANGED <<accepted, written>>

OutboxNext == (\E m \in Messages : Accept(m)) \/ Write \/ End

OutboxSafety == OutboxInit /\ [][OutboxNext]_outboxVars

(* What is accepted is written, unless the connection ends.                *)
OutboxSpec == OutboxSafety /\ WF_outboxVars(Write)
=============================================================================
