----------------------------- MODULE WriteBehind -----------------------------
(***************************************************************************)
(* What the write-behind pipeline of MessageService promises to its user:  *)
(* accepted messages are settled, that is handed to the repository, in the *)
(* order of acceptance, each once, in batches of bounded size; after the   *)
(* pipeline is shut nothing more is accepted; it is closed only when       *)
(* everything accepted is settled.                                         *)
(***************************************************************************)
EXTENDS Integers, Sequences, SequencesExt

CONSTANTS Msgs, BatchSize

VARIABLES
  accepted,  \* messages in the order of acceptance
  settled,   \* how many of them are settled
  mode       \* "open", "shut" or "closed"

abstractVars == <<accepted, settled, mode>>

AbstractInit == accepted = <<>> /\ settled = 0 /\ mode = "open"

Accept(m) ==
  /\ mode = "open"
  /\ m \notin ToSet(accepted)
  /\ accepted' = Append(accepted, m)
  /\ UNCHANGED <<settled, mode>>

Settle ==
  /\ \E n \in 1..BatchSize : settled' = settled + n
  /\ settled' <= Len(accepted)
  /\ UNCHANGED <<accepted, mode>>

Shut ==
  /\ mode = "open"
  /\ mode' = "shut"
  /\ UNCHANGED <<accepted, settled>>

Finish ==
  /\ mode = "shut"
  /\ settled = Len(accepted)
  /\ mode' = "closed"
  /\ UNCHANGED <<accepted, settled>>

AbstractNext == (\E m \in Msgs : Accept(m)) \/ Settle \/ Shut \/ Finish

AbstractSpec == AbstractInit /\ [][AbstractNext]_abstractVars

(* Everything accepted is settled at some time, and a pipeline that is     *)
(* shut closes.                                                            *)
AbstractFairSpec == AbstractSpec /\ WF_abstractVars(Settle)
                                 /\ WF_abstractVars(Finish)
=============================================================================
