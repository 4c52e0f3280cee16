------------------------------ MODULE MCSendPath ------------------------------
(***************************************************************************)
(* Senders of one room on one node for TLC.                                *)
(***************************************************************************)
EXTENDS SendPath, TLC

CONSTANTS c1, c2

ConnSymmetry == Permutations(Conns)
=============================================================================
