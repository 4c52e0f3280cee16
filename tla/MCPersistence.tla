---------------------------- MODULE MCPersistence ----------------------------
(***************************************************************************)
(* Instances of Persistence for TLC.                                       *)
(***************************************************************************)
EXTENDS Persistence

CONSTANTS m1, m2, m3, m4
=============================================================================
