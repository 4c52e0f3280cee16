------------------------------ MODULE MCLoadTest ------------------------------
(***************************************************************************)
(* Workers of one room for TLC.                                            *)
(***************************************************************************)
EXTENDS LoadTest

CONSTANTS w1, w2, w3, r1

MCOneRoom == [w \in Workers |-> r1]
=============================================================================
