------------------------------ MODULE MCDelivery ------------------------------
(***************************************************************************)
(* Clients of one room for TLC: an early holder whose Release can overlap  *)
(* with the Acquire of a late one.                                         *)
(***************************************************************************)
EXTENDS Delivery, TLC

CONSTANTS c1, c2, r1

MCOneRoom == [c \in Conns |-> r1]
=============================================================================
