------------------------------ MODULE MCHistory ------------------------------
(***************************************************************************)
(* Instance of History for TLC: the last message is of another room.       *)
(***************************************************************************)
EXTENDS History

CONSTANTS m1, m2, m3, m4, m5

MCLimits == {-1, 1, 2, 3, 4}
=============================================================================
