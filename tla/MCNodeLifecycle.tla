--------------------------- MODULE MCNodeLifecycle ---------------------------
(***************************************************************************)
(* Instances of NodeLifecycle for TLC: the connections of r1 compete for   *)
(* one room, the last one serves a room of its own.                        *)
(***************************************************************************)
EXTENDS NodeLifecycle

CONSTANTS c1, c2, c3, r1, r2

MCRoomOf == [c \in Conns |-> IF c = c3 THEN r2 ELSE r1]

MCOneRoom == [c \in Conns |-> r1]
=============================================================================
