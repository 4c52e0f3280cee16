------------------------- MODULE MCRoomSubscriptions -------------------------
(***************************************************************************)
(* Instances of RoomSubscriptions for TLC.  Four callers share one room,   *)
(* so that two generations of the room's subscription can overlap, and a   *)
(* fifth serves another room, so that Close has two entries to visit.      *)
(***************************************************************************)
EXTENDS RoomSubscriptions

CONSTANTS c1, c2, c3, c4, c5, r1, r2

MCRoomOf == [c \in Conns |-> IF c = c5 THEN r2 ELSE r1]
=============================================================================
