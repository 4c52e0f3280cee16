------------------------------ MODULE MCLimiter ------------------------------
(***************************************************************************)
(* Two users behind two addresses, where the second user also appears      *)
(* behind the first user's address: rules are exceeded in every order.     *)
(* Windows of different lengths let the keys of one call expire apart.     *)
(***************************************************************************)
EXTENDS Limiter

CONSTANTS k1, k2, k3, k4, u1, u2, i1, i2

MCUserOf == [c \in Calls |-> IF c \in {k1, k2} THEN u1 ELSE u2]

MCIPOf == [c \in Calls |-> IF c = k4 THEN i2 ELSE i1]

MCFallback ==
  [limit  |-> [s \in Scopes |-> IF s = "user" THEN 1 ELSE 2],
   window |-> [s \in Scopes |-> IF s = "user" THEN 1 ELSE 2]]

(* LIMIT_USER_COUNT and LIMIT_ROOM_WINDOW set to a number that Allow       *)
(* refuses, or not set; the others are not set.                            *)
MCSettings ==
  {[limit  |-> [s \in Scopes |-> IF s = "user" THEN u ELSE {}],
    window |-> [s \in Scopes |-> IF s = "room" THEN w ELSE {}]] :
     u \in {{}, {0}}, w \in {{}, {-1}}}
=============================================================================
