----------------------------- MODULE MCClientConn -----------------------------
(***************************************************************************)
(* One connection for TLC; its numbers are in the configuration.           *)
(***************************************************************************)
EXTENDS ClientConn
=============================================================================
