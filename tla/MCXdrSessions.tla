---------------------------- MODULE MCXdrSessions -----------------------------
(***************************************************************************)
(* Instances of XdrSessions for TLC: the configurations name the clients.  *)
(***************************************************************************)
EXTENDS XdrSessions

===============================================================================
