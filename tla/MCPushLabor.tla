----------------------------- MODULE MCPushLabor -----------------------------
(***************************************************************************)
(* A small instance of PushLabor for TLC.                                  *)
(***************************************************************************)
EXTENDS PushLabor
=============================================================================
