---------------------------- MODULE MCPushQueue ----------------------------
(***************************************************************************)
(* Small instances of PushQueue for the model checker.                     *)
(***************************************************************************)
EXTENDS PushQueue

CONSTANTS d1, d2, k1, none
=============================================================================
