----------------------------- MODULE MCCallPeers -----------------------------
(* Instances of CallPeers for TLC. *)
EXTENDS CallPeers

CONSTANTS a, b   \* users

Ids == a :> 1 @@ b :> 2   \* a is the polite one
=============================================================================
