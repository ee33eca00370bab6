---------------------------- MODULE MCKeyedMutex ----------------------------
(* Four jobs, three of them of one key. *)
EXTENDS KeyedMutex

CONSTANTS j1, j2, j3, j4, video, call

Keyed == [j \in Jobs |-> IF j = j4 THEN call ELSE video]
=============================================================================
