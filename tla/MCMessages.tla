---------------------------- MODULE MCMessages -----------------------------
(***************************************************************************)
(* Small instances of Messages for the model checker.                      *)
(***************************************************************************)
EXTENDS Messages

CONSTANTS a, b, a1, b1, m1, m2

OwnerOf == [t \in Tabs |-> IF t = b1 THEN b ELSE a]

AuthorOf == [m \in Msgs |-> IF m = m2 THEN b1 ELSE a1]
=============================================================================
