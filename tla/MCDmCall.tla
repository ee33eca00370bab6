------------------------------ MODULE MCDmCall ------------------------------
(* Instances of DmCall for TLC. *)
EXTENDS DmCall

CONSTANTS a, b, e,            \* users
          a1, a2, b1, b2, e1  \* connections, each named after its user

Holder == [k \in Conns |->
  CASE k \in {a1, a2} -> a [] k \in {b1, b2} -> b [] k = e1 -> e]
\* One calls the other; each calls the other; each calls the other and a
\* third one calls one of them.
OneWay == {<<a, b>>}
BothWays == {<<a, b>>, <<b, a>>}
Crossing == {<<a, b>>, <<b, a>>, <<e, b>>}
=============================================================================
