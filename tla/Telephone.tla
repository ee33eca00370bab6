----------------------------- MODULE Telephone -----------------------------
(***************************************************************************)
(* What the registry of direct calls promises, without tabs, timers or     *)
(* reservations: a call rings between two users who have no other call,    *)
(* may turn into a conversation, and is over in the end.                   *)
(***************************************************************************)
CONSTANTS Users, Calls

VARIABLES
  stage,    \* of each call: none, ringing, talking, over
  sides,    \* its two users
  outcome   \* how it ended

lines == <<stage, sides, outcome>>

OnTheLine(c) == stage[c] \in {"ringing", "talking"}
Engaged(u) == \E c \in Calls : OnTheLine(c) /\ u \in sides[c]

Init ==
  /\ stage = [c \in Calls |-> "none"]
  /\ sides = [c \in Calls |-> {}]
  /\ outcome = [c \in Calls |-> "none"]

Ring(c, u, v) ==
  /\ stage[c] = "none" /\ u # v
  /\ ~Engaged(u) /\ ~Engaged(v)
  /\ stage' = [stage EXCEPT ![c] = "ringing"]
  /\ sides' = [sides EXCEPT ![c] = {u, v}]
  /\ UNCHANGED outcome

PickUp(c) ==
  /\ stage[c] = "ringing"
  /\ stage' = [stage EXCEPT ![c] = "talking"]
  /\ UNCHANGED <<sides, outcome>>

\* A call nobody picked up was declined, cancelled or missed.  A conversation
\* is completed or fails; the callee believed absent may make it missed.
Over(c, how) ==
  /\ \/ stage[c] = "ringing" /\ how \in {"declined", "cancelled", "missed"}
     \/ stage[c] = "talking" /\ how \in {"completed", "failed", "missed"}
  /\ stage' = [stage EXCEPT ![c] = "over"]
  /\ outcome' = [outcome EXCEPT ![c] = how]
  /\ UNCHANGED sides

\* The exchange restarts and forgets every call.
Lose ==
  /\ stage' = [c \in Calls |-> IF OnTheLine(c) THEN "over" ELSE stage[c]]
  /\ outcome' = [c \in Calls |-> IF OnTheLine(c) THEN "lost" ELSE outcome[c]]
  /\ UNCHANGED sides

Outcomes == {"declined", "cancelled", "missed", "completed", "failed"}
Next ==
  \/ \E c \in Calls :
       \/ \E u, v \in Users : Ring(c, u, v)
       \/ PickUp(c)
       \/ \E how \in Outcomes : Over(c, how)
  \/ Lose

Spec == Init /\ [][Next]_lines

\* No call goes on for ever.
FairSpec == Spec /\ \A c \in Calls : WF_lines(\E how \in Outcomes : Over(c, how))
=============================================================================
