------------------------------ MODULE FifoLock ------------------------------
(***************************************************************************)
(* What a mutex with keys promises: of the jobs of one key one runs at a   *)
(* time, in the order they came.                                           *)
(***************************************************************************)
CONSTANTS Jobs, KeyOf

VARIABLES
  state,   \* of each job: idle, waiting, running, done
  ahead    \* the jobs of its key it found there when it came

lock == <<state, ahead>>

Rivals(j) == {l \in Jobs \ {j} : KeyOf[l] = KeyOf[j] /\ state[l] # "idle"}

Init == state = [j \in Jobs |-> "idle"] /\ ahead = [j \in Jobs |-> {}]

Come(j) ==
  /\ state[j] = "idle"
  /\ state' = [state EXCEPT ![j] = "waiting"]
  /\ ahead' = [ahead EXCEPT ![j] = Rivals(j)]

Enter(j) ==
  /\ state[j] = "waiting"
  /\ \A l \in ahead[j] : state[l] = "done"
  /\ \A l \in Rivals(j) : state[l] # "running"
  /\ state' = [state EXCEPT ![j] = "running"]
  /\ UNCHANGED ahead

Leave(j) ==
  /\ state[j] = "running"
  /\ state' = [state EXCEPT ![j] = "done"]
  /\ UNCHANGED ahead

Next == \E j \in Jobs : Come(j) \/ Enter(j) \/ Leave(j)
Spec == Init /\ [][Next]_lock
=============================================================================
