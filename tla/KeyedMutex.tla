----------------------------- MODULE KeyedMutex -----------------------------
(***************************************************************************)
(* utils/async-mutex.ts: the queue of promises per key that serializes the *)
(* handlers of a room.  run() awaits the promise left by the job before it *)
(* and leaves one that resolves after its own.                             *)
(*                                                                         *)
(* The promise a job leaves in `tails` is previous.then(() => ticket): it  *)
(* settles, in a microtask of its own, after the one before it has settled *)
(* and the job's ticket is released.                                       *)
(***************************************************************************)
CONSTANTS
  Jobs,    \* calls of run(); each runs once
  Keys,
  KeyOf,   \* [Jobs -> Keys]
  NoJob

ASSUME MutexAssumption == KeyOf \in [Jobs -> Keys] /\ NoJob \notin Jobs

VARIABLES
  state,     \* of each job: idle, waiting (await previous), running (fn), done
  previous,  \* the job whose promise it awaits, NoJob: a resolved one
  tails,     \* the job that left the promise in the map, NoJob: no entry
  released,  \* jobs whose ticket is resolved
  settled,   \* jobs whose promise in `tails` is resolved
  earlier    \* history: the jobs of its key that came before it

vars == <<state, previous, tails, released, settled, earlier>>

Resolved(p) == p = NoJob \/ p \in settled

Init ==
  /\ state = [j \in Jobs |-> "idle"]
  /\ previous = [j \in Jobs |-> NoJob]
  /\ tails = [k \in Keys |-> NoJob]
  /\ released = {} /\ settled = {}
  /\ earlier = [j \in Jobs |-> {}]

\* run(), up to its await.
Run(j) ==
  LET k == KeyOf[j] IN
  /\ state[j] = "idle"
  /\ state' = [state EXCEPT ![j] = "waiting"]
  /\ previous' = [previous EXCEPT ![j] = tails[k]]
  /\ tails' = [tails EXCEPT ![k] = j]
  /\ earlier' = [earlier EXCEPT ![j] = {l \in Jobs : KeyOf[l] = k /\ state[l] # "idle"}]
  /\ UNCHANGED <<released, settled>>

\* Mutant: the job does not await.
BeginAtOnce(j) ==
  /\ state[j] = "waiting"
  /\ state' = [state EXCEPT ![j] = "running"]
  /\ UNCHANGED <<previous, tails, released, settled, earlier>>

\* `await previous` returns and fn starts.
Begin(j) ==
  /\ state[j] = "waiting" /\ Resolved(previous[j])
  /\ state' = [state EXCEPT ![j] = "running"]
  /\ UNCHANGED <<previous, tails, released, settled, earlier>>

\* Mutant: the entry is cleared whoever has chained on top.
FinishClearing(j) ==
  /\ state[j] = "running"
  /\ state' = [state EXCEPT ![j] = "done"]
  /\ released' = released \cup {j}
  /\ tails' = [tails EXCEPT ![KeyOf[j]] = NoJob]
  /\ UNCHANGED <<previous, settled, earlier>>

\* Mutant: a job that fails keeps its ticket.
FinishHolding(j) ==
  /\ state[j] = "running"
  /\ state' = [state EXCEPT ![j] = "done"]
  /\ released' \in {released, released \cup {j}}
  /\ UNCHANGED <<previous, tails, settled, earlier>>

\* fn returned or threw: `finally` releases the ticket.  The entry of the map
\* is compared with the ticket, but what the map holds is the promise derived
\* from it: the comparison fails and the entry stays.
Finish(j) ==
  /\ state[j] = "running"
  /\ state' = [state EXCEPT ![j] = "done"]
  /\ released' = released \cup {j}
  /\ UNCHANGED <<previous, tails, settled, earlier>>

\* The promise in the map resolves.
Settle(j) ==
  /\ j \in released \ settled /\ Resolved(previous[j])
  /\ settled' = settled \cup {j}
  /\ UNCHANGED <<state, previous, tails, released, earlier>>

Next == \E j \in Jobs : Run(j) \/ Begin(j) \/ Finish(j) \/ Settle(j)
Spec == Init /\ [][Next]_vars

\* Microtasks run, and the jobs return.
FairSpec == Spec /\ \A j \in Jobs : WF_vars(Begin(j)) /\ WF_vars(Finish(j)) /\ WF_vars(Settle(j))

----------------------------------------------------------------------------
\* Every variable has its type.
TypeOK ==
  /\ state \in [Jobs -> {"idle", "waiting", "running", "done"}]
  /\ previous \in [Jobs -> Jobs \cup {NoJob}]
  /\ tails \in [Keys -> Jobs \cup {NoJob}]
  /\ released \subseteq Jobs
  /\ settled \subseteq Jobs
  /\ earlier \in [Jobs -> SUBSET Jobs]

\* Of the jobs of one key at most one is between its first and last step, and
\* none starts before one that came earlier is done.
OneAtATime == \A j, l \in Jobs :
  (j # l /\ KeyOf[j] = KeyOf[l] /\ state[j] = "running" /\ state[l] # "idle")
    => IF l \in earlier[j] THEN state[l] = "done" ELSE state[l] = "waiting"

\* The mutex is a queue with a lock, for any number of keys and jobs.
Lock == INSTANCE FifoLock WITH ahead <- earlier
ImplementsLock == Lock!Spec

\* A job that came gets its turn, whether those before it returned or threw.
EveryoneServed == \A j \in Jobs : state[j] = "waiting" ~> state[j] = "done"
=============================================================================
