-------------------------- MODULE KeyedMutexProofs --------------------------
(***************************************************************************)
(* The queue of promises serializes the jobs of a key, for any number of   *)
(* jobs and keys.                                                          *)
(***************************************************************************)
EXTENDS KeyedMutex, TLAPS

Came(j) == state[j] # "idle"

\* Of two jobs of a key that came, one came before the other; a job awaits the
\* promise of the last one before it; a resolved promise speaks for all before.
Ordered == \A j, l \in Jobs :
  /\ l \in earlier[j] => l # j /\ KeyOf[l] = KeyOf[j] /\ Came(j) /\ Came(l)
  /\ (j # l /\ KeyOf[j] = KeyOf[l] /\ Came(j) /\ Came(l)) => (l \in earlier[j] \/ j \in earlier[l])
Chained == \A j \in Jobs : Came(j) =>
  earlier[j] = IF previous[j] = NoJob THEN {} ELSE earlier[previous[j]] \cup {previous[j]}
TailIsLast == \A k \in Keys :
  {j \in Jobs : KeyOf[j] = k /\ Came(j)} = IF tails[k] = NoJob THEN {} ELSE earlier[tails[k]] \cup {tails[k]}
Speaks == \A j \in Jobs :
  /\ j \in released => state[j] = "done"
  /\ j \in settled => state[j] = "done"
  /\ state[j] \in {"running", "done"} => \A l \in earlier[j] : state[l] = "done"

IInv == TypeOK /\ Ordered /\ Chained /\ TailIsLast /\ Speaks

LEMMA InitInv == ASSUME Init PROVE IInv
BY MutexAssumption DEF Init, IInv, TypeOK, Ordered, Chained, TailIsLast, Speaks, Came

LEMMA RunStep == ASSUME IInv, NEW j \in Jobs, Run(j) PROVE IInv'
<1> USE MutexAssumption DEF IInv
<1> DEFINE k == KeyOf[j]
           found == {l \in Jobs : KeyOf[l] = k /\ Came(l)}
<1>1. /\ ~Came(j) /\ k \in Keys /\ j # NoJob
      /\ state' = [state EXCEPT ![j] = "waiting"]
      /\ previous' = [previous EXCEPT ![j] = tails[k]]
      /\ tails' = [tails EXCEPT ![k] = j]
      /\ earlier' = [earlier EXCEPT ![j] = found]
      /\ UNCHANGED <<released, settled>>
  BY DEF Run, Came
<1>2. TypeOK'
  BY <1>1 DEF TypeOK
<1>3. /\ state'[j] = "waiting" /\ Came(j)' /\ earlier'[j] = found /\ previous'[j] = tails[k]
      /\ \A l \in Jobs : l # j => /\ state'[l] = state[l] /\ Came(l)' = Came(l)
                                  /\ earlier'[l] = earlier[l] /\ previous'[l] = previous[l]
  BY <1>1 DEF TypeOK, Came
<1>4. j \notin found /\ \A l \in Jobs : j \notin earlier[l]
  BY <1>1 DEF Ordered
<1>5. Ordered'
  BY <1>1, <1>3, <1>4 DEF Ordered
<1>6. found = IF tails[k] = NoJob THEN {} ELSE earlier[tails[k]] \cup {tails[k]}
  BY <1>1 DEF TailIsLast
<1>7. Chained'
  <2> SUFFICES ASSUME NEW l \in Jobs, Came(l)'
      PROVE (earlier[l] = IF previous[l] = NoJob THEN {} ELSE earlier[previous[l]] \cup {previous[l]})'
    BY DEF Chained
  <2>1. CASE l = j
    <3>1. tails[k] # NoJob => tails[k] \in Jobs /\ tails[k] # j
      BY <1>1, <1>4, <1>6 DEF TypeOK
    <3> QED BY <1>3, <1>6, <2>1, <3>1
  <2>2. CASE l # j
    <3>1. earlier[l] = IF previous[l] = NoJob THEN {} ELSE earlier[previous[l]] \cup {previous[l]}
      BY <1>3, <2>2 DEF Chained
    <3>2. previous[l] # NoJob => previous[l] \in Jobs /\ previous[l] # j
      BY <1>4, <3>1 DEF TypeOK
    <3> QED BY <1>3, <2>2, <3>1, <3>2
  <2> QED BY <2>1, <2>2
<1>8. TailIsLast'
  <2> SUFFICES ASSUME NEW q \in Keys
      PROVE ({l \in Jobs : KeyOf[l] = q /\ Came(l)}
               = IF tails[q] = NoJob THEN {} ELSE earlier[tails[q]] \cup {tails[q]})'
    BY DEF TailIsLast
  <2>1. CASE q = k
    <3>1. {l \in Jobs : KeyOf[l] = q /\ Came(l)'} = found \cup {j}
      BY <1>1, <1>3, <2>1
    <3> QED BY <1>1, <1>3, <2>1, <3>1 DEF TypeOK
  <2>2. CASE q # k
    <3>1. {l \in Jobs : KeyOf[l] = q /\ Came(l)'} = {l \in Jobs : KeyOf[l] = q /\ Came(l)}
      BY <1>3, <2>2
    <3>2. tails'[q] = tails[q]
      BY <1>1, <2>2 DEF TypeOK
    <3>3. {l \in Jobs : KeyOf[l] = q /\ Came(l)}
            = IF tails[q] = NoJob THEN {} ELSE earlier[tails[q]] \cup {tails[q]}
      BY DEF TailIsLast
    <3>4. tails[q] # NoJob => tails[q] \in Jobs /\ tails[q] # j
      BY <1>1, <3>3 DEF TypeOK
    <3> QED BY <1>3, <3>1, <3>2, <3>3, <3>4
  <2> QED BY <2>1, <2>2
<1>9. Speaks'
  <2> SUFFICES ASSUME NEW l \in Jobs
      PROVE (/\ l \in released => state[l] = "done"
             /\ l \in settled => state[l] = "done"
             /\ state[l] \in {"running", "done"} => \A m \in earlier[l] : state[m] = "done")'
    BY DEF Speaks
  <2>1. CASE l = j
    BY <1>1, <1>3, <2>1 DEF Speaks, Came
  <2>2. CASE l # j
    <3>1. \A m \in earlier[l] : m \in Jobs /\ m # j
      BY <1>4 DEF TypeOK
    <3> QED BY <1>1, <1>3, <2>2, <3>1 DEF Speaks
  <2> QED BY <2>1, <2>2
<1> QED BY <1>2, <1>5, <1>7, <1>8, <1>9

\* The other steps change no queue.
LEMMA QueuesStay ==
  ASSUME IInv, UNCHANGED <<previous, tails, earlier>>, \A j \in Jobs : Came(j)' = Came(j)
  PROVE  Ordered' /\ Chained' /\ TailIsLast'
<1>1. Ordered'
  BY DEF IInv, Ordered
<1>2. Chained'
  BY DEF IInv, Chained
<1>3. TailIsLast'
  <2>1. \A k : {j \in Jobs : KeyOf[j] = k /\ Came(j)'} = {j \in Jobs : KeyOf[j] = k /\ Came(j)}
    OBVIOUS
  <2> QED BY <2>1 DEF IInv, TailIsLast
<1> QED BY <1>1, <1>2, <1>3

\* When a job begins, all that came before it are done.
LEMMA AllBeforeDone ==
  ASSUME IInv, NEW j \in Jobs, Came(j), Resolved(previous[j]) PROVE \A l \in earlier[j] : state[l] = "done"
BY MutexAssumption DEF IInv, TypeOK, Chained, Speaks, Resolved

LEMMA StepInv == ASSUME IInv, [Next]_vars PROVE IInv'
<1> USE MutexAssumption
<1>1. ASSUME NEW j \in Jobs, Run(j) PROVE IInv'
  BY <1>1, RunStep
<1>2. ASSUME NEW j \in Jobs, Begin(j) PROVE IInv'
  <2>1. /\ state[j] = "waiting" /\ state' = [state EXCEPT ![j] = "running"] /\ Resolved(previous[j])
        /\ UNCHANGED <<previous, tails, released, settled, earlier>>
    BY <1>2 DEF Begin
  <2>2. TypeOK' /\ \A l \in Jobs : Came(l)' = Came(l)
    BY <2>1 DEF IInv, TypeOK, Came
  <2>3. \A l \in earlier[j] : state[l] = "done"
    BY <2>1, AllBeforeDone DEF Came
  <2>4. Speaks'
    BY <2>1, <2>3 DEF IInv, TypeOK, Speaks
  <2> QED BY <2>1, <2>2, <2>4, QueuesStay DEF IInv
<1>3. ASSUME NEW j \in Jobs, Finish(j) PROVE IInv'
  <2>1. /\ state[j] = "running" /\ state' = [state EXCEPT ![j] = "done"] /\ released' = released \cup {j}
        /\ UNCHANGED <<previous, tails, settled, earlier>>
    BY <1>3 DEF Finish
  <2>2. TypeOK' /\ \A l \in Jobs : Came(l)' = Came(l)
    BY <2>1 DEF IInv, TypeOK, Came
  <2>3. Speaks'
    BY <2>1 DEF IInv, TypeOK, Speaks
  <2> QED BY <2>1, <2>2, <2>3, QueuesStay DEF IInv
<1>4. ASSUME NEW j \in Jobs, Settle(j) PROVE IInv'
  <2>1. /\ j \in released /\ settled' = settled \cup {j}
        /\ UNCHANGED <<state, previous, tails, released, earlier>>
    BY <1>4 DEF Settle
  <2>2. TypeOK' /\ \A l \in Jobs : Came(l)' = Came(l)
    BY <2>1 DEF IInv, TypeOK, Came
  <2>3. Speaks'
    BY <2>1 DEF IInv, TypeOK, Speaks
  <2> QED BY <2>1, <2>2, <2>3, QueuesStay DEF IInv
<1>5. CASE UNCHANGED vars
  <2>1. UNCHANGED <<state, previous, tails, released, settled, earlier>>
    BY <1>5 DEF vars
  <2>2. TypeOK' /\ Speaks' /\ \A l \in Jobs : Came(l)' = Came(l)
    BY <2>1 DEF IInv, TypeOK, Speaks, Came
  <2> QED BY <2>1, <2>2, QueuesStay DEF IInv
<1> QED BY <1>1, <1>2, <1>3, <1>4, <1>5 DEF Next

LEMMA Inductive == Spec => []IInv
BY InitInv, StepInv, PTL DEF Spec

\* The jobs of a key run one at a time, in the order they came.
THEOREM Serialized == Spec => []OneAtATime
<1>1. ASSUME IInv PROVE OneAtATime
  <2> SUFFICES ASSUME NEW j \in Jobs, NEW l \in Jobs, j # l, KeyOf[j] = KeyOf[l],
                      state[j] = "running", state[l] # "idle"
      PROVE IF l \in earlier[j] THEN state[l] = "done" ELSE state[l] = "waiting"
    BY DEF OneAtATime
  <2>1. CASE l \in earlier[j]
    BY <1>1, <2>1 DEF IInv, Speaks
  <2>2. CASE l \notin earlier[j]
    <3>1. j \in earlier[l]
      BY <1>1, <2>2 DEF IInv, Ordered, Came
    <3>2. state[l] \notin {"running", "done"}
      BY <1>1, <3>1 DEF IInv, Speaks
    <3> QED BY <1>1, <2>2, <3>2 DEF IInv, TypeOK
  <2> QED BY <2>1, <2>2
<1> QED BY <1>1, Inductive, PTL

\* The queue of promises implements the lock with a queue.
THEOREM MutexIsLock == Spec => ImplementsLock
<1> USE MutexAssumption
<1>1. Init => Lock!Init
  BY DEF Init, Lock!Init
<1>2. ASSUME IInv, [Next]_vars PROVE [Lock!Next]_(Lock!lock)
  <2>1. ASSUME NEW j \in Jobs, Run(j) PROVE Lock!Come(j)
    <3>1. {l \in Jobs : KeyOf[l] = KeyOf[j] /\ state[l] # "idle"} = Lock!Rivals(j)
      BY <2>1 DEF Run, Lock!Rivals
    <3> QED BY <2>1, <3>1 DEF Run, Lock!Come
  <2>2. ASSUME NEW j \in Jobs, Begin(j) PROVE Lock!Enter(j)
    <3>1. state[j] = "waiting" /\ Resolved(previous[j]) /\ state' = [state EXCEPT ![j] = "running"]
          /\ UNCHANGED earlier
      BY <2>2 DEF Begin
    <3>2. \A l \in earlier[j] : state[l] = "done"
      BY <1>2, <3>1, AllBeforeDone DEF Came
    <3>3. ASSUME NEW l \in Lock!Rivals(j), state[l] = "running" PROVE FALSE
      <4>1. l \in Jobs /\ l # j /\ KeyOf[l] = KeyOf[j]
        BY DEF Lock!Rivals
      <4>2. l \notin earlier[j]
        BY <3>2, <3>3
      <4>3. j \in earlier[l]
        BY <1>2, <3>1, <3>3, <4>1, <4>2 DEF IInv, Ordered, Came
      <4>4. state[j] = "done"
        BY <1>2, <3>3, <4>1, <4>3 DEF IInv, Speaks
      <4> QED BY <3>1, <4>4
    <3> QED BY <3>1, <3>2, <3>3 DEF Lock!Enter
  <2>3. ASSUME NEW j \in Jobs, Finish(j) PROVE Lock!Leave(j)
    BY <2>3 DEF Finish, Lock!Leave
  <2>4. ASSUME NEW j \in Jobs, Settle(j) PROVE UNCHANGED Lock!lock
    BY <2>4 DEF Settle, Lock!lock
  <2>5. CASE UNCHANGED vars
    BY <2>5 DEF vars, Lock!lock
  <2> QED BY <1>2, <2>1, <2>2, <2>3, <2>4, <2>5 DEF Next, Lock!Next
<1> QED BY <1>1, <1>2, Inductive, PTL DEF Spec, ImplementsLock, Lock!Spec
=============================================================================
