-------------------------- MODULE PushQueueProofs --------------------------
(***************************************************************************)
(* Theorems about PushQueue, for any number of devices, topics, jobs,      *)
(* attempts, crashes and failed writes.                                    *)
(*                                                                         *)
(* SendingUntouched needs that a job is claimed by the tick that runs      *)
(* (Claimed), or the next tick would claim under its feet.  NotTwice needs *)
(* that what was accepted is closed as sent or about to be (Recorded), and *)
(* that no worker is on a job that is closed as sent (SentAlone).  The     *)
(* bound of the attempts needs that a pending job has one attempt left     *)
(* (Bounded), which a late outcome only respects because a claimed row     *)
(* never counts more attempts than its claim did (Claimed).                *)
(***************************************************************************)
EXTENDS PushQueue, TLAPS

Statuses == {"pending", "sending", "sent", "dead", "pruned"}
JobRow == [status : Statuses, device : Devices, topic : Topics \cup {NoTopic},
           payload : Nat, attempts : Nat, due : BOOLEAN]
Works == [stage : Stages, payload : Nat, attempts : Nat]
Under == {"load", "send"} \cup Closing

JobType == job \in [Rows -> {NoJob} \cup JobRow]
DeviceType == device \in [Devices -> [state : {"new", "active", "inactive", "gone"}, failures : Nat]]
AskType == asks \subseteq Requests /\ said \in 0..MaxSaid
WorkType == work \in [Rows -> {Idle} \cup Works]
CountType == restarts \in Nat /\ lost \in Nat /\ stranded \subseteq Rows
FlagType == running \in BOOLEAN /\ reclaimed \in BOOLEAN /\ late \in BOOLEAN
AcceptType == accepted \subseteq Rows \X Nat
Types == JobType /\ DeviceType /\ AskType /\ WorkType /\ CountType /\ FlagType /\ AcceptType

Bounded ==
  \A r \in Rows : job[r] # NoJob =>
    /\ job[r].attempts <= MaxAttempts + Reclaims
    /\ job[r].status = "pending" => job[r].attempts < MaxAttempts + Reclaims

Claimed ==
  \A r \in Rows : work[r] # Idle =>
    /\ running /\ job[r] # NoJob
    /\ work[r].stage \in Under => job[r].attempts <= work[r].attempts

Recorded ==
  \A r \in Rows, p \in Nat : <<r, p>> \in accepted =>
    \/ job[r].status \in {"sent", "pruned"}
    \/ work[r].stage = "ok" /\ work[r].payload = p

SentAlone ==
  \A r \in Rows : job[r].status \in {"sent", "pruned"} => work[r].stage \in {"idle", "used"}

IInv == Types /\ Bounded /\ Claimed /\ SendingUntouched /\ Recorded /\ SentAlone

LEMMA StageFacts ==
  /\ "idle" \notin Stages /\ Idle \notin Works /\ NoJob \notin JobRow
  /\ \A w \in {Idle} \cup Works : (w.stage = "idle" <=> w = Idle) /\ (w # Idle => w \in Works)
  /\ \A j \in {NoJob} \cup JobRow : (j.status = "none" <=> j = NoJob) /\ (j # NoJob => j \in JobRow)
BY DEF Stages, Closing, Sequel, Works, Idle, NoJob, JobRow, Statuses

\* The invariant holds at the start.
LEMMA InitHolds == Init => IInv
<1> SUFFICES ASSUME Init PROVE IInv
  OBVIOUS
<1>1. \A r \in Rows : job[r] = NoJob /\ work[r] = Idle
  BY DEF Init
<1>2. \A r \in Rows : job[r].status = "none" /\ work[r].stage = "idle"
  BY <1>1 DEF NoJob, Idle
<1>3. Types
  <2>1. JobType /\ WorkType
    BY DEF Init, JobType, WorkType
  <2>2. DeviceType
    BY DEF Init, DeviceType
  <2>3. AskType /\ CountType /\ AcceptType
    BY NumbersAssumption DEF Init, AskType, CountType, AcceptType
  <2> QED BY <2>1, <2>2, <2>3 DEF Init, Types, FlagType
<1>4. Bounded /\ Claimed
  BY <1>1 DEF Bounded, Claimed
<1>5. SendingUntouched /\ Recorded /\ SentAlone
  BY <1>2 DEF SendingUntouched, Recorded, SentAlone, Closing, Init
<1> QED BY <1>3, <1>4, <1>5 DEF IInv

\* Requests of enqueues.
LEMMA NotifyKeeps == ASSUME IInv, NEW k \in Topics \cup {NoTopic}, Notify(k) PROVE IInv'
<1>1. Types'
  <2>1. said' \in 0..MaxSaid /\ said + 1 \in 1..MaxSaid
    BY NumbersAssumption DEF IInv, Types, AskType, Notify
  <2>2. ASSUME NEW a \in asks' PROVE a \in Requests
    <3>1. CASE a \in asks
      BY <3>1 DEF IInv, Types, AskType
    <3>2. CASE a \notin asks
      <4>1. PICK d \in Active : a = [device |-> d, topic |-> k, payload |-> said + 1, create |-> FALSE]
        BY <2>2, <3>2 DEF Notify
      <4> QED BY <4>1, <2>1 DEF Requests, Active
    <3> QED BY <3>1, <3>2
  <2> QED BY <2>1, <2>2 DEF IInv, Types, Notify, lifeVars, faultVars, JobType, DeviceType, AskType,
       WorkType, CountType, FlagType, AcceptType
<1>2. (Bounded /\ Claimed /\ SendingUntouched /\ Recorded /\ SentAlone)'
  BY DEF IInv, Notify, lifeVars, faultVars, Bounded, Claimed, SendingUntouched, Recorded, SentAlone, Reclaims
<1> QED BY <1>1, <1>2 DEF IInv

\* Rows that wait or do not exist yet may be brought up to date or created: the
\* workers are not concerned.
LEMMA RowsMove ==
  ASSUME IInv, UNCHANGED <<work, running, lifeVars, accepted>>,
         \A q \in Rows : \/ job'[q] = job[q]
                         \/ /\ job[q].status \in {"none", "pending"}
                            /\ job'[q] \in JobRow /\ job'[q].status = "pending"
                            /\ \/ job'[q].attempts = 0
                               \/ job[q] \in JobRow /\ job'[q].attempts = job[q].attempts
  PROVE  (Bounded /\ Claimed /\ SendingUntouched /\ Recorded /\ SentAlone)'
<1> USE DEF IInv, Types, JobType, WorkType, CountType, lifeVars
<1>1. \A q \in Rows : job[q] \in {NoJob} \cup JobRow /\ work[q] \in {Idle} \cup Works
  OBVIOUS
<1>2. MaxAttempts \in Nat \ {0} /\ Reclaims \in Nat /\ Reclaims' = Reclaims
  BY NumbersAssumption DEF Reclaims, FlagType
<1>3. Bounded'
  <2> SUFFICES ASSUME NEW q \in Rows, job'[q] # NoJob
               PROVE  /\ job'[q].attempts <= MaxAttempts + Reclaims
                      /\ job'[q].status = "pending" => job'[q].attempts < MaxAttempts + Reclaims
    BY <1>2 DEF Bounded
  <2>1. CASE job'[q] = job[q]
    BY <2>1 DEF Bounded
  <2>2. CASE job'[q] # job[q]
    <3>1. CASE job'[q].attempts = 0
      BY <3>1, <1>2
    <3>2. CASE job[q] \in JobRow /\ job'[q].attempts = job[q].attempts
      BY <2>2, <3>2, StageFacts, <1>1 DEF Bounded
    <3> QED BY <3>1, <3>2, <2>2
  <2> QED BY <2>1, <2>2
<1>4. Claimed'
  <2> SUFFICES ASSUME NEW q \in Rows, work[q] # Idle
               PROVE  /\ running /\ job'[q] # NoJob
                      /\ work[q].stage \in Under => job'[q].attempts <= work[q].attempts
    BY DEF Claimed
  <2>1. running /\ job[q] # NoJob /\ (work[q].stage \in Under => job[q].attempts <= work[q].attempts)
    BY DEF Claimed
  <2>2. work[q] \in Works /\ work[q].attempts \in Nat
    BY <1>1 DEF Works
  <2>3. job'[q] # NoJob
    BY <2>1, StageFacts
  <2>4. job'[q].attempts \in {0, job[q].attempts}
    OBVIOUS
  <2> QED BY <2>1, <2>2, <2>3, <2>4
<1>5. \A q \in Rows : job[q].status \notin {"none", "pending"} => job'[q] = job[q]
  OBVIOUS
<1>6. SendingUntouched'
  BY <1>5 DEF SendingUntouched
<1>7. Recorded'
  BY <1>5 DEF Recorded
<1>8. SentAlone'
  BY <1>5 DEF SentAlone
<1> QED BY <1>3, <1>4, <1>6, <1>7, <1>8

\* A worker that does not hold an answer of the push service may end, and one
\* that did not deliver may go on to deactivate the device.
LEMMA WorkersMove ==
  ASSUME IInv, UNCHANGED <<job, running, lifeVars, accepted>>,
         \A q \in Rows : \/ work'[q] = work[q]
                         \/ work[q].stage # "ok" /\ work'[q] = Idle
                         \/ /\ work[q] # Idle /\ work[q].stage \notin {"ok", "used"}
                            /\ work'[q].stage = "mute"
  PROVE  (Bounded /\ Claimed /\ SendingUntouched /\ Recorded /\ SentAlone)'
<1> USE DEF IInv, lifeVars
<1>0. Idle.stage = "idle" /\ "idle" \notin Under /\ "mute" \notin Under
  BY DEF Idle, Under, Closing
<1>1. Bounded'
  BY DEF Bounded, Reclaims
<1>2. Claimed'
  BY <1>0 DEF Claimed
<1>3. SendingUntouched'
  BY <1>0 DEF SendingUntouched, Under
<1>4. Recorded'
  BY DEF Recorded
<1>5. SentAlone'
  <2> SUFFICES ASSUME NEW q \in Rows, job[q].status \in {"sent", "pruned"}
               PROVE  work'[q].stage \in {"idle", "used"}
    BY DEF SentAlone
  <2>1. work[q].stage \in {"idle", "used"}
    BY DEF SentAlone
  <2>2. work[q].stage = "idle" => work[q] = Idle
    BY StageFacts DEF Types, WorkType
  <2> QED BY <2>1, <2>2, <1>0
<1> QED BY <1>1, <1>2, <1>3, <1>4, <1>5

LEMMA WaitingRows ==
  ASSUME IInv, NEW a \in asks
  PROVE  a \in Requests /\ Fresh(a.device, a.topic, a.payload) \in JobRow
<1>1. a \in Requests
  BY DEF IInv, Types, AskType
<1>2. a.device \in Devices /\ a.topic \in Topics \cup {NoTopic} /\ a.payload \in Nat
  BY <1>1, NumbersAssumption DEF Requests
<1> QED BY <1>1, <1>2 DEF Fresh, JobRow, Statuses

LEMMA RefreshKeeps == ASSUME IInv, NEW a \in Requests, Refresh(a) PROVE IInv'
<1> DEFINE f == Fresh(a.device, a.topic, a.payload)
<1>1. f \in JobRow /\ f.status = "pending" /\ f.attempts = 0
  BY WaitingRows DEF Refresh, Fresh
<1>2. \A q \in Rows : job'[q] = job[q] \/ (job[q].status = "pending" /\ job'[q] = f)
  BY DEF Refresh, Waiting, With
<1>3. JobType'
  <2>1. \A q \in Rows : job'[q] \in {NoJob} \cup JobRow
    BY <1>1, <1>2 DEF IInv, Types, JobType
  <2>2. job' = [q \in Rows |-> job'[q]]
    BY DEF Refresh
  <2> QED BY <2>1, <2>2 DEF JobType
<1>4. AskType'
  <2>1. [a EXCEPT !.create = TRUE] \in Requests
    BY DEF Requests
  <2> QED BY <2>1 DEF IInv, Types, AskType, Refresh
<1>5. (Bounded /\ Claimed /\ SendingUntouched /\ Recorded /\ SentAlone)'
  <2> HIDE DEF f
  <2> QED BY <1>1, <1>2, RowsMove DEF Refresh
<1> QED BY <1>3, <1>4, <1>5 DEF IInv, Types, Refresh, DeviceType, WorkType, CountType, FlagType, AcceptType,
     lifeVars, faultVars

LEMMA CreateKeeps == ASSUME IInv, NEW a \in Requests, Create(a) PROVE IInv'
<1> DEFINE f == Fresh(a.device, a.topic, a.payload)
           n == CHOOSE r \in With("none") : TRUE
<1>1. f \in JobRow /\ f.status = "pending" /\ f.attempts = 0
  BY WaitingRows DEF Create, Fresh
<1>2. n \in Rows /\ job[n].status = "none" /\ job' = [job EXCEPT ![n] = f]
  BY DEF Create, With
<1> HIDE DEF f, n
<1>3. JobType'
  BY <1>1, <1>2 DEF IInv, Types, JobType
<1>4. \A q \in Rows : job'[q] = job[q] \/ (job[q].status = "none" /\ job'[q] = f)
  BY <1>2 DEF IInv, Types, JobType
<1>5. (Bounded /\ Claimed /\ SendingUntouched /\ Recorded /\ SentAlone)'
  BY <1>1, <1>4, RowsMove DEF Create
<1> QED BY <1>3, <1>5 DEF IInv, Types, Create, AskType, DeviceType, WorkType, CountType, FlagType,
     AcceptType, lifeVars, faultVars

LEMMA AskFailsKeeps == ASSUME IInv, NEW a \in Requests, AskFails(a) PROVE IInv'
<1>1. (Bounded /\ Claimed /\ SendingUntouched /\ Recorded /\ SentAlone)'
  BY WorkersMove DEF AskFails
<1> QED BY <1>1 DEF IInv, Types, AskFails, AskType, JobType, DeviceType, WorkType, CountType, FlagType,
     AcceptType, lifeVars

LEMMA ElapseKeeps == ASSUME IInv, NEW r \in Rows, Elapse(r) PROVE IInv'
<1>1. job[r] \in JobRow
  BY StageFacts DEF IInv, Types, JobType, Elapse, NoJob
<1>2. [job[r] EXCEPT !.due = TRUE] \in JobRow /\ [job[r] EXCEPT !.due = TRUE].status = "pending"
      /\ [job[r] EXCEPT !.due = TRUE].attempts = job[r].attempts
  BY <1>1 DEF JobRow, Elapse
<1>3. job' = [job EXCEPT ![r] = [job[r] EXCEPT !.due = TRUE]]
  BY DEF Elapse
<1>4. JobType'
  BY <1>2, <1>3 DEF IInv, Types, JobType
<1>5. \A q \in Rows : q # r => job'[q] = job[q]
  BY <1>3 DEF IInv, Types, JobType
<1>6. job'[r] = [job[r] EXCEPT !.due = TRUE]
  BY <1>3 DEF IInv, Types, JobType
<1>7. (Bounded /\ Claimed /\ SendingUntouched /\ Recorded /\ SentAlone)'
  BY <1>1, <1>2, <1>5, <1>6, RowsMove DEF Elapse
<1> QED BY <1>4, <1>7 DEF IInv, Types, Elapse, AskType, DeviceType, WorkType, CountType, FlagType,
     AcceptType, lifeVars, faultVars

LEMMA DeviceTyped ==
  ASSUME IInv, NEW d \in Devices
  PROVE  device[d].state \in {"new", "active", "inactive", "gone"} /\ device[d].failures \in Nat
BY DEF IInv, Types, DeviceType

LEMMA SetKeeps ==
  ASSUME IInv, NEW d \in Devices, NEW v \in [state : {"new", "active", "inactive", "gone"}, failures : Nat],
         SetDevice(d, v)
  PROVE  IInv'
<1>1. (Bounded /\ Claimed /\ SendingUntouched /\ Recorded /\ SentAlone)'
  BY WorkersMove DEF SetDevice, jobVars
<1> QED BY <1>1 DEF IInv, Types, SetDevice, jobVars, AskType, JobType, DeviceType, WorkType, CountType,
     FlagType, AcceptType, lifeVars, faultVars

LEMMA RegistryKeeps == ASSUME IInv, NEW d \in Devices, Register(d) \/ Unsubscribe(d) PROVE IInv'
BY SetKeeps DEF Register, Unsubscribe

\* A worker exists for the row of a job.
LEMMA Working ==
  ASSUME IInv, NEW r \in Rows, work[r].stage \in Stages
  PROVE  work[r] \in Works /\ job[r] \in JobRow /\ work[r] # Idle /\ running /\ job[r].device \in Devices
<1>1. work[r] \in Works /\ work[r] # Idle
  BY StageFacts DEF IInv, Types, WorkType
<1>2. job[r] \in JobRow /\ running
  BY <1>1, StageFacts DEF IInv, Types, JobType, Claimed
<1> QED BY <1>1, <1>2 DEF JobRow

LEMMA GotoTyped ==
  ASSUME IInv, NEW r \in Rows, work[r].stage \in Stages, NEW s \in Stages, Goto(r, s)
  PROVE  /\ WorkType'
         /\ \A q \in Rows : q # r => work'[q] = work[q]
         /\ work'[r] = [work[r] EXCEPT !.stage = s] /\ work'[r] # Idle
         /\ work'[r].stage = s /\ work'[r].payload = work[r].payload
         /\ work'[r].attempts = work[r].attempts
<1>1. work[r] \in Works
  BY Working
<1>2. [work[r] EXCEPT !.stage = s] \in Works
  BY <1>1 DEF Works
<1>3. work' = [work EXCEPT ![r] = [work[r] EXCEPT !.stage = s]]
  BY DEF Goto
<1> QED BY <1>1, <1>2, <1>3, StageFacts DEF IInv, Types, WorkType, Works

LEMMA FinishTyped ==
  ASSUME IInv, NEW r \in Rows, Finish(r)
  PROVE  WorkType' /\ (\A q \in Rows : q # r => work'[q] = work[q]) /\ work'[r] = Idle
BY DEF IInv, Types, WorkType, Finish

LEMMA LoadKeeps == ASSUME IInv, NEW r \in Rows, Load(r) PROVE IInv'
<1>1. work[r].stage = "load" /\ "load" \in Stages /\ "send" \in Stages /\ "drop" \in Stages
      /\ {"load", "send", "drop"} \subseteq Under
  BY DEF Load, Stages, Closing, Under
<1>2. PICK s \in {"send", "drop"} : Goto(r, s)
  BY DEF Load
<1>3. /\ WorkType'
      /\ \A q \in Rows : q # r => work'[q] = work[q]
      /\ work'[r] # Idle /\ work'[r].stage = s /\ work'[r].payload = work[r].payload
      /\ work'[r].attempts = work[r].attempts
  BY <1>1, <1>2, GotoTyped
<1>4. UNCHANGED <<job, running, accepted, late>> /\ Reclaims' = Reclaims
  BY DEF Load, jobVars, lifeVars, Reclaims
<1>5. work[r] # Idle
  BY <1>1, Working
<1>6. Bounded' /\ Claimed'
  BY <1>1, <1>3, <1>4, <1>5 DEF IInv, Bounded, Claimed
<1>7. SendingUntouched'
  BY <1>1, <1>3, <1>4 DEF IInv, SendingUntouched
<1>8. SentAlone' /\ Recorded'
  BY <1>1, <1>3, <1>4 DEF IInv, SentAlone, Recorded
<1> QED BY <1>3, <1>6, <1>7, <1>8 DEF IInv, Types, Load, jobVars, AskType, JobType, DeviceType, CountType,
     FlagType, AcceptType, lifeVars, faultVars

LEMMA AnswerKeeps ==
  ASSUME IInv, NEW r \in Rows, NEW answer \in {"ok", "gone", "failed"}, Answer(r, answer) PROVE IInv'
<1>1. work[r].stage = "send" /\ "send" \in Stages /\ answer \in Stages /\ {"send", answer} \subseteq Under
      /\ answer \in Closing
  BY DEF Answer, Stages, Closing, Under
<1>2. /\ WorkType'
      /\ \A q \in Rows : q # r => work'[q] = work[q]
      /\ work'[r] # Idle /\ work'[r].stage = answer /\ work'[r].payload = work[r].payload
      /\ work'[r].attempts = work[r].attempts
  BY <1>1, GotoTyped DEF Answer
<1>3. UNCHANGED <<job, running, late>> /\ Reclaims' = Reclaims
  BY DEF Answer, jobVars, lifeVars, Reclaims
<1>4. work[r] \in Works /\ work[r] # Idle
  BY <1>1, Working
<1>5. Bounded' /\ Claimed'
  BY <1>1, <1>2, <1>3, <1>4 DEF IInv, Bounded, Claimed
<1>6. SendingUntouched'
  BY <1>1, <1>2, <1>3 DEF IInv, SendingUntouched
<1>7. SentAlone'
  BY <1>1, <1>2, <1>3 DEF IInv, SentAlone
<1>8. Recorded'
  <2> SUFFICES ASSUME NEW q \in Rows, NEW p \in Nat, <<q, p>> \in accepted'
               PROVE  \/ job[q].status \in {"sent", "pruned"}
                      \/ work'[q].stage = "ok" /\ work'[q].payload = p
    BY <1>3 DEF Recorded
  <2>1. CASE <<q, p>> \in accepted
    BY <2>1, <1>1, <1>2 DEF IInv, Recorded
  <2>2. CASE <<q, p>> \notin accepted
    <3>1. answer = "ok" /\ q = r /\ p = work[r].payload
      BY <2>2 DEF Answer
    <3> QED BY <3>1, <1>2
  <2> QED BY <2>1, <2>2
<1>9. AcceptType'
  BY <1>4 DEF IInv, Types, AcceptType, Answer, Works
<1> QED BY <1>2, <1>5, <1>6, <1>7, <1>8, <1>9 DEF IInv, Types, Answer, jobVars, AskType, JobType, DeviceType,
     CountType, FlagType, lifeVars, faultVars

\* Behind the write of the row a worker only has the device to write.
LEMMA AfterTyped ==
  ASSUME IInv, NEW r \in Rows, work[r].stage \in Closing, After(r)
  PROVE  /\ WorkType' /\ \A q \in Rows : q # r => work'[q] = work[q]
         /\ work'[r].stage \in {"idle", "used", "mute", "blame"}
         /\ work[r].stage = "ok" => work'[r].stage = "used"
<1>1. Closing \subseteq Stages /\ {"used", "mute", "blame"} \subseteq Stages
  BY DEF Closing, Stages, Sequel
<1>2. CASE work[r].stage \in {"ok", "gone", "failed"}
  <2>1. PICK s \in {"used", "mute", "blame"} : Goto(r, s) /\ (work[r].stage = "ok" => s = "used")
    BY <1>2 DEF After
  <2>2. s \in Stages /\ work[r].stage \in Stages
    BY <1>1
  <2>3. /\ WorkType' /\ \A q \in Rows : q # r => work'[q] = work[q]
        /\ work'[r].stage = s
    BY <2>1, <2>2, GotoTyped
  <2> QED BY <2>1, <2>3
<1>3. CASE work[r].stage = "drop"
  BY <1>3, FinishTyped DEF After, Idle
<1> QED BY <1>2, <1>3 DEF Closing

LEMMA CloseKeeps == ASSUME IInv, NEW r \in Rows, Close(r) PROVE IInv'
<1>1. /\ work[r].stage \in Closing /\ Closing \subseteq Stages /\ Closing \subseteq Under
      /\ "used" \notin Closing /\ "idle" \notin Closing
      /\ "idle" \notin Under /\ "used" \notin Under /\ "mute" \notin Under /\ "blame" \notin Under
  BY DEF Close, Closing, Stages, Under
<1>2. /\ WorkType' /\ \A q \in Rows : q # r => work'[q] = work[q]
      /\ work'[r].stage \in {"idle", "used", "mute", "blame"}
      /\ work[r].stage = "ok" => work'[r].stage = "used"
  BY <1>1, AfterTyped DEF Close
<1>3. work[r] \in Works /\ job[r] \in JobRow /\ work[r] # Idle /\ running
  BY <1>1, Working
<1>4. /\ Outcome(r) \in JobRow /\ Outcome(r).attempts = job[r].attempts
      /\ Outcome(r).status \in {"sent", "pending", "dead"}
      /\ Outcome(r).status = "sent" <=> work[r].stage = "ok"
      /\ Outcome(r).status = "pending" => work[r].attempts < MaxAttempts
  <2>1. [job[r] EXCEPT !.status = "sent"] \in JobRow /\ [job[r] EXCEPT !.status = "dead"] \in JobRow
        /\ [job[r] EXCEPT !.status = "pending", !.due = FALSE] \in JobRow
    BY <1>3 DEF JobRow, Statuses
  <2>2. CASE work[r].stage = "ok"
    <3>1. Outcome(r) = [job[r] EXCEPT !.status = "sent"]
      BY <2>2 DEF Outcome
    <3> QED BY <2>1, <2>2, <3>1, <1>3 DEF JobRow
  <2>3. CASE work[r].stage = "failed" /\ work[r].attempts < MaxAttempts
    <3>1. Outcome(r) = [job[r] EXCEPT !.status = "pending", !.due = FALSE]
      BY <2>3 DEF Outcome
    <3> QED BY <2>1, <2>3, <3>1, <1>3 DEF JobRow
  <2>4. CASE work[r].stage # "ok" /\ ~(work[r].stage = "failed" /\ work[r].attempts < MaxAttempts)
    <3>1. Outcome(r) = [job[r] EXCEPT !.status = "dead"]
      BY <2>4 DEF Outcome
    <3> QED BY <2>1, <2>4, <3>1, <1>3 DEF JobRow
  <2> QED BY <2>2, <2>3, <2>4
<1>5. job' = [job EXCEPT ![r] = Outcome(r)]
  BY DEF Close
<1>6. /\ JobType' /\ job'[r] = Outcome(r) /\ \A q \in Rows : q # r => job'[q] = job[q]
  BY <1>4, <1>5 DEF IInv, Types, JobType
<1>7. UNCHANGED <<running, late, accepted>> /\ Reclaims' = Reclaims /\ Reclaims \in Nat
  BY DEF Close, lifeVars, Reclaims, IInv, Types, CountType
<1> HIDE DEF Outcome
<1>8. Bounded'
  <2>1. job[r] # NoJob /\ job[r].attempts \in Nat /\ work[r].attempts \in Nat
    BY <1>3, StageFacts DEF JobRow, Works
  <2>2. job[r].attempts <= MaxAttempts + Reclaims /\ job[r].attempts <= work[r].attempts
    BY <2>1, <1>1, <1>3 DEF IInv, Bounded, Claimed
  <2>3. job'[r].attempts <= MaxAttempts + Reclaims
        /\ (job'[r].status = "pending" => job'[r].attempts < MaxAttempts + Reclaims)
    BY <2>1, <2>2, <1>4, <1>6, <1>7, NumbersAssumption
  <2> QED BY <2>3, <1>6, <1>7 DEF IInv, Bounded
<1>9. Claimed'
  BY <1>1, <1>2, <1>3, <1>4, <1>6, <1>7, StageFacts DEF IInv, Claimed
<1>10. SendingUntouched'
  BY <1>1, <1>2, <1>6, <1>7 DEF IInv, SendingUntouched, Under
<1>11. Recorded'
  <2> SUFFICES ASSUME NEW q \in Rows, NEW p \in Nat, <<q, p>> \in accepted
               PROVE  \/ job'[q].status \in {"sent", "pruned"}
                      \/ work'[q].stage = "ok" /\ work'[q].payload = p
    BY <1>7 DEF Recorded
  <2>1. \/ job[q].status \in {"sent", "pruned"}
        \/ work[q].stage = "ok" /\ work[q].payload = p
    BY DEF IInv, Recorded
  <2>2. CASE q # r
    BY <2>1, <2>2, <1>2, <1>6
  <2>3. CASE q = r
    <3>1. work[r].stage = "ok"
      BY <2>1, <2>3, <1>1 DEF IInv, SentAlone
    <3> QED BY <3>1, <2>3, <1>4, <1>6
  <2> QED BY <2>2, <2>3
<1>12. SentAlone'
  BY <1>2, <1>4, <1>6 DEF IInv, SentAlone
<1> QED BY <1>2, <1>6, <1>8, <1>9, <1>10, <1>11, <1>12 DEF IInv, Types, Close, AskType, DeviceType, CountType,
     FlagType, AcceptType, lifeVars, faultVars

LEMMA CloseFailsKeeps == ASSUME IInv, NEW r \in Rows, CloseFails(r) PROVE IInv'
<1>1. /\ work[r].stage \in Closing /\ Closing \subseteq Stages /\ Closing \subseteq Under
      /\ "used" \notin Closing /\ "idle" \notin Closing
      /\ "idle" \notin Under /\ "used" \notin Under /\ "mute" \notin Under /\ "blame" \notin Under
  BY DEF CloseFails, Closing, Stages, Under
<1>2. /\ WorkType' /\ \A q \in Rows : q # r => work'[q] = work[q]
      /\ work'[r].stage \in {"idle", "used", "mute", "blame"}
  BY <1>1, AfterTyped DEF CloseFails
<1>3. work[r] # Idle /\ running /\ job[r].status \notin {"sent", "pruned"}
  BY <1>1, Working DEF IInv, SentAlone
<1>4. UNCHANGED <<job, running, late>> /\ Reclaims' = Reclaims
  BY DEF CloseFails, jobVars, lifeVars, Reclaims
<1>5. Bounded'
  BY <1>4 DEF IInv, Bounded
<1>6. Claimed' /\ SendingUntouched'
  BY <1>1, <1>2, <1>3, <1>4 DEF IInv, Claimed, SendingUntouched, Under
<1>7. Recorded'
  <2> SUFFICES ASSUME NEW q \in Rows, NEW p \in Nat, <<q, p>> \in accepted'
               PROVE  \/ job[q].status \in {"sent", "pruned"}
                      \/ work'[q].stage = "ok" /\ work'[q].payload = p
    BY <1>4 DEF Recorded
  <2>1. <<q, p>> \in accepted /\ <<q, p>> # <<r, work[r].payload>>
    BY DEF CloseFails
  <2>2. \/ job[q].status \in {"sent", "pruned"}
        \/ work[q].stage = "ok" /\ work[q].payload = p
    BY <2>1 DEF IInv, Recorded
  <2> QED BY <2>1, <2>2, <1>2, <1>3
<1>8. SentAlone'
  BY <1>2, <1>3, <1>4 DEF IInv, SentAlone
<1>9. AcceptType' /\ CountType'
  BY DEF IInv, Types, AcceptType, CountType, CloseFails, lifeVars
<1> QED BY <1>2, <1>5, <1>6, <1>7, <1>8, <1>9 DEF IInv, Types, CloseFails, jobVars, AskType, JobType, DeviceType,
     FlagType, lifeVars

LEMMA LoadFailsKeeps == ASSUME IInv, NEW r \in Rows, LoadFails(r) PROVE IInv'
<1>1. WorkType' /\ (\A q \in Rows : q # r => work'[q] = work[q]) /\ work'[r] = Idle
  BY FinishTyped DEF LoadFails
<1>2. (Bounded /\ Claimed /\ SendingUntouched /\ Recorded /\ SentAlone)'
  BY <1>1, WorkersMove DEF LoadFails, jobVars
<1> QED BY <1>1, <1>2 DEF IInv, Types, LoadFails, jobVars, AskType, JobType, DeviceType, CountType,
     FlagType, AcceptType, lifeVars

LEMMA WrittenTyped ==
  ASSUME IInv, NEW d \in Devices, NEW v \in [state : {"new", "active", "inactive", "gone"}, failures : Nat],
         device' = Written(d, v)
  PROVE  DeviceType'
BY DEF IInv, Types, DeviceType, Written

\* The writes to the device after the outcome.
LEMMA SequelKeeps == ASSUME IInv, NEW r \in Rows, MarkUsed(r) \/ Blame(r) \/ Mute(r) PROVE IInv'
<1>1. work[r].stage \in {"used", "blame", "mute"} /\ {"used", "blame", "mute"} \subseteq Stages
  BY DEF MarkUsed, Blame, Mute, Stages, Sequel
<1>2. work[r] # Idle /\ job[r].device \in Devices
  BY <1>1, Working
<1> DEFINE d == job[r].device
           V == [state : {"new", "active", "inactive", "gone"}, failures : Nat]
<1>3. device[d] \in V
  BY <1>2 DEF IInv, Types, DeviceType
<1>4. DeviceType'
  <2>1. [device[d] EXCEPT !.failures = 0] \in V /\ [device[d] EXCEPT !.failures = device[d].failures + 1] \in V
        /\ [device[d] EXCEPT !.state = "inactive"] \in V
    BY <1>3
  <2>2. PICK v \in V : device' = Written(d, v)
    BY <2>1 DEF MarkUsed, Blame, Mute
  <2> QED BY <1>2, <2>2, WrittenTyped
<1>5. \/ Finish(r)
      \/ work[r].stage = "blame" /\ Goto(r, "mute")
  BY DEF MarkUsed, Blame, Mute
<1>6. /\ WorkType' /\ \A q \in Rows : q # r => work'[q] = work[q]
      /\ \/ work'[r] = Idle
         \/ work[r].stage = "blame" /\ work'[r].stage = "mute"
  BY <1>1, <1>5, FinishTyped, GotoTyped
<1>7. UNCHANGED <<job, running, lifeVars, accepted, asks, said, faultVars>>
  BY DEF MarkUsed, Blame, Mute, jobVars
<1>8. (Bounded /\ Claimed /\ SendingUntouched /\ Recorded /\ SentAlone)'
  BY <1>1, <1>2, <1>6, <1>7, WorkersMove
<1> QED BY <1>4, <1>6, <1>7, <1>8 DEF IInv, Types, AskType, JobType, CountType, FlagType, AcceptType,
     lifeVars, faultVars

\* No tick claims while a worker is left.
LEMMA AllIdle ==
  ASSUME IInv, ~running \/ Busy = {}
  PROVE  \A q \in Rows : work[q] = Idle /\ work[q].stage = "idle" /\ work[q].stage # "ok"
BY DEF IInv, Claimed, Busy, Idle

LEMMA TickKeeps == ASSUME IInv, Tick PROVE IInv'
<1>1. \A q \in Rows : work[q] = Idle /\ work[q].stage = "idle" /\ work[q].stage # "ok"
  BY AllIdle DEF Tick
<1>2. \A q \in Rows : q \in Due => job[q] \in JobRow /\ job[q].status = "pending"
  BY StageFacts DEF IInv, Types, JobType, Due, With, NoJob
<1>3. \A q \in Rows : q \in Due =>
        /\ job'[q] = [job[q] EXCEPT !.status = "sending", !.attempts = job[q].attempts + 1]
        /\ work'[q] = [stage |-> "load", payload |-> job[q].payload, attempts |-> job[q].attempts + 1]
  BY DEF Tick, Claim
<1>4. \A q \in Rows : q \notin Due => job'[q] = job[q] /\ work'[q] = work[q]
  BY DEF Tick, Claim
<1>5. \A q \in Rows : q \in Due =>
        /\ job'[q] \in JobRow /\ job'[q].status = "sending" /\ job'[q].attempts = job[q].attempts + 1
        /\ job'[q].payload = job[q].payload
  <2> SUFFICES ASSUME NEW q \in Rows, q \in Due
               PROVE  /\ job'[q] \in JobRow /\ job'[q].status = "sending"
                      /\ job'[q].attempts = job[q].attempts + 1 /\ job'[q].payload = job[q].payload
    OBVIOUS
  <2>1. job[q] \in JobRow /\ job[q].attempts + 1 \in Nat
    BY <1>2 DEF JobRow
  <2>2. job'[q] = [job[q] EXCEPT !.status = "sending", !.attempts = job[q].attempts + 1]
    BY <1>3
  <2> QED BY <2>1, <2>2 DEF JobRow, Statuses
<1>6. \A q \in Rows : q \in Due =>
        /\ work'[q] \in Works /\ work'[q].stage = "load" /\ work'[q].payload = job[q].payload
        /\ work'[q].attempts = job[q].attempts + 1
  <2> SUFFICES ASSUME NEW q \in Rows, q \in Due
               PROVE  /\ work'[q] \in Works /\ work'[q].stage = "load"
                      /\ work'[q].payload = job[q].payload /\ work'[q].attempts = job[q].attempts + 1
    OBVIOUS
  <2>1. job[q].payload \in Nat /\ job[q].attempts + 1 \in Nat
    BY <1>2 DEF JobRow
  <2>2. work'[q] = [stage |-> "load", payload |-> job[q].payload, attempts |-> job[q].attempts + 1]
    BY <1>3
  <2> QED BY <2>1, <2>2 DEF Works, Stages
<1>7. JobType' /\ WorkType'
  <2>1. \A q \in Rows : job'[q] \in {NoJob} \cup JobRow /\ work'[q] \in {Idle} \cup Works
    BY <1>4, <1>5, <1>6 DEF IInv, Types, JobType, WorkType
  <2>2. job' = [q \in Rows |-> job'[q]] /\ work' = [q \in Rows |-> work'[q]]
    BY DEF Tick, Claim
  <2> QED BY <2>1, <2>2 DEF JobType, WorkType
<1>8. running' = TRUE /\ UNCHANGED <<late, accepted>> /\ Reclaims' = Reclaims /\ Reclaims \in Nat
  BY DEF Tick, lifeVars, Reclaims, IInv, Types, CountType
<1>9. Bounded'
  <2> SUFFICES ASSUME NEW q \in Rows, job'[q] # NoJob
               PROVE  /\ job'[q].attempts <= MaxAttempts + Reclaims
                      /\ job'[q].status = "pending" => job'[q].attempts < MaxAttempts + Reclaims
    BY <1>8 DEF Bounded
  <2>1. CASE q \notin Due
    BY <2>1, <1>4 DEF IInv, Bounded
  <2>2. CASE q \in Due
    <3>1. job[q].attempts \in Nat /\ job[q] # NoJob
      BY <2>2, <1>2, StageFacts DEF JobRow
    <3>2. job[q].attempts < MaxAttempts + Reclaims
      BY <2>2, <3>1, <1>2 DEF IInv, Bounded
    <3> QED BY <2>2, <3>1, <3>2, <1>5, <1>8, NumbersAssumption
  <2> QED BY <2>1, <2>2
<1>10. Claimed'
  <2> SUFFICES ASSUME NEW q \in Rows, work'[q] # Idle
               PROVE  job'[q] # NoJob /\ job'[q].attempts <= work'[q].attempts
    BY <1>8 DEF Claimed
  <2>1. q \in Due /\ job[q].attempts \in Nat
    BY <1>1, <1>2, <1>4 DEF JobRow
  <2> QED BY <2>1, <1>5, <1>6, StageFacts
<1>11. SendingUntouched'
  BY <1>1, <1>4, <1>5, <1>6, <1>8 DEF SendingUntouched, Closing
<1>12. Recorded'
  BY <1>1, <1>2, <1>4, <1>8 DEF IInv, Recorded
<1>13. SentAlone'
  BY <1>1, <1>4, <1>5 DEF SentAlone
<1> QED BY <1>7, <1>8, <1>9, <1>10, <1>11, <1>12, <1>13 DEF IInv, Types, Tick, AskType, DeviceType, CountType,
     FlagType, AcceptType, lifeVars, faultVars

LEMMA TickEndsKeeps == ASSUME IInv, TickEnds PROVE IInv'
<1>1. \A q \in Rows : work[q] = Idle /\ work[q].stage = "idle" /\ work[q].stage # "ok"
  BY AllIdle DEF TickEnds
<1>2. \A q \in Rows : \/ job'[q] = job[q]
                      \/ /\ job[q].status \in {"sent", "dead"}
                         /\ job'[q] = [job[q] EXCEPT !.status = "pruned"]
  BY DEF TickEnds, With
<1>3. \A q \in Rows : job'[q] # job[q] =>
        /\ job[q] \in JobRow /\ job'[q] \in JobRow /\ job'[q].status = "pruned"
        /\ job'[q].attempts = job[q].attempts
  <2> SUFFICES ASSUME NEW q \in Rows, job'[q] # job[q]
               PROVE  /\ job[q] \in JobRow /\ job'[q] \in JobRow /\ job'[q].status = "pruned"
                      /\ job'[q].attempts = job[q].attempts
    OBVIOUS
  <2>1. job[q].status # "none" /\ job'[q] = [job[q] EXCEPT !.status = "pruned"]
    BY <1>2
  <2>2. job[q] \in JobRow
    BY <2>1, StageFacts DEF IInv, Types, JobType
  <2> QED BY <2>1, <2>2 DEF JobRow, Statuses
<1>4. JobType'
  <2>1. \A q \in Rows : job'[q] \in {NoJob} \cup JobRow
    BY <1>3 DEF IInv, Types, JobType
  <2>2. job' = [q \in Rows |-> job'[q]]
    BY DEF TickEnds
  <2> QED BY <2>1, <2>2 DEF JobType
<1>5. work' = work /\ running' = FALSE /\ UNCHANGED <<late, accepted>> /\ Reclaims' = Reclaims
  BY DEF TickEnds, lifeVars, Reclaims
<1>6. Bounded'
  <2> SUFFICES ASSUME NEW q \in Rows, job'[q] # NoJob
               PROVE  /\ job'[q].attempts <= MaxAttempts + Reclaims
                      /\ job'[q].status = "pending" => job'[q].attempts < MaxAttempts + Reclaims
    BY <1>5 DEF Bounded
  <2>1. CASE job'[q] = job[q]
    BY <2>1 DEF IInv, Bounded
  <2>2. CASE job'[q] # job[q]
    BY <2>2, <1>3, StageFacts DEF IInv, Bounded
  <2> QED BY <2>1, <2>2
<1>7. Claimed' /\ SendingUntouched' /\ SentAlone'
  BY <1>1, <1>5 DEF Claimed, SendingUntouched, SentAlone, Closing
<1>8. Recorded'
  BY <1>1, <1>3, <1>5 DEF IInv, Recorded
<1> QED BY <1>4, <1>5, <1>6, <1>7, <1>8 DEF IInv, Types, TickEnds, AskType, DeviceType, WorkType, CountType,
     FlagType, AcceptType, lifeVars, faultVars

LEMMA RestartKeeps == ASSUME IInv, Restart PROVE IInv'
<1>1. \A q \in Rows : work'[q] = Idle /\ work'[q].stage = "idle"
  BY DEF Restart, Idle
<1>2. Reclaims \in Nat /\ Reclaims' \in Nat /\ Reclaims <= Reclaims'
  BY DEF Restart, Reclaims, IInv, Types, CountType, FlagType
<1>3. Bounded'
  <2> SUFFICES ASSUME NEW q \in Rows, job[q] # NoJob
               PROVE  /\ job[q].attempts <= MaxAttempts + Reclaims'
                      /\ job[q].status = "pending" => job[q].attempts < MaxAttempts + Reclaims'
    BY DEF Restart, Bounded
  <2>1. job[q].attempts \in Nat
    BY DEF IInv, Types, JobType, JobRow
  <2> QED BY <2>1, <1>2, NumbersAssumption DEF IInv, Bounded
<1>4. Claimed' /\ SendingUntouched' /\ SentAlone' /\ Recorded'
  BY <1>1 DEF Restart, Claimed, SendingUntouched, SentAlone, Recorded, Closing
<1>5. WorkType' /\ CountType' /\ AcceptType' /\ FlagType' /\ AskType'
  <2>1. WorkType' /\ AskType'
    BY DEF IInv, Types, Restart, WorkType, AskType
  <2>2. CountType' /\ AcceptType'
    BY DEF IInv, Types, Restart, CountType, AcceptType
  <2>3. FlagType'
    BY DEF Restart, FlagType
  <2> QED BY <2>1, <2>2, <2>3
<1> QED BY <1>3, <1>4, <1>5 DEF IInv, Types, Restart, JobType, DeviceType

LEMMA ReclaimKeeps == ASSUME IInv, Reclaim PROVE IInv'
<1>1. \A q \in Rows : \/ job'[q] = job[q] /\ job[q].status # "sending"
                      \/ job[q].status = "sending" /\ job'[q] = [job[q] EXCEPT !.status = "pending"]
  BY DEF Reclaim, With
<1>2. \A q \in Rows : job[q].status = "sending" =>
        /\ job[q] \in JobRow /\ job'[q] \in JobRow /\ job'[q].status = "pending"
        /\ job'[q].attempts = job[q].attempts
  <2> SUFFICES ASSUME NEW q \in Rows, job[q].status = "sending"
               PROVE  /\ job[q] \in JobRow /\ job'[q] \in JobRow /\ job'[q].status = "pending"
                      /\ job'[q].attempts = job[q].attempts
    OBVIOUS
  <2>1. job[q] \in JobRow
    BY StageFacts DEF IInv, Types, JobType
  <2> QED BY <1>1, <2>1 DEF JobRow, Statuses
<1>3. JobType'
  <2>1. \A q \in Rows : job'[q] \in {NoJob} \cup JobRow
    BY <1>1, <1>2 DEF IInv, Types, JobType
  <2>2. job' = [q \in Rows |-> job'[q]]
    BY DEF Reclaim
  <2> QED BY <2>1, <2>2 DEF JobType
<1>4. UNCHANGED <<work, running, accepted>> /\ Reclaims \in Nat /\ Reclaims' = Reclaims + 1
  BY DEF Reclaim, Reclaims, IInv, Types, CountType, FlagType
<1>5. Bounded'
  <2> SUFFICES ASSUME NEW q \in Rows, job'[q] # NoJob
               PROVE  /\ job'[q].attempts <= MaxAttempts + (Reclaims + 1)
                      /\ job'[q].status = "pending" => job'[q].attempts < MaxAttempts + (Reclaims + 1)
    BY <1>4 DEF Bounded
  <2>1. job[q] # NoJob /\ job'[q].attempts = job[q].attempts
    BY <1>1, <1>2, StageFacts
  <2>2. job[q].attempts \in Nat /\ job[q].attempts <= MaxAttempts + Reclaims
    BY <2>1 DEF IInv, Types, JobType, JobRow, Bounded
  <2> QED BY <2>1, <2>2, <1>4, NumbersAssumption
<1>6. Claimed'
  BY <1>1, <1>2, <1>4, StageFacts DEF IInv, Claimed
<1>7. SendingUntouched'
  <2>1. CASE Busy = {}
    BY <2>1, AllIdle, <1>4 DEF SendingUntouched, Closing
  <2>2. CASE Busy # {}
    BY <2>2 DEF Reclaim, SendingUntouched
  <2> QED BY <2>1, <2>2
<1>8. Recorded' /\ SentAlone'
  BY <1>1, <1>2, <1>4 DEF IInv, Recorded, SentAlone
<1>9. FlagType'
  <2>1. late' \in BOOLEAN
    BY DEF Reclaim
  <2> QED BY <2>1 DEF IInv, Types, FlagType, Reclaim
<1> QED BY <1>3, <1>4, <1>5, <1>6, <1>7, <1>8, <1>9 DEF IInv, Types, Reclaim, AskType, DeviceType, WorkType,
     CountType, AcceptType, faultVars

LEMMA StepKeeps == IInv /\ [Next]_vars => IInv'
<1> SUFFICES ASSUME IInv, [Next]_vars PROVE IInv'
  OBVIOUS
<1>1. CASE UNCHANGED vars
  BY <1>1 DEF vars, IInv, Types, JobType, DeviceType, AskType, WorkType, CountType, FlagType, AcceptType,
     Bounded, Claimed, SendingUntouched, Recorded, SentAlone, Reclaims
<1>2. ASSUME NEW k \in Topics \cup {NoTopic}, Notify(k) PROVE IInv'
  BY <1>2, NotifyKeeps
<1>3. ASSUME NEW a \in Requests, Refresh(a) \/ Create(a) \/ AskFails(a) PROVE IInv'
  BY <1>3, RefreshKeeps, CreateKeeps, AskFailsKeeps
<1>4. ASSUME NEW d \in Devices, Register(d) \/ Unsubscribe(d) PROVE IInv'
  BY <1>4, RegistryKeeps
<1>5. CASE Tick \/ TickEnds \/ Restart \/ Reclaim
  BY <1>5, TickKeeps, TickEndsKeeps, RestartKeeps, ReclaimKeeps
<1>6. ASSUME NEW r \in Rows, Elapse(r) \/ Load(r) PROVE IInv'
  BY <1>6, ElapseKeeps, LoadKeeps
<1>7. ASSUME NEW r \in Rows, NEW answer \in {"ok", "gone", "failed"}, Answer(r, answer) PROVE IInv'
  BY <1>7, AnswerKeeps
<1>8. ASSUME NEW r \in Rows, Close(r) \/ CloseFails(r) \/ LoadFails(r) PROVE IInv'
  BY <1>8, CloseKeeps, CloseFailsKeeps, LoadFailsKeeps
<1>9. ASSUME NEW r \in Rows, MarkUsed(r) \/ Blame(r) \/ Mute(r) PROVE IInv'
  BY <1>9, SequelKeeps
<1> QED BY <1>1, <1>2, <1>3, <1>4, <1>5, <1>6, <1>7, <1>8, <1>9 DEF Next

\* The inductive invariant holds always.
THEOREM InvariantHolds == Spec => []IInv
<1>1. Init => IInv
  BY InitHolds
<1>2. IInv /\ [Next]_vars => IInv'
  BY StepKeeps
<1> QED BY <1>1, <1>2, PTL DEF Spec

\* TypeOK, with its bound of the attempts of a job: MaxAttempts, and one more
\* for every start that took up what was claimed.
THEOREM TypeCorrect == Spec => []TypeOK
<1>1. IInv => TypeOK
  <2> SUFFICES ASSUME IInv PROVE TypeOK
    OBVIOUS
  <2>1. JobType /\ DeviceType /\ AskType /\ WorkType /\ CountType /\ FlagType /\ AcceptType
    BY DEF IInv, Types
  <2>2. \A r \in Rows : job[r] # NoJob => job[r].attempts <= MaxAttempts + Reclaims
    BY DEF IInv, Bounded
  <2>3. job \in [Rows -> {NoJob} \cup
               [status : {"pending", "sending", "sent", "dead", "pruned"}, device : Devices,
                topic : Topics \cup {NoTopic}, payload : Nat, attempts : Nat, due : BOOLEAN]]
    BY <2>1 DEF JobType, JobRow, Statuses
  <2>4. work \in [Rows -> {Idle} \cup [stage : Stages, payload : Nat, attempts : Nat]]
    BY <2>1 DEF WorkType, Works
  <2> QED BY <2>1, <2>2, <2>3, <2>4 DEF TypeOK, DeviceType, AskType, CountType, FlagType, AcceptType
<1> QED BY <1>1, InvariantHolds, PTL

\* Nobody alters a job that is being sent, but a reclaim that a tick overtook.
THEOREM NobodyInterferes == Spec => []SendingUntouched
<1>1. IInv => SendingUntouched
  BY DEF IInv
<1> QED BY <1>1, InvariantHolds, PTL

\* What the push service accepted is not sent again while the process lives.
THEOREM AcceptedOnce == Spec => NotTwice
<1>1. IInv /\ [Next]_vars => [\A r \in Rows : work[r].stage = "send" /\ work'[r].stage = "ok" =>
                               <<r, work[r].payload>> \notin accepted]_vars
  <2> SUFFICES ASSUME IInv, NEW r \in Rows, work[r].stage = "send"
               PROVE  <<r, work[r].payload>> \notin accepted
    OBVIOUS
  <2>1. work[r].payload \in Nat
    BY Working DEF Stages, Works
  <2> QED BY <2>1 DEF IInv, Recorded, SentAlone
<1> QED BY <1>1, InvariantHolds, PTL DEF Spec, NotTwice

=============================================================================
