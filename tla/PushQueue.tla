----------------------------- MODULE PushQueue -----------------------------
(***************************************************************************)
(* The queue of push notifications: notify() and enqueue(), the worker     *)
(* that claims the due jobs and sends them all at once, the registry of    *)
(* the devices, and the restart that takes up what a crash left behind.    *)
(* One recipient.  The row of a job survives the process; the claim, the   *)
(* answers of the push services and the enqueues that run do not.  A       *)
(* payload is the number of the notification it was built for.             *)
(*                                                                         *)
(* Left out: the texts, the categories and the flood limit (they only make *)
(* notify() do nothing), the order and the size of a batch, the journal of *)
(* deliveries, the test push.                                              *)
(***************************************************************************)
EXTENDS Naturals, FiniteSets

CONSTANTS
  Devices,      \* rows of PushSubscription; one deleted does not come back
  Topics,       \* dedupe keys: conversations
  NoTopic,      \* no dedupe key
  MaxRows,      \* jobs there ever are
  MaxSaid,      \* notifications there ever are
  MaxAttempts,  \* PushJob.maxAttempts
  MaxFailures,  \* failures in a row that deactivate a device
  MaxRestarts,  \* crashes of the process
  MaxLost       \* writes to the database that fail

ASSUME TopicAssumption == NoTopic \notin Topics
ASSUME NumbersAssumption ==
  /\ MaxRows \in Nat /\ MaxSaid \in Nat /\ MaxRestarts \in Nat /\ MaxLost \in Nat
  /\ MaxAttempts \in Nat \ {0} /\ MaxFailures \in Nat \ {0}

VARIABLES
  job,       \* row -> status, device, topic, payload, attempts, whether it is due
  device,    \* device -> state and failures in a row
  asks,      \* enqueues that run: those about to look for a row, or to create one
  said,      \* notifications so far
  work,      \* row -> processJob: its stage, the payload and the attempts claimed
  running,   \* a tick has not ended
  reclaimed, \* the start's reclaimSending has run
  late,      \* it ran after this process had claimed jobs
  restarts,
  lost,      \* failed writes so far
  stranded,  \* rows whose closing write failed, until the next start
  accepted   \* row and payload that the push service has accepted, as the worker knows

jobVars == <<job, asks, said>>
lifeVars == <<reclaimed, late, restarts>>
faultVars == <<lost, stranded>>
vars == <<job, device, asks, said, work, running, reclaimed, late, restarts, lost, stranded, accepted>>

Rows == 1..MaxRows
Requests == [device : Devices, topic : Topics \cup {NoTopic}, payload : 1..MaxSaid, create : BOOLEAN]
NoJob == [status |-> "none"]
Idle == [stage |-> "idle"]
Fresh(d, k, p) ==
  [status |-> "pending", device |-> d, topic |-> k, payload |-> p, attempts |-> 0, due |-> TRUE]
With(status) == {r \in Rows : job[r].status = status}
Busy == {r \in Rows : work[r] # Idle}
Active == {d \in Devices : device[d].state = "active"}

----------------------------------------------------------------------------
(* Producers. *)

\* notify: one enqueue for each device that is active now.  What the device
\* does until its enqueue runs is not looked at again.
Notify(k) ==
  /\ said < MaxSaid /\ Active # {}
  /\ said' = said + 1
  /\ asks' = asks \cup {[device |-> d, topic |-> k, payload |-> said + 1, create |-> FALSE] : d \in Active}
  /\ UNCHANGED <<job, device, work, running, lifeVars, faultVars, accepted>>

\* Mutant: a job that is being sent is brought up to date as well.
WaitingOrSending(a) ==
  {r \in With("pending") \cup With("sending") : a.topic # NoTopic /\ job[r].topic = a.topic
                                                 /\ job[r].device = a.device}

\* The jobs an enqueue brings up to date instead of creating one.
Waiting(a) == {r \in With("pending") : a.topic # NoTopic /\ job[r].topic = a.topic
                                        /\ job[r].device = a.device}

\* enqueue's updateMany; when it matches nothing the create is still to come.
Refresh(a) ==
  /\ a \in asks /\ ~a.create
  /\ asks' = IF Waiting(a) # {} THEN asks \ {a} ELSE (asks \ {a}) \cup {[a EXCEPT !.create = TRUE]}
  /\ job' = [r \in Rows |-> IF r \in Waiting(a) THEN Fresh(a.device, a.topic, a.payload) ELSE job[r]]
  /\ UNCHANGED <<device, said, work, running, lifeVars, faultVars, accepted>>

\* enqueue's create: another enqueue may have created one meanwhile.
Create(a) ==
  /\ a \in asks /\ a.create /\ With("none") # {}
  /\ asks' = asks \ {a}
  /\ job' = [job EXCEPT ![CHOOSE r \in With("none") : TRUE] = Fresh(a.device, a.topic, a.payload)]
  /\ UNCHANGED <<device, said, work, running, lifeVars, faultVars, accepted>>

\* enqueue rejects: notify() logs it, the push is lost.
AskFails(a) ==
  /\ a \in asks /\ lost < MaxLost
  /\ lost' = lost + 1
  /\ asks' = asks \ {a}
  /\ UNCHANGED <<job, device, said, work, running, lifeVars, stranded, accepted>>

----------------------------------------------------------------------------
(* The registry of devices, from the client. *)

SetDevice(d, v) ==
  /\ device' = [device EXCEPT ![d] = v]
  /\ UNCHANGED <<jobVars, work, running, lifeVars, faultVars, accepted>>

\* registerDevice: create, or reactivate under the same endpoint.
Register(d) ==
  /\ device[d].state # "gone"
  /\ device[d] # [state |-> "active", failures |-> 0]
  /\ SetDevice(d, [state |-> "active", failures |-> 0])

\* removeByEndpoint.
Unsubscribe(d) ==
  /\ device[d].state \in {"active", "inactive"}
  /\ SetDevice(d, [state |-> "gone", failures |-> 0])

----------------------------------------------------------------------------
(* The worker. *)

Due == {r \in With("pending") : job[r].due}

\* claimBatch: one statement takes every due job and counts the attempt.
Claim ==
  /\ job' = [r \in Rows |-> IF r \in Due THEN [job[r] EXCEPT !.status = "sending", !.attempts = @ + 1]
                            ELSE job[r]]
  /\ work' = [r \in Rows |-> IF r \in Due
                             THEN [stage |-> "load", payload |-> job[r].payload, attempts |-> job[r].attempts + 1]
                             ELSE work[r]]

\* Mutant: a tick does not look whether the one before has ended.
TickUnguarded ==
  /\ Due # {}
  /\ running' = TRUE
  /\ Claim
  /\ UNCHANGED <<device, asks, said, lifeVars, faultVars, accepted>>

\* tick: not while the one before runs.
Tick ==
  /\ ~running /\ Due # {}
  /\ running' = TRUE
  /\ Claim
  /\ UNCHANGED <<device, asks, said, lifeVars, faultVars, accepted>>

\* Promise.all: the tick ends with the last of its jobs, and once in a while
\* pruneJobs deletes closed ones that are old.
TickEnds ==
  /\ running /\ Busy = {}
  /\ running' = FALSE
  /\ \E old \in SUBSET (With("sent") \cup With("dead")) :
       job' = [r \in Rows |-> IF r \in old THEN [job[r] EXCEPT !.status = "pruned"] ELSE job[r]]
  /\ UNCHANGED <<device, asks, said, work, lifeVars, faultVars, accepted>>

\* The backoff of a job that failed has passed.
Elapse(r) ==
  /\ job[r].status = "pending" /\ ~job[r].due
  /\ job' = [job EXCEPT ![r].due = TRUE]
  /\ UNCHANGED <<device, asks, said, work, running, lifeVars, faultVars, accepted>>

Goto(r, stage) == work' = [work EXCEPT ![r].stage = stage]
Finish(r) == work' = [work EXCEPT ![r] = Idle]

\* processJob loads the device.
Load(r) ==
  /\ work[r].stage = "load"
  /\ Goto(r, IF device[job[r].device].state = "active" THEN "send" ELSE "drop")
  /\ UNCHANGED <<jobVars, device, running, lifeVars, faultVars, accepted>>

\* The push service answers, whatever the device has become meanwhile.
Answer(r, answer) ==
  /\ work[r].stage = "send"
  /\ Goto(r, answer)
  /\ accepted' = IF answer = "ok" THEN accepted \cup {<<r, work[r].payload>>} ELSE accepted
  /\ UNCHANGED <<jobVars, device, running, lifeVars, faultVars>>

\* Mutant: reschedule never gives up.
OutcomeForever(r) ==
  CASE work[r].stage = "ok" -> [job[r] EXCEPT !.status = "sent"]
    [] work[r].stage = "failed" -> [job[r] EXCEPT !.status = "pending", !.due = FALSE]
    [] OTHER -> [job[r] EXCEPT !.status = "dead"]

\* Mutant: a job whose device is no more is left as it is.
OutcomeKept(r) ==
  CASE work[r].stage = "ok" -> [job[r] EXCEPT !.status = "sent"]
    [] work[r].stage = "failed" /\ work[r].attempts < MaxAttempts ->
         [job[r] EXCEPT !.status = "pending", !.due = FALSE]
    [] work[r].stage = "drop" -> job[r]
    [] OTHER -> [job[r] EXCEPT !.status = "dead"]

\* markSent, markDead and reschedule write the row whatever its status is, and
\* reschedule goes by the attempts it was claimed with.
Outcome(r) ==
  CASE work[r].stage = "ok" -> [job[r] EXCEPT !.status = "sent"]
    [] work[r].stage = "failed" /\ work[r].attempts < MaxAttempts ->
         [job[r] EXCEPT !.status = "pending", !.due = FALSE]
    [] OTHER -> [job[r] EXCEPT !.status = "dead"]

\* After the row the device: used, deactivated, or one failure more.
Closing == {"ok", "gone", "failed", "drop"}
After(r) ==
  CASE work[r].stage = "ok" -> Goto(r, "used")
    [] work[r].stage = "gone" -> Goto(r, "mute")
    [] work[r].stage = "failed" -> Goto(r, "blame")
    [] OTHER -> Finish(r)

Close(r) ==
  /\ work[r].stage \in Closing
  /\ job' = [job EXCEPT ![r] = Outcome(r)]
  /\ After(r)
  /\ UNCHANGED <<device, asks, said, running, lifeVars, faultVars, accepted>>

\* The write of the row fails and is not reported: the job stays claimed, the
\* device is written all the same.
CloseFails(r) ==
  /\ work[r].stage \in Closing /\ lost < MaxLost
  /\ lost' = lost + 1 /\ stranded' = stranded \cup {r}
  /\ accepted' = accepted \ {<<r, work[r].payload>>}
  /\ After(r)
  /\ UNCHANGED <<jobVars, device, running, lifeVars>>

\* The device cannot be read: the job stays claimed.
LoadFails(r) ==
  /\ work[r].stage = "load" /\ lost < MaxLost
  /\ lost' = lost + 1 /\ stranded' = stranded \cup {r}
  /\ Finish(r)
  /\ UNCHANGED <<jobVars, device, running, lifeVars, accepted>>

Written(d, v) == IF device[d].state = "gone" THEN device ELSE [device EXCEPT ![d] = v]

\* markUsed, which fails when the device is deleted: the worker only logs that.
MarkUsed(r) ==
  /\ work[r].stage = "used"
  /\ LET d == job[r].device IN device' = Written(d, [device[d] EXCEPT !.failures = 0])
  /\ Finish(r)
  /\ UNCHANGED <<jobVars, running, lifeVars, faultVars, accepted>>

\* markFailure counts; the limit is judged by the count this write returned.
Blame(r) ==
  /\ work[r].stage = "blame"
  /\ LET d == job[r].device
         n == device[d].failures + 1
     IN /\ device' = Written(d, [device[d] EXCEPT !.failures = n])
        /\ IF device[d].state # "gone" /\ n >= MaxFailures THEN Goto(r, "mute") ELSE Finish(r)
  /\ UNCHANGED <<jobVars, running, lifeVars, faultVars, accepted>>

\* markFailure deactivates.
Mute(r) ==
  /\ work[r].stage = "mute"
  /\ LET d == job[r].device IN device' = Written(d, [device[d] EXCEPT !.state = "inactive"])
  /\ Finish(r)
  /\ UNCHANGED <<jobVars, running, lifeVars, faultVars, accepted>>

----------------------------------------------------------------------------
(* The process. *)

\* A crash and the next start: what was in memory is gone.
Restart ==
  /\ restarts < MaxRestarts
  /\ restarts' = restarts + 1
  /\ reclaimed' = FALSE /\ late' = FALSE
  /\ asks' = {} /\ work' = [r \in Rows |-> Idle] /\ running' = FALSE
  /\ stranded' = {} /\ accepted' = {}
  /\ UNCHANGED <<job, device, said, lost>>

\* reclaimSending, which startPushWorker does not wait for: the first ticks may
\* have claimed jobs already.
Reclaim ==
  /\ ~reclaimed
  /\ reclaimed' = TRUE
  /\ late' = (Busy # {})
  /\ job' = [r \in Rows |-> IF r \in With("sending") THEN [job[r] EXCEPT !.status = "pending"] ELSE job[r]]
  /\ UNCHANGED <<device, asks, said, work, running, restarts, faultVars, accepted>>

----------------------------------------------------------------------------
Init ==
  /\ job = [r \in Rows |-> NoJob]
  /\ device = [d \in Devices |-> [state |-> "new", failures |-> 0]]
  /\ asks = {} /\ said = 0
  /\ work = [r \in Rows |-> Idle] /\ running = FALSE
  /\ reclaimed = FALSE /\ late = FALSE /\ restarts = 0
  /\ lost = 0 /\ stranded = {} /\ accepted = {}

Next ==
  \/ \E k \in Topics \cup {NoTopic} : Notify(k)
  \/ \E a \in Requests : Refresh(a) \/ Create(a) \/ AskFails(a)
  \/ \E d \in Devices : Register(d) \/ Unsubscribe(d)
  \/ Tick \/ TickEnds \/ Restart \/ Reclaim
  \/ \E r \in Rows : \/ Elapse(r) \/ Load(r)
                     \/ \E answer \in {"ok", "gone", "failed"} : Answer(r, answer)
                     \/ Close(r) \/ CloseFails(r) \/ LoadFails(r)
                     \/ MarkUsed(r) \/ Blame(r) \/ Mute(r)

Spec == Init /\ [][Next]_vars

\* What the process does by itself: the timer runs, queries return and push
\* services answer, one way or another.
Goes ==
  \/ \E a \in Requests : Refresh(a) \/ Create(a)
  \/ Tick \/ TickEnds \/ Reclaim
  \/ \E r \in Rows : \/ Elapse(r) \/ Load(r)
                     \/ \E answer \in {"ok", "gone", "failed"} : Answer(r, answer)
                     \/ Close(r) \/ MarkUsed(r) \/ Blame(r) \/ Mute(r)

FairSpec == Spec /\ WF_vars(Goes)

----------------------------------------------------------------------------
(* Properties. *)

Sequel == {"used", "mute", "blame"}
Stages == {"load", "send"} \cup Closing \cup Sequel

\* How often the process has taken up what it found claimed.
Reclaims == restarts + IF reclaimed THEN 1 ELSE 0

\* Types.  A job is tried MaxAttempts times and once more for every reclaim,
\* which takes it up without looking at its attempts.
TypeOK ==
  /\ job \in [Rows -> {NoJob} \cup
               [status : {"pending", "sending", "sent", "dead", "pruned"}, device : Devices,
                topic : Topics \cup {NoTopic}, payload : Nat, attempts : Nat, due : BOOLEAN]]
  /\ \A r \in Rows : job[r] # NoJob => job[r].attempts <= MaxAttempts + Reclaims
  /\ device \in [Devices -> [state : {"new", "active", "inactive", "gone"}, failures : Nat]]
  /\ asks \subseteq Requests
  /\ said \in 0..MaxSaid /\ restarts \in Nat /\ lost \in Nat
  /\ work \in [Rows -> {Idle} \cup [stage : Stages, payload : Nat, attempts : Nat]]
  /\ running \in BOOLEAN /\ reclaimed \in BOOLEAN /\ late \in BOOLEAN
  /\ stranded \subseteq Rows /\ accepted \subseteq Rows \X Nat

\* While a job is being sent nobody else alters its row: the enqueue of the
\* next message does not put its text into a job that will be closed as sent
\* with the old one.  A reclaim that a tick overtook is the exception.
SendingUntouched ==
  ~late => \A r \in Rows : work[r].stage \in {"load", "send"} \cup Closing =>
             job[r].status = "sending" /\ job[r].payload = work[r].payload

\* A payload that the push service has accepted is not sent again, however the
\* ticks, the late reclaim and the enqueues interleave; only a crash, or a
\* failed write of the answer, makes the worker send it once more.
NotTwice ==
  [][\A r \in Rows : work[r].stage = "send" /\ work'[r].stage = "ok" =>
       <<r, work[r].payload>> \notin accepted]_vars

\* Every job ends: it is sent or given up, also when its device went away, its
\* push service fails for ever or the process crashes in the middle of it.
\* Only a failed write of the row leaves it, until the next start.
JobEnds ==
  \A r \in Rows : job[r].status = "pending" ~> (job[r].status \in {"sent", "dead"} \/ r \in stranded)
=============================================================================
