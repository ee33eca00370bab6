------------------------------ MODULE RoomVideo ------------------------------
(***************************************************************************)
(* What a room watches: the video state of a RoomRuntime, the playlist it  *)
(* draws from, the automatic pause that waits for slow viewers, and what   *)
(* the viewers' stores make of the messages they are sent.                 *)
(*                                                                         *)
(* A handler of a room message runs under the mutex `video:<room>`, so at  *)
(* most one is between two of its awaits; POST /rooms/:id/video runs the   *)
(* same change of video beside it, and the timers (heartbeat, evaluateSync)*)
(* run in every gap.  A change of video resolves the link, alters the      *)
(* state at once, waits for the database and only then tells the viewers.  *)
(* Times and drifts are abstracted to the outcomes they may have; the row  *)
(* of the room is left out, but the write of it that is awaited may fail.  *)
(***************************************************************************)
EXTENDS Naturals, Sequences, FiniteSets, SequencesExt

CONSTANTS
  Viewers,      \* clients of the room
  Urls, NoUrl,  \* links, and the null of a room without a video
  Stored,       \* bound: what the row of the room may hold at the start
  Items,        \* playlist items, each added at most once
  LinkOf,       \* [Items -> Urls]
  Mutex,        \* the worker that runs the handlers, one at a time
  RestCalls,    \* POST /rooms/:id/video requests, each a worker of its own
  Places,       \* positions in a video; 0 is its beginning
  MaxQueue,     \* MAX_PLAYLIST_ITEMS
  MaxHistory,   \* MAX_HISTORY_ITEMS
  MaxSeq        \* bound: no new intent once lastEventSeq is there

ASSUME VideoAssumption ==
  /\ NoUrl \notin Urls
  /\ LinkOf \in [Items -> Urls] /\ Stored \subseteq Urls \cup {NoUrl}
  /\ Mutex \notin RestCalls
  /\ Places \subseteq Nat /\ 0 \in Places
  /\ {MaxQueue, MaxHistory, MaxSeq} \subseteq Nat

VARIABLES
  video,    \* url, status, at (positionSec), seq (lastEventSeq), waiting, auto (autoSync)
  queue,    \* playlist
  history,  \* links of the videos played before
  out,      \* the items that left the queue
  job,      \* of each worker: the change of video it is carrying out
  unsaid,   \* the last change of video failed to be written, nobody was told
  attached, \* viewers with a session in the runtime
  welcomed, \* those whose welcome was sent
  chan,     \* messages on their way to each viewer
  view      \* each viewer's store: url, status, at, seq

listVars == <<queue, history, out>>
workVars == <<job, unsaid>>
viewVars == <<attached, welcomed, chan, view>>
vars == <<video, listVars, workVars, viewVars>>

Workers == RestCalls \cup {Mutex}
Idle == [stage |-> "idle"]
Free == job[Mutex] = Idle
NoView == [url |-> NoUrl, status |-> "none", at |-> 0, seq |-> 0]

----------------------------------------------------------------------------
(* Messages. *)

\* video_apply and video_sync carry no link; video_set_url and welcome do.
Patch(v) == [full |-> FALSE, url |-> NoUrl, status |-> v.status, at |-> v.at, seq |-> v.seq]
Snapshot(v) == [full |-> TRUE, url |-> v.url, status |-> v.status, at |-> v.at, seq |-> v.seq]
Broadcast(msgs) ==
  chan' = [c \in Viewers |-> IF c \in attached THEN chan[c] \o msgs ELSE chan[c]]

----------------------------------------------------------------------------
(* Changes of the video state, as sets of outcomes. *)

\* mutate: one numbered change.
Moved(v, status, at) == [v EXCEPT !.status = status, !.at = at, !.seq = @ + 1]

\* Mutant: the correction of the positions is not numbered.
PulseUnnumbered(v) == {[v EXCEPT !.at = p] : p \in Places}

\* forceResyncPulse: everybody to the slowest viewer's position.
Pulse(v) == {Moved(v, v.status, p) : p \in Places}

\* enterWait, called only while playing, so resumeAfterWait is set with it.
EnterWait(v) == {[Moved(v, "paused", p) EXCEPT !.waiting = TRUE] : p \in Places}

\* exitWait resumes at the effective position.
ExitWait(v) ==
  {[Moved(v, "playing", p) EXCEPT !.waiting = FALSE] :
     p \in IF v.status = "playing" THEN Places ELSE {v.at}}

\* Mutant: a wait entered by hand is left to the automatic mode.
EvaluateIfAuto(v) ==
  IF v.url = NoUrl \/ attached = {} THEN {[v EXCEPT !.waiting = FALSE]}
  ELSE IF v.waiting /\ v.auto THEN {v} \cup ExitWait(v)
  ELSE IF v.auto /\ v.status = "playing" THEN {v} \cup EnterWait(v) \cup Pulse(v)
  ELSE {v}

\* evaluateSync, by what the viewers reported: go on waiting or stop, and in
\* the automatic mode wait for who buffers or correct who drifted.
Evaluate(v) ==
  IF v.url = NoUrl \/ attached = {} THEN {[v EXCEPT !.waiting = FALSE]}
  ELSE IF v.waiting THEN {v} \cup ExitWait(v)
  ELSE IF v.auto /\ v.status = "playing" THEN {v} \cup EnterWait(v) \cup Pulse(v)
  ELSE {v}

\* The broadcast of the at most one numbered change from v to w.
Told(v, w) == IF w.seq = v.seq THEN <<>> ELSE <<Patch(w)>>

----------------------------------------------------------------------------
(* The change of video. *)

Begin(w, x, push, play) ==
  job' = [job EXCEPT ![w] = [stage |-> "resolving", url |-> x, push |-> push, play |-> play]]

\* video_set_url and its REST twin.
SetUrl(w, x) ==
  /\ job[w] = Idle /\ video.seq < MaxSeq
  /\ Begin(w, x, TRUE, FALSE)
  /\ UNCHANGED <<video, listVars, unsaid, viewVars>>

\* The link does not resolve: the room keeps its video; an item taken from the
\* queue for it is gone.
ResolveFails(w) ==
  /\ job[w].stage = "resolving"
  /\ job' = [job EXCEPT ![w] = Idle]
  /\ UNCHANGED <<video, listVars, unsaid, viewVars>>

\* Mutant: the history is not shortened.
RememberAll(push) == IF push /\ video.url # NoUrl THEN Append(history, video.url) ELSE history

\* setVideoUrl pushes the previous video unless it is stepping back.
Remember(push) ==
  LET h == IF push /\ video.url # NoUrl THEN Append(history, video.url) ELSE history
  IN IF Len(h) > MaxHistory THEN Tail(h) ELSE h

\* setVideoUrl up to its await; a running wait is not ended.
Switch(w) ==
  /\ job[w].stage = "resolving"
  /\ history' = Remember(job[w].push)
  /\ video' = [Moved(video, "paused", 0) EXCEPT !.url = job[w].url]
  /\ job' = [job EXCEPT ![w] = [@ EXCEPT !.stage = "writing"]]
  /\ UNCHANGED <<queue, out, unsaid, viewVars>>

\* setVideoUrl after its await, and the applyPlay of the playlist handlers,
\* which a viewer without the right does not get.
Switched(w) ==
  /\ job[w].stage = "writing"
  /\ job' = [job EXCEPT ![w] = Idle]
  /\ unsaid' = FALSE
  /\ \/ video' = video /\ Broadcast(<<Snapshot(video)>>)
     \/ /\ job[w].play
        /\ video' = Moved(video, "playing", 0)
        /\ Broadcast(<<Snapshot(video), Patch(video')>>)
  /\ UNCHANGED <<listVars, attached, welcomed, view>>

\* The write rejects: the handler ends with an error to its caller, after the
\* state has changed and before anybody was told.
WriteFails(w) ==
  /\ job[w].stage = "writing"
  /\ job' = [job EXCEPT ![w] = Idle]
  /\ unsaid' = TRUE
  /\ UNCHANGED <<video, listVars, viewVars>>

----------------------------------------------------------------------------
(* The playlist; every handler holds the mutex. *)

\* The items there ever were; each is added once.
Added == Range(queue) \cup out

AddItem(i) ==
  /\ Free
  /\ i \notin Added /\ Len(queue) < MaxQueue
  /\ queue' = Append(queue, i)
  /\ UNCHANGED <<video, history, out, workVars, viewVars>>

\* i leaves the queue, from the place it is found at.
Take(i) ==
  /\ Free
  /\ \E n \in 1..Len(queue) : queue[n] = i /\ queue' = RemoveAt(queue, n)
  /\ out' = out \cup {i}
  /\ UNCHANGED <<video, history, unsaid, viewVars>>

RemoveItem(i) == Take(i) /\ UNCHANGED job

\* playlist_play.
PlayItem(i) == video.seq < MaxSeq /\ Take(i) /\ Begin(Mutex, LinkOf[i], TRUE, TRUE)

\* video_ended: the link must still be the one that ended.
Ended(x) ==
  /\ video.url = x /\ queue # <<>> /\ video.seq < MaxSeq
  /\ Take(Head(queue))
  /\ Begin(Mutex, LinkOf[Head(queue)], TRUE, TRUE)

\* playlist_prev.
Previous ==
  /\ Free /\ history # <<>> /\ video.seq <= MaxSeq
  /\ history' = Front(history)
  /\ Begin(Mutex, Last(history), FALSE, TRUE)
  /\ UNCHANGED <<video, queue, out, unsaid, viewVars>>

\* The lists a viewer may send: items of a queue it knew, in another order.
Lists == UNION {{l \in [1..n -> Added] : IsInjective(l)} : n \in 0..Cardinality(Added)}

\* Mutant: only the length of the list is compared.
ReorderUnchecked(l) ==
  /\ Free
  /\ Len(l) = Len(queue)
  /\ queue' = l
  /\ UNCHANGED <<video, history, out, workVars, viewVars>>

\* playlist_reorder: as many items as there are, each of them still queued.
Reorder(l) ==
  /\ Free
  /\ Len(l) = Len(queue) /\ Range(l) \subseteq Range(queue)
  /\ queue' = l
  /\ UNCHANGED <<video, history, out, workVars, viewVars>>

----------------------------------------------------------------------------
(* Play, pause and seek, and the smart synchronisation. *)

Becomes(w, msgs) ==
  /\ video' = w
  /\ Broadcast(msgs)
  /\ UNCHANGED <<listVars, workVars, attached, welcomed, view>>

\* video_play, video_pause, video_seek.
Intent(status, at) ==
  /\ Free /\ video.seq < MaxSeq
  /\ LET w == Moved(video, status, at) IN Becomes(w, <<Patch(w)>>)

\* The timer; it stops a wait even when the bound on new intents is reached.
SyncTimer ==
  /\ video.waiting \/ video.seq < MaxSeq
  /\ \E w \in Evaluate(video) : w # video /\ Becomes(w, Told(video, w))

\* sync_all: wait for who buffers, or correct everybody and evaluate at once.
\* Nobody reports buffering in a room without a video.
SyncAll ==
  /\ Free /\ video.seq < MaxSeq
  /\ \/ /\ video.url # NoUrl /\ video.status = "playing" /\ ~video.waiting
        /\ \E w \in EnterWait(video) : Becomes(w, <<Patch(w)>>)
     \/ \E v \in Pulse(video) :
          \E w \in IF video.waiting THEN Evaluate(v) ELSE {v} :
            Becomes(w, <<Patch(v)>> \o Told(v, w))

\* sync_config: turning the automatic mode off ends a wait.
SetAutoSync(on) ==
  LET v == [video EXCEPT !.auto = on] IN
  /\ Free /\ video.auto # on /\ video.seq < MaxSeq
  /\ \E w \in IF ~on /\ v.waiting THEN ExitWait(v) ELSE Evaluate(v) :
       Becomes(w, Told(v, w))

----------------------------------------------------------------------------
(* Viewers. *)

\* heartbeat: the state again, to everybody; between two of them the viewers
\* have read what they were sent.
Heartbeat ==
  /\ video.url # NoUrl /\ attached # {}
  /\ \A c \in attached : chan[c] = <<>>
  /\ Broadcast(<<Patch(video)>>)
  /\ UNCHANGED <<video, listVars, workVars, attached, welcomed, view>>

\* sync_request of one viewer.
SyncRequest(c) ==
  /\ c \in welcomed /\ chan[c] = <<>>
  /\ chan' = [chan EXCEPT ![c] = <<Patch(video)>>]
  /\ UNCHANGED <<video, listVars, workVars, attached, welcomed, view>>

\* attachSession: broadcasts reach the viewer from now on.
Attach(c) ==
  /\ c \notin attached
  /\ attached' = attached \cup {c}
  /\ UNCHANGED <<video, listVars, workVars, welcomed, chan, view>>

\* buildWelcome has read the chat; its snapshot is of now.
Welcome(c) ==
  /\ c \in attached \ welcomed
  /\ welcomed' = welcomed \cup {c}
  /\ chan' = [chan EXCEPT ![c] = Append(@, Snapshot(video))]
  /\ UNCHANGED <<video, listVars, workVars, attached, view>>

\* The connection breaks: what was on the way is lost, the store stays.
Detach(c) ==
  /\ c \in attached
  /\ attached' = attached \ {c}
  /\ welcomed' = welcomed \ {c}
  /\ chan' = [chan EXCEPT ![c] = <<>>]
  /\ UNCHANGED <<video, listVars, workVars, view>>

\* The store after a message: one without a video ignores patches.
Applied(store, m) ==
  IF ~m.full /\ store = NoView THEN store
  ELSE [url |-> IF m.full THEN m.url ELSE store.url,
        status |-> m.status, at |-> m.at, seq |-> m.seq]

\* Mutant: a message that is not newer than the store is ignored.
AppliedIfNewer(store, m) ==
  IF m.seq > store.seq \/ (m.full /\ store = NoView) THEN Applied(store, m) ELSE store

\* Mutant: a message that is not newer than the store is ignored.
ReceiveNewer(c) ==
  /\ chan[c] # <<>>
  /\ chan' = [chan EXCEPT ![c] = Tail(@)]
  /\ view' = [view EXCEPT ![c] = AppliedIfNewer(@, Head(chan[c]))]
  /\ UNCHANGED <<video, listVars, workVars, attached, welcomed>>

\* useRoomSync.onMessage.
Receive(c) ==
  /\ chan[c] # <<>>
  /\ chan' = [chan EXCEPT ![c] = Tail(@)]
  /\ view' = [view EXCEPT ![c] = Applied(@, Head(chan[c]))]
  /\ UNCHANGED <<video, listVars, workVars, attached, welcomed>>

----------------------------------------------------------------------------
\* A room is opened with the video and status of its row.
Init ==
  /\ video \in {[url |-> x, status |-> s, at |-> 0, seq |-> 0, waiting |-> FALSE, auto |-> FALSE] :
                  x \in Stored, s \in {"playing", "paused"}}
  /\ video.url = NoUrl => video.status = "paused"
  /\ queue = <<>> /\ history = <<>> /\ out = {}
  /\ job = [w \in Workers |-> Idle] /\ unsaid = FALSE
  /\ attached = {} /\ welcomed = {}
  /\ chan = [c \in Viewers |-> <<>>]
  /\ view = [c \in Viewers |-> NoView]

Next ==
  \/ \E w \in Workers : \/ \E x \in Urls : SetUrl(w, x)
                        \/ ResolveFails(w) \/ Switch(w) \/ Switched(w) \/ WriteFails(w)
  \/ \E i \in Items : AddItem(i) \/ RemoveItem(i) \/ PlayItem(i)
  \/ \E l \in Lists : Reorder(l)
  \/ \E x \in Urls : Ended(x)
  \/ Previous
  \/ \E s \in {"playing", "paused"}, p \in Places : Intent(s, p)
  \/ SyncTimer \/ SyncAll \/ \E on \in BOOLEAN : SetAutoSync(on)
  \/ Heartbeat
  \/ \E c \in Viewers : SyncRequest(c) \/ Attach(c) \/ Welcome(c) \/ Detach(c) \/ Receive(c)

Spec == Init /\ [][Next]_vars

\* The timer goes on running, and a wait is over SYNC_WAIT_MAX_MS after it
\* began at the latest.
WaitTimesOut == SyncTimer /\ video.waiting /\ ~video'.waiting
FairSpec == Spec /\ WF_vars(WaitTimesOut)

----------------------------------------------------------------------------
(* Properties. *)

\* Types; the queue (MAX_PLAYLIST_ITEMS) and the history (MAX_HISTORY_ITEMS)
\* stay within their limits.
TypeOK ==
  /\ video \in [url : Urls \cup {NoUrl}, status : {"playing", "paused"}, at : Places,
                seq : Nat, waiting : BOOLEAN, auto : BOOLEAN]
  /\ queue \in Seq(Items) /\ Len(queue) <= MaxQueue
  /\ history \in Seq(Urls) /\ Len(history) <= MaxHistory
  /\ out \subseteq Items
  /\ job \in [Workers -> {Idle} \cup [stage : {"resolving", "writing"}, url : Urls,
                                      push : BOOLEAN, play : BOOLEAN]]
  /\ unsaid \in BOOLEAN
  /\ welcomed \subseteq attached /\ attached \subseteq Viewers
  /\ chan \in [Viewers -> Seq([full : BOOLEAN, url : Urls \cup {NoUrl}, at : Places,
                               status : {"playing", "paused"}, seq : Nat])]
  /\ view \in [Viewers -> [url : Urls \cup {NoUrl}, status : {"playing", "paused", "none"},
                           at : Places, seq : Nat]]

\* A welcomed viewer who has read everything sees what the room watches, unless
\* a change of video is at its await or ended in an error: no interleaving of
\* handlers, REST calls, timers and reconnections loses or reverses a change.
ViewFollows ==
  (~unsaid /\ \A w \in Workers : job[w].stage # "writing") =>
    \A c \in welcomed : chan[c] = <<>> =>
      view[c] = [url |-> video.url, status |-> video.status, at |-> video.at, seq |-> video.seq]

\* The number of a state identifies it: what a viewer holds under the room's
\* number is the room's position and status.  The player tells a jump from a
\* repetition by that number alone.
SeqIdentifies ==
  \A c \in Viewers : (view[c] # NoView /\ view[c].seq = video.seq) =>
    view[c].status = video.status /\ view[c].at = video.at

\* An item is queued once, and one that left the queue does not come back,
\* whatever order the lists of viewers who saw an older queue arrive in.
QueueSound == IsInjective(queue) /\ Range(queue) \cap out = {}

\* A wait, entered by the timer or by hand, always ends.
WaitEnds == video.waiting ~> ~video.waiting
=============================================================================
