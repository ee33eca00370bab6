----------------------------- MODULE CallPeers -----------------------------
(***************************************************************************)
(* The voice call of a room, or a direct call, as its web clients run it:  *)
(* one peer connection per member, negotiated by "perfect negotiation"     *)
(* over messages that the server relays (hooks/useCall.ts, ws/WSClient.ts, *)
(* ws/handlers/call.ts, call/DmCallProvider.tsx). A direct call is         *)
(* modelled from its answer on, without its hang-up and its reconnection.  *)
(*                                                                         *)
(* Steps end where the code awaits: the microphone, a description being    *)
(* set, a timer, a message. React shows the state "in" in a later render   *)
(* (shown); the stores' changes by a message are rendered with it.         *)
(*                                                                         *)
(* The browser is external. A description is named by the ICE generation   *)
(* of its sender: two connections are linked when each holds the other's   *)
(* current one. An operation on a connection closed meanwhile need never   *)
(* settle (WebRTC 1.0, "if connection is closed, abort these steps").      *)
(***************************************************************************)
EXTENDS Naturals, Sequences, FiniteSets, SequencesExt

CONSTANTS
  Users,        \* members of the room
  None,         \* no connection, no job
  Rank,         \* the order of user ids: of two, the lower one is polite
  RetryLimit,   \* ICE_RESTART_LIMIT
  Restless,     \* bound: the users who leave, lose sockets, share or fail
  MaxTroubles,  \* bound: leaves, lost sockets, refused microphones, shared
                \* screens and timers before what is under way arrives, in all
  MaxClashes    \* bound: offers an impolite side takes over its own

ASSUME PeersAssumption ==
  /\ Rank \in [Users -> Nat]
  /\ \A u, v \in Users : u # v => Rank[u] # Rank[v]
  /\ Restless \subseteq Users
  /\ RetryLimit \in Nat /\ MaxTroubles \in Nat /\ MaxClashes \in Nat

Pairs   == {p \in Users \X Users : p[1] # p[2]}
Workers == {"chain", "join"}   \* the two that call handleSignal
Nothing == 0                   \* no remote description

Peers == [born : Nat, gen : Nat, sig : {"stable", "offer", "remote"}, making : BOOLEAN,
          fresh : BOOLEAN, remote : Nat, cand : BOOLEAN, held : SUBSET Nat, need : BOOLEAN,
          waiting : BOOLEAN, may : BOOLEAN, setting : BOOLEAN, ice : BOOLEAN, failed : BOOLEAN,
          restarts : Nat, reoffers : Nat, mic : BOOLEAN,
          implied : BOOLEAN]   \* its offer was described where an answer was meant
Awaited == [at : {"offer", "reply", "answer", "ice"}, gen : Nat, born : Nat]

ASSUME NoneAssumption == None \notin Peers /\ None \notin Awaited

VARIABLES
  kind,      \* whose call it is: of a "room", or "direct" between two users
  members,   \* the server: RoomRuntime.callMembers
  stage,     \* [Users -> socket: "down", "opening", "attached", "open"]
  up, down,  \* [Users -> messages under way to and from the server]
  st,        \* [Users -> stateRef: "idle", "connecting", "in"]
  asks,      \* [Users -> joins that await the microphone]
  shown,     \* the users whose hook has rendered the state "in"
  known,     \* [Users -> members of the call in the user's store]
  voice,     \* the users with an outbound stream
  pc,        \* [Pairs -> the peer connection, or None]
  early,     \* [Users -> pendingSignals]
  chain,     \* [Pairs -> signals behind the one being handled]
  replay,    \* [Users -> early signals the join still has to handle]
  job,       \* [Pairs \X Workers -> the signal being handled, or None]
  gens,      \* [Users -> ICE generations used]
  stray,     \* users with connections that nothing compares with the members
  troubles, clashes   \* what the bounds count

clientVars == <<st, asks, shown, known, voice, pc, early, chain, replay, job, gens>>
wireVars   == <<members, stage, up, down>>
bounds     == <<kind, troubles, clashes>>
rest       == <<stray, bounds>>
vars       == <<kind, members, stage, up, down, st, asks, shown, known, voice, pc,
                early, chain, replay, job, gens, stray, troubles, clashes>>

\* What happens rarely and may happen at any time.
Trouble    == troubles < MaxTroubles /\ troubles' = troubles + 1 /\ UNCHANGED <<kind, clashes>>
Troubled(u) == u \in Restless /\ Trouble

Polite(u, v) == Rank[u] < Rank[v]
-----------------------------------------------------------------------------
(* Messages *)

Join         == [t |-> "join"]
Leaving      == [t |-> "leave"]
Signal(v, s) == [t |-> "signal", peer |-> v, s |-> s]
State(M)     == [t |-> "state", members |-> M]
Joined(u)    == [t |-> "joined", u |-> u]
Left(u)      == [t |-> "left", u |-> u]

Offer(g)  == [kind |-> "offer", gen |-> g]
Answer(g) == [kind |-> "answer", gen |-> g]
Ice(g)    == [kind |-> "ice", gen |-> g]

\* WSClient.send: a message for a socket that is not open is dropped.
Sent(u, ms) == IF stage[u] = "down" THEN up ELSE [up EXCEPT ![u] = @ \o ms]

\* The server writes to the session a user holds; a dead one swallows it.
Hears(u) == stage[u] \in {"attached", "open"}
Told(who, m) == [u \in Users |-> IF u \in who /\ Hears(u) THEN Append(down[u], m) ELSE down[u]]
-----------------------------------------------------------------------------
(* Peer connections *)

\* createPeer: a new connection wants to negotiate as soon as it has a track.
NewPeer(u, g) ==
  [born |-> g, gen |-> g, sig |-> "stable", making |-> FALSE, fresh |-> FALSE, remote |-> Nothing,
   cand |-> FALSE, held |-> {}, need |-> u \in voice, waiting |-> FALSE,
   may |-> FALSE, setting |-> FALSE, ice |-> FALSE, failed |-> FALSE, restarts |-> 0, reoffers |-> 0,
   mic |-> u \in voice, implied |-> FALSE]

Has(p)     == pc[p] # None
Linked(u, v) ==
  /\ Has(<<u, v>>) /\ Has(<<v, u>>)
  /\ pc[<<u, v>>].sig = "stable" /\ pc[<<v, u>>].sig = "stable"
  /\ pc[<<u, v>>].remote = pc[<<v, u>>].gen
  /\ pc[<<v, u>>].remote = pc[<<u, v>>].gen

\* Mutant: connections of those who left stay open.
ComparedAdding(u, M) ==
  [p \in Pairs |-> IF p[1] # u \/ p[2] \notin M \/ Has(p) THEN pc[p] ELSE NewPeer(u, gens[u] + 1)]

\* The connections of u once its hook has compared them with the members M:
\* missing ones are opened and those of non-members closed.
Compared(u, M) ==
  [p \in Pairs |->
     IF p[1] # u THEN pc[p]
     ELSE IF p[2] \notin M THEN None
     ELSE IF Has(p) THEN pc[p] ELSE NewPeer(u, gens[u] + 1)]

\* The members are M in the store of u from now on.
Learn(u, M) ==
  /\ known' = [known EXCEPT ![u] = M]
  /\ pc' = IF u \in shown THEN Compared(u, M) ELSE pc
  /\ gens' = [gens EXCEPT ![u] = IF \E p \in Pairs : pc'[p] # None /\ pc[p] = None THEN @ + 1 ELSE @]
  /\ stray' = stray \ (shown \cap {u})

ClosedAll(u) == [p \in Pairs |-> IF p[1] = u THEN None ELSE pc[p]]

\* A job goes on only while the connection it began with is the current one.
Alive(p, w) == job[<<p, w>>] # None /\ Has(p) /\ job[<<p, w>>].born = pc[p].born
Busy(p)     == pc[p].making \/ \E w \in Workers : Alive(p, w) /\ job[<<p, w>>].at # "ice"

\* The browser asks for a negotiation when the connection is stable and idle;
\* a polite side that has heard nothing yet only starts a timer.
Holds(p)        == Polite(p[1], p[2]) /\ ~pc[p].may /\ pc[p].remote = Nothing
CanNegotiate(p) == /\ Has(p) /\ pc[p].need /\ pc[p].sig = "stable" /\ ~Busy(p)
                   /\ Holds(p) => ~pc[p].waiting

\* The next signal for handleSignal: of the chain of a peer, or of the join.
ChainReady(p) == chain[p] # <<>> /\ job[<<p, "chain">>] = None
JoinReady(u)  == replay[u] # <<>> /\ \A p \in Pairs : p[1] = u => job[<<p, "join">>] = None
Ready(p, w)   == IF w = "chain" THEN ChainReady(p)
                 ELSE JoinReady(p[1]) /\ Head(replay[p[1]]).peer = p[2]
NextOf(p, w)  == IF w = "chain" THEN Head(chain[p]) ELSE Head(replay[p[1]]).s

\* The microtasks of u are done: what follows is a task of the event loop.
Settled(u) == \A p \in Pairs, w \in Workers : p[1] = u => ~Ready(p, w)
-----------------------------------------------------------------------------
(* The server *)

Serve(u) ==
  /\ stage[u] = "open" /\ up[u] # <<>>
  /\ up' = [up EXCEPT ![u] = Tail(@)]
  /\ LET m == Head(up[u]) IN
     \/ /\ m.t = "join"
        /\ members' = members \cup {u}
        /\ down' = [v \in Users |->
                      IF v = u THEN Append(down[u], State(members'))
                      ELSE Told(Users, Joined(u))[v]]
     \/ /\ m.t = "leave"
        /\ members' = members \ {u}
        /\ down' = IF u \in members THEN Told(Users, Left(u)) ELSE down
     \/ /\ m.t = "signal"
        /\ down' = IF {u, m.peer} \subseteq members THEN Told({m.peer}, Signal(u, m.s)) ELSE down
        /\ UNCHANGED members
  /\ UNCHANGED <<stage, clientVars, rest>>

\* The handler of /ws still awaits the database and has no listener yet.
Unheard(u) ==
  /\ stage[u] \in {"opening", "attached"} /\ up[u] # <<>>
  /\ up' = [up EXCEPT ![u] = Tail(@)]
  /\ UNCHANGED <<members, stage, down, clientVars, rest>>

Drop(u) ==
  /\ kind = "room" /\ stage[u] # "down" /\ Troubled(u)
  /\ stage' = [stage EXCEPT ![u] = "down"]
  /\ up' = [up EXCEPT ![u] = <<>>] /\ down' = [down EXCEPT ![u] = <<>>]
  /\ UNCHANGED <<members, clientVars, stray>>

\* The grace of ten seconds is over.
Evict(u) ==
  /\ stage[u] \in {"down", "opening"} /\ u \in members
  /\ members' = members \ {u}
  /\ down' = Told(Users, Left(u))
  /\ UNCHANGED <<stage, up, clientVars, rest>>

Attach(u) ==
  /\ stage[u] = "opening"
  /\ stage' = [stage EXCEPT ![u] = "attached"]
  /\ UNCHANGED <<members, up, down, clientVars, rest>>

Welcome(u) ==
  /\ stage[u] = "attached"
  /\ stage' = [stage EXCEPT ![u] = "open"]
  /\ down' = [down EXCEPT ![u] = Append(@, State(members))]
  /\ UNCHANGED <<members, up, clientVars, rest>>

\* The socket is open again: a client in the call starts over and joins again.
Reopen(u) ==
  /\ stage[u] = "down" /\ Settled(u)
  /\ stage' = [stage EXCEPT ![u] = "opening"]
  /\ IF st[u] = "in"
     THEN up' = [up EXCEPT ![u] = <<Join>>] /\ pc' = ClosedAll(u) /\ stray' = stray \ {u}
     ELSE UNCHANGED <<up, pc, stray>>
  /\ UNCHANGED <<members, down, st, asks, shown, known, voice, early, chain, replay, job, gens>>
  /\ UNCHANGED bounds
-----------------------------------------------------------------------------
(* Entering and leaving *)

PressJoin(u) ==
  /\ st[u] = "idle" /\ Settled(u)
  /\ kind = "direct" => known[u] = Users
  /\ st' = [st EXCEPT ![u] = "connecting"]
  /\ asks' = [asks EXCEPT ![u] = @ + 1]
  /\ UNCHANGED <<wireVars, shown, known, voice, pc, early, chain, replay, job, gens, rest>>

\* The microphone is refused, and the state is idle, whatever it has become.
NoMicrophone(u) ==
  /\ kind = "room" /\ asks[u] > 0 /\ Settled(u) /\ Troubled(u)
  /\ asks' = [asks EXCEPT ![u] = @ - 1]
  /\ stray' = IF st[u] = "in" THEN stray \cup {u} ELSE stray
  /\ st' = [st EXCEPT ![u] = "idle"]
  /\ shown' = shown \ {u}
  /\ UNCHANGED <<wireVars, known, voice, pc, early, chain, replay, job, gens>>

\* Mutant: the early signals are replayed and kept.
EnterKeeping(u) ==
  /\ asks[u] > 0 /\ Settled(u)
  /\ asks' = [asks EXCEPT ![u] = @ - 1]
  /\ voice' = voice \cup {u}
  /\ up' = Sent(u, IF kind = "room" THEN <<Join>> ELSE <<>>)
  /\ st' = [st EXCEPT ![u] = "in"]
  /\ replay' = [replay EXCEPT ![u] = @ \o early[u]]
  /\ UNCHANGED <<members, stage, down, shown, known, pc, early, chain, job, gens, rest>>

\* The microphone is there: announce, be in, and take up the early signals.
\* Whether the user left meanwhile is not asked.
Enter(u) ==
  /\ asks[u] > 0 /\ Settled(u)
  /\ asks' = [asks EXCEPT ![u] = @ - 1]
  /\ voice' = voice \cup {u}
  /\ up' = Sent(u, IF kind = "room" THEN <<Join>> ELSE <<>>)
  /\ st' = [st EXCEPT ![u] = "in"]
  /\ replay' = [replay EXCEPT ![u] = @ \o early[u]]
  /\ early' = [early EXCEPT ![u] = <<>>]
  /\ UNCHANGED <<members, stage, down, shown, known, pc, chain, job, gens, rest>>

\* The render of the state "in" lets the hook look at the members.
Render(u) ==
  /\ st[u] = "in" /\ u \notin shown /\ Settled(u)
  /\ shown' = shown \cup {u}
  /\ pc' = Compared(u, known[u])
  /\ gens' = [gens EXCEPT ![u] = IF \E p \in Pairs : pc'[p] # None /\ pc[p] = None THEN @ + 1 ELSE @]
  /\ stray' = stray \ {u}
  /\ UNCHANGED <<wireVars, st, asks, known, voice, early, chain, replay, job, bounds>>

Leave(u) ==
  /\ kind = "room" /\ st[u] # "idle" /\ Settled(u) /\ Troubled(u)
  /\ up' = Sent(u, <<Leaving>>)
  /\ early' = [early EXCEPT ![u] = <<>>]
  /\ pc' = ClosedAll(u)
  /\ voice' = voice \ {u}
  /\ st' = [st EXCEPT ![u] = "idle"]
  /\ shown' = shown \ {u}
  /\ stray' = stray \ {u}
  /\ UNCHANGED <<members, stage, down, asks, known, chain, replay, job, gens>>

\* A shared screen adds a track to every connection.
ShareScreen(u) ==
  /\ st[u] = "in" /\ Settled(u) /\ Troubled(u)
  /\ \E p \in Pairs : p[1] = u /\ Has(p)
  /\ pc' = [p \in Pairs |-> IF p[1] = u /\ Has(p) THEN [pc[p] EXCEPT !.need = TRUE] ELSE pc[p]]
  /\ UNCHANGED <<wireVars, st, asks, shown, known, voice, early, chain, replay, job, gens, stray>>
-----------------------------------------------------------------------------
(* Messages and signals *)

\* Mutant: signals are handled before the user is in.
DeliverAtOnce(u) ==
  /\ stage[u] # "down" /\ down[u] # <<>> /\ Settled(u)
  /\ down' = [down EXCEPT ![u] = Tail(@)]
  /\ LET m == Head(down[u]) IN
     \/ m.t = "state" /\ Learn(u, m.members) /\ UNCHANGED chain
     \/ m.t = "joined" /\ Learn(u, known[u] \cup {m.u}) /\ UNCHANGED chain
     \/ m.t = "left" /\ Learn(u, known[u] \ {m.u}) /\ UNCHANGED chain
     \/ /\ m.t = "signal"
        /\ chain' = [chain EXCEPT ![<<u, m.peer>>] = Append(@, m.s)]
        /\ UNCHANGED <<known, pc, gens, stray>>
  /\ UNCHANGED <<members, stage, up, st, asks, shown, voice, early, replay, job, bounds>>

\* Mutant: signals that come before the user is in are dropped.
DeliverDropping(u) ==
  /\ stage[u] # "down" /\ down[u] # <<>> /\ Settled(u)
  /\ down' = [down EXCEPT ![u] = Tail(@)]
  /\ LET m == Head(down[u]) IN
     \/ m.t = "state" /\ Learn(u, m.members) /\ UNCHANGED chain
     \/ m.t = "joined" /\ Learn(u, known[u] \cup {m.u}) /\ UNCHANGED chain
     \/ m.t = "left" /\ Learn(u, known[u] \ {m.u}) /\ UNCHANGED chain
     \/ /\ m.t = "signal"
        /\ chain' = IF st[u] = "in" THEN [chain EXCEPT ![<<u, m.peer>>] = Append(@, m.s)] ELSE chain
        /\ UNCHANGED <<known, pc, gens, stray>>
  /\ UNCHANGED <<members, stage, up, st, asks, shown, voice, early, replay, job, bounds>>

Deliver(u) ==
  /\ stage[u] # "down" /\ down[u] # <<>> /\ Settled(u)
  /\ down' = [down EXCEPT ![u] = Tail(@)]
  /\ LET m == Head(down[u]) IN
     \/ m.t = "state" /\ Learn(u, m.members) /\ UNCHANGED <<early, chain>>
     \/ m.t = "joined" /\ Learn(u, known[u] \cup {m.u}) /\ UNCHANGED <<early, chain>>
     \/ m.t = "left" /\ Learn(u, known[u] \ {m.u}) /\ UNCHANGED <<early, chain>>
     \/ /\ m.t = "signal"
        /\ IF st[u] = "in"
           THEN chain' = [chain EXCEPT ![<<u, m.peer>>] = Append(@, m.s)] /\ UNCHANGED early
           ELSE early' = [early EXCEPT ![u] = Append(@, [peer |-> m.peer, s |-> m.s])]
                /\ UNCHANGED chain
        /\ UNCHANGED <<known, pc, gens, stray>>
  /\ UNCHANGED <<members, stage, up, st, asks, shown, voice, replay, job, bounds>>

\* The synchronous beginning of handleSignal for connection r of pair p:
\* the connection afterwards, and what is awaited.
\* Mutant: the flag of an offer being made is not looked at.
CollidesStable(r) == ~(r.sig = "stable" \/ r.setting)

Collides(r) == r.making \/ ~(r.sig = "stable" \/ r.setting)

Begun(p, r, s) ==
  IF s.kind = "answer" THEN [r EXCEPT !.setting = TRUE]
  ELSE IF s.kind = "ice" /\ r.remote = Nothing THEN [r EXCEPT !.held = @ \cup {s.gen}]
  ELSE IF s.kind = "ice" /\ ~Busy(p) THEN [r EXCEPT !.cand = @ \/ s.gen = r.remote]
  ELSE r

Awaits(p, r, s) ==
  IF \/ s.kind = "ice" /\ (r.remote = Nothing \/ ~Busy(p))
     \/ s.kind = "offer" /\ Collides(r) /\ ~Polite(p[1], p[2])
  THEN None
  ELSE [at |-> s.kind, gen |-> s.gen, born |-> r.born]

\* An early signal is replayed even for somebody who left meanwhile.
Begin(p, w) ==
  LET u == p[1]
      s == NextOf(p, w)
      r == IF Has(p) THEN pc[p] ELSE NewPeer(u, gens[u] + 1)
  IN /\ Ready(p, w)
     /\ IF w = "chain"
        THEN chain' = [chain EXCEPT ![p] = Tail(@)] /\ UNCHANGED replay
        ELSE replay' = [replay EXCEPT ![u] = Tail(@)] /\ UNCHANGED chain
     /\ gens' = IF Has(p) THEN gens ELSE [gens EXCEPT ![u] = @ + 1]
     /\ pc' = [pc EXCEPT ![p] = Begun(p, r, s)]
     /\ job' = [job EXCEPT ![<<p, w>>] = Awaits(p, r, s)]
     /\ stray' = IF w = "join" /\ ~Has(p) /\ u \in shown /\ p[2] \notin known[u]
                 THEN stray \cup {u} ELSE stray
     /\ UNCHANGED <<wireVars, st, asks, shown, known, voice, early, bounds>>

\* addIceCandidate, once what the connection does before it is done.
AddCandidate(p, w) ==
  /\ Alive(p, w) /\ job[<<p, w>>].at = "ice" /\ ~Busy(p)
  /\ pc' = [pc EXCEPT ![p].cand = @ \/ job[<<p, w>>].gen = pc[p].remote]
  /\ job' = [job EXCEPT ![<<p, w>>] = None]
  /\ UNCHANGED <<wireVars, st, asks, shown, known, voice, early, chain, replay, gens, rest>>

\* The peer's description g holds: candidates that came before it are added.
Described(r, g) ==
  [r EXCEPT !.remote = g,
            !.cand = IF r.remote = g THEN r.cand ELSE g \in r.held,
            !.held = {},
            !.ice = r.ice /\ r.remote = g,
            !.failed = r.failed /\ r.remote = g]

\* setRemoteDescription(offer), rolling an own offer back. A peer that
\* restarted its ICE makes this side restart too.
SetOffer(p, w) ==
  LET u == p[1]
      r == pc[p]
      g == job[<<p, w>>].gen
      restarted == r.remote \notin {Nothing, g}
      clash == r.sig = "offer" /\ r.setting /\ ~Polite(p[1], p[2])
  IN /\ Alive(p, w) /\ job[<<p, w>>].at = "offer" /\ ~r.making
     /\ pc' = [pc EXCEPT ![p] =
                 [Described(r, g) EXCEPT !.sig = "remote",
                    !.need = r.need \/ r.sig = "offer",
                    !.gen = IF restarted THEN gens[u] + 1 ELSE r.gen]]
     /\ gens' = IF restarted THEN [gens EXCEPT ![u] = @ + 1] ELSE gens
     /\ job' = [job EXCEPT ![<<p, w>>].at = "reply"]
     /\ clash => clashes < MaxClashes
     /\ clashes' = IF clash THEN clashes + 1 ELSE clashes
     /\ UNCHANGED <<wireVars, st, asks, shown, known, voice, early, chain, replay>>
     /\ UNCHANGED <<kind, stray, troubles>>

\* setLocalDescription, and the answer is sent. If the connection is stable
\* again, since both workers took an offer up, it is an offer that is described.
Reply(p, w) ==
  LET r == pc[p]
  IN /\ Alive(p, w) /\ job[<<p, w>>].at = "reply"
     /\ pc' = [pc EXCEPT ![p] =
                 IF r.sig = "remote" THEN [r EXCEPT !.sig = "stable"]
                 ELSE [r EXCEPT !.sig = "offer", !.implied = @ \/ r.sig = "stable"]]
     /\ up' = Sent(p[1], <<Signal(p[2], Answer(r.gen)), Signal(p[2], Ice(r.gen))>>)
     /\ job' = [job EXCEPT ![<<p, w>>] = None]
     /\ UNCHANGED <<members, stage, down, st, asks, shown, known, voice, early, chain, replay, gens, rest>>

\* setRemoteDescription(answer): refused unless an offer is out.
SetAnswer(p, w) ==
  LET r == pc[p]
  IN /\ Alive(p, w) /\ job[<<p, w>>].at = "answer" /\ ~r.making
     /\ pc' = IF r.sig = "offer"
              THEN [pc EXCEPT ![p] = [Described(r, job[<<p, w>>].gen) EXCEPT
                                        !.sig = "stable", !.setting = FALSE]]
              ELSE pc
     /\ job' = [job EXCEPT ![<<p, w>>] = None]
     /\ UNCHANGED <<wireVars, st, asks, shown, known, voice, early, chain, replay, gens, rest>>
-----------------------------------------------------------------------------
(* Negotiation and its timers *)

Negotiate(p) ==
  /\ CanNegotiate(p) /\ Settled(p[1])
  /\ pc' = [pc EXCEPT ![p] = IF Holds(p) THEN [@ EXCEPT !.waiting = TRUE]
                             ELSE [@ EXCEPT !.making = TRUE, !.need = FALSE]]
  /\ UNCHANGED <<wireVars, st, asks, shown, known, voice, early, chain, replay, job, gens, rest>>

\* setLocalDescription has made the offer; a restart gives it a new generation.
Offered(p) ==
  LET u == p[1]
      r == pc[p]
      g == IF r.fresh THEN gens[u] + 1 ELSE r.gen
  IN /\ Has(p) /\ r.making
     /\ pc' = [pc EXCEPT ![p] = [r EXCEPT !.making = FALSE, !.fresh = FALSE,
                                          !.sig = "offer", !.gen = g,
                                          !.implied = FALSE]]
     /\ gens' = [gens EXCEPT ![u] = IF r.fresh THEN g ELSE @]
     /\ up' = Sent(u, <<Signal(p[2], Offer(g)), Signal(p[2], Ice(g))>>)
     /\ UNCHANGED <<members, stage, down, st, asks, shown, known, voice, early, chain, replay, job, rest>>

Mirror(p)     == <<p[2], p[1]>>
CanConnect(p) == /\ Linked(p[1], p[2]) /\ pc[p].cand /\ pc[Mirror(p)].cand
                 /\ ~(pc[p].ice /\ pc[Mirror(p)].ice)

\* Nothing is under way between the two: a timer of seconds is due.
Quiet(p) ==
  /\ \A u \in {p[1], p[2]} : /\ stage[u] = "open" /\ up[u] = <<>> /\ down[u] = <<>>
                             /\ Settled(u) /\ (st[u] = "in" => u \in shown)
  /\ \A q \in {p, Mirror(p)} : ~CanNegotiate(q) /\ ~CanConnect(q) /\ (Has(q) => ~pc[q].making)
                               /\ \A w \in Workers : ~Alive(q, w)

Due(p) ==
  /\ Has(p) /\ ~Busy(p) /\ Settled(p[1])
  /\ IF Quiet(p) THEN UNCHANGED rest ELSE Trouble /\ UNCHANGED stray

TimerVars == <<wireVars, st, asks, shown, known, voice, early, chain, replay, job, gens>>

\* No offer came to the polite side within its wait: it begins itself.
StopWaiting(p) ==
  /\ Due(p) /\ pc[p].waiting
  /\ pc' = [pc EXCEPT ![p] =
              IF @.sig = "stable" /\ @.remote = Nothing
              THEN [@ EXCEPT !.waiting = FALSE, !.may = TRUE, !.making = TRUE, !.need = FALSE]
              ELSE [@ EXCEPT !.waiting = FALSE]]
  /\ UNCHANGED TimerVars

\* Mutant: an offer without an answer is not made again.
ReofferNever(p) == FALSE /\ UNCHANGED vars

\* The watchdog of the impolite side: an offer without an answer is made again,
Reoffer(p) ==
  /\ Due(p) /\ ~Polite(p[1], p[2])
  /\ pc[p].sig = "offer" /\ pc[p].reoffers < RetryLimit
  /\ pc' = [pc EXCEPT ![p].sig = "stable", ![p].need = TRUE, ![p].fresh = TRUE, ![p].reoffers = @ + 1]
  /\ UNCHANGED TimerVars

\* and a connection that is not up looks for a path again.
Restart(p) ==
  /\ Due(p) /\ ~Polite(p[1], p[2])
  /\ pc[p].sig = "stable" /\ ~pc[p].ice /\ pc[p].restarts < RetryLimit
  /\ pc' = [pc EXCEPT ![p].need = TRUE, ![p].fresh = TRUE, ![p].restarts = @ + 1]
  /\ UNCHANGED TimerVars

IceUp(p) ==
  LET q == Mirror(p)
  IN /\ CanConnect(p)
     /\ pc' = [pc EXCEPT ![p].ice = TRUE, ![p].restarts = 0, ![q].ice = TRUE, ![q].restarts = 0]
     /\ UNCHANGED <<wireVars, st, asks, shown, known, voice, early, chain, replay, job, gens, rest>>

\* The other end closed its connection or has another one.
IceLost(p) ==
  LET q == Mirror(p)
  IN /\ Has(p) /\ pc[p].ice
     /\ ~(Has(q) /\ pc[p].remote >= pc[q].born)
     /\ pc' = [pc EXCEPT ![p].ice = FALSE]
     /\ UNCHANGED <<wireVars, st, asks, shown, known, voice, early, chain, replay, job, gens, rest>>

\* The browser gave up on a path, on either side.
IceFails(p) ==
  /\ Has(p) /\ ~Busy(p) /\ Settled(p[1])
  /\ ~pc[p].ice /\ ~pc[p].failed /\ pc[p].remote # Nothing
  /\ Troubled(p[1])
  /\ pc' = [pc EXCEPT ![p].need = TRUE, ![p].fresh = TRUE, ![p].failed = TRUE]
  /\ UNCHANGED <<TimerVars, stray>>
-----------------------------------------------------------------------------
Init ==
  /\ \/ kind = "room" /\ members = {} /\ down = [u \in Users |-> <<>>]
     \/ kind = "direct" /\ members = Users /\ down = [u \in Users |-> <<State(Users)>>]
  /\ stage = [u \in Users |-> "open"] /\ up = [u \in Users |-> <<>>]
  /\ st = [u \in Users |-> "idle"] /\ asks = [u \in Users |-> 0]
  /\ shown = {} /\ known = [u \in Users |-> {}] /\ voice = {}
  /\ pc = [p \in Pairs |-> None]
  /\ early = [u \in Users |-> <<>>] /\ chain = [p \in Pairs |-> <<>>]
  /\ replay = [u \in Users |-> <<>>]
  /\ job = [x \in Pairs \X Workers |-> None]
  /\ gens = [u \in Users |-> 0]
  /\ stray = {} /\ troubles = 0 /\ clashes = 0

Machine(u) == Serve(u) \/ Attach(u) \/ Welcome(u) \/ Reopen(u) \/ Deliver(u) \/ Render(u)
Engine(p)  == \/ Negotiate(p) \/ Offered(p) \/ IceUp(p) \/ IceLost(p)
              \/ \E w \in Workers : Begin(p, w) \/ AddCandidate(p, w) \/ SetOffer(p, w) \/ Reply(p, w) \/ SetAnswer(p, w)
Timers(p)  == StopWaiting(p) \/ Reoffer(p) \/ Restart(p)

Next ==
  \/ \E u \in Users :
       \/ Machine(u) \/ Unheard(u) \/ Drop(u) \/ Evict(u)
       \/ PressJoin(u) \/ NoMicrophone(u) \/ Enter(u) \/ Leave(u) \/ ShareScreen(u)
  \/ \E p \in Pairs : Engine(p) \/ Timers(p) \/ IceFails(p)

Spec == Init /\ [][Next]_vars

\* The network delivers, the event loop goes on, timers fire when nothing is
\* under way, and a client whose socket is lost opens another.
Goes == \/ \E u \in Users : Machine(u)
        \/ \E p \in Pairs : Engine(p) \/ (Quiet(p) /\ Timers(p))

Fairness == WF_vars(Goes)

FairSpec == Spec /\ Fairness
-----------------------------------------------------------------------------
(* What the call promises. *)

\* Every variable has its type, the generations a connection knows exist, and
\* signals wait for the user to enter only until then.
TypeOK ==
  /\ members \subseteq Users /\ shown \subseteq Users /\ voice \subseteq Users /\ stray \subseteq Users
  /\ \A u \in Users : /\ stage[u] \in {"down", "opening", "attached", "open"}
                      /\ st[u] \in {"idle", "connecting", "in"}
                      /\ known[u] \subseteq Users
                      /\ st[u] = "in" => early[u] = <<>>
  /\ \A p \in Pairs : Has(p) => /\ pc[p].sig \in {"stable", "offer", "remote"}
                                /\ pc[p].born <= pc[p].gen /\ pc[p].gen <= gens[p[1]]
                                /\ pc[p].remote <= gens[p[2]]

\* An answer the browser refused has left isSettingRemoteAnswer set.
Misled(p) == \E q \in {p, Mirror(p)} : Has(q) /\ pc[q].setting

\* A chain waits for a description of a connection that was closed meanwhile.
Stuck(p) == \E q \in {p, Mirror(p)}, w \in Workers : job[<<q, w>>] # None /\ ~Alive(q, w)

\* Joining, leaving, members, signals and a new socket open and close
\* connections; when it is quiet there is none to somebody who is not there.
\* Excepted is what the code leaves open: a call that ended because the
\* microphone was refused to a join before it, and an early signal that is
\* replayed for somebody gone after the members were compared.
NoGhost ==
  \A p \in Pairs : Quiet(p) /\ Has(p) /\ p[1] \notin stray =>
    p[1] \in shown /\ p[2] \in known[p[1]]

\* And whoever opened it, a signal that came early or the list of members, it
\* carries the microphone: nobody is in the call and mute to one of the others.
CarriesVoice == \A p \in Pairs : Quiet(p) /\ Has(p) /\ p[1] \in voice => pc[p].mic

Together(p) ==
  \A u \in {p[1], p[2]} : u \in members /\ st[u] = "in" /\ stage[u] = "open" /\ u \in voice
Up(p)       == Linked(p[1], p[2]) /\ pc[p].ice /\ pc[Mirror(p)].ice

\* Whether offers cross is asked before the awaits of the handler and holds
\* after them: the impolite side never gives up its own offer for another,
\* unless the flag is left set, or the offer is one that it never made: both
\* workers took offers up, and the later answer described it.
OfferKept ==
  [][\A p \in Pairs :
       /\ ~Polite(p[1], p[2]) /\ pc[p] # None /\ pc'[p] # None
       /\ pc[p].sig = "offer" /\ ~pc[p].setting /\ ~pc[p].implied
       => pc'[p].sig # "remote"]_vars

\* Two users who stay in the call are connected in the end, whoever offered
\* first and whatever was lost, unless a chain is stuck or a flag is left set.
CallConnects ==
  \A p \in {q \in Pairs : Polite(q[1], q[2])} :
    []<>(Together(p) => Up(p) \/ Stuck(p) \/ Misled(p))

-----------------------------------------------------------------------------
(* What a comment says and the code does not do. *)

\* useCall.ts:24: the pattern of perfect negotiation. The impolite side never
\* gives up its own offer for the offer of the other.
ImpoliteKeepsOffer ==
  [][\A p \in Pairs :
       /\ ~Polite(p[1], p[2]) /\ pc[p] # None /\ pc'[p] # None
       /\ pc[p].sig = "offer"
       => pc'[p].sig # "remote"]_vars
=============================================================================
