------------------------------- MODULE DmCall -------------------------------
(***************************************************************************)
(* Calls between two users in direct messages, server side: the in-memory  *)
(* registry of calls (calls/DmCallHub.ts), the handlers of the messages    *)
(* clients send (calls/realtime.ts), the timers, the connections of        *)
(* `/ws/user` and the room a user may be in meanwhile.                     *)
(*                                                                         *)
(* An invitation reserves the pair, awaits the database, creates the call, *)
(* awaits again to announce it; everything else is synchronous.  A restart *)
(* of the process, or an invitation whose database call rejects (nothing   *)
(* catches it), loses the registry.                                        *)
(***************************************************************************)
EXTENDS Naturals, FiniteSets

CONSTANTS
  Users,
  Conns,        \* connections to /ws/user, each used once
  UserOf,       \* [Conns -> Users]
  NoConn, NoCall, Nobody,
  MaxCalls,     \* bound: calls created in a behaviour
  MaxCrashes,   \* bound: restarts in a behaviour
  InviteLimit,  \* INVITE_LIMIT: invitations of one user to another per window
  Dials,        \* who may call whom: pairs <<caller, callee>>
  Visitors      \* users who also go to rooms

ASSUME CallAssumption ==
  /\ UserOf \in [Conns -> Users]
  /\ NoConn \notin Conns /\ Nobody \notin Users
  /\ MaxCalls \in Nat /\ MaxCrashes \in Nat
  /\ NoCall \notin 1..MaxCalls
  /\ InviteLimit \in Nat \ {0}
  /\ Dials \subseteq Users \X Users /\ Visitors \subseteq Users

VARIABLES
  conn,       \* each connection: idle, open, closed
  greeting,   \* connections whose hello is being prepared
  returning,  \* <<connection, call>>: dmcall_rejoin on its way
  phase,      \* of each call: none, ringing, active, ended, lost
  from, to,   \* callerId, calleeId
  fromConn, toConn,  \* callerConnId, calleeConnId
  connected,  \* <<call, user>>
  answered,   \* calls with answeredAt
  reason,     \* endReason
  byUser,     \* user -> call
  byPair,     \* pair -> call
  reserved,   \* pairs an invitation has reserved
  timers,     \* <<call, key>> of the armed timers
  inviting,   \* invitations awaiting the checks: <<connection, callee>>
  announcing, \* calls created, their announcement awaited: <<call, "ring" or "offline">>
  recent,     \* invitations of the window: <<from, to>> -> how many
  finishing,  \* calls whose record is being written
  log,        \* the record of each call in the conversation
  writes,     \* how many were written
  room,       \* each user: out of any room, passing the check, in
  crashes

tabVars == <<conn, greeting, returning>>
callVars == <<phase, from, to, fromConn, toConn, connected, answered, reason, byUser, byPair,
              timers, finishing>>
inviteVars == <<reserved, inviting, announcing, recent>>
logVars == <<log, writes>>
vars == <<tabVars, callVars, inviteVars, logVars, room, crashes>>

Calls == 1..MaxCalls
Pairs == {{u, v} : u \in Users, v \in Users}
Live == {"ringing", "active"}
Phases == Live \cup {"none", "ended", "lost"}
Reasons == {"hangup", "declined", "cancelled", "missed", "failed"}
TimerKeys == {"ring", "connect", "grace", "max"}

----------------------------------------------------------------------------
(* Reading the registry. *)

IsLive(c) == phase[c] \in Live
IsBusy(u) == byUser[u] # NoCall \/ \E p \in reserved : u \in p
Parties(c) == {from[c], to[c]}
PairOf(i) == {UserOf[i[1]], i[2]}
HasConnection(u) == \E k \in Conns : UserOf[k] = u /\ conn[k] = "open"
ConnOf(c, u) == IF from[c] = u THEN fromConn[c] ELSE toConn[c]
Leads(k, c) == c # NoCall /\ ConnOf(c, UserOf[k]) = k
DialsFrom(u, c) == phase[c] = "ringing" /\ from[c] = u

\* What the conversation records of the way a call ended.
OutcomeOf(why) == IF why = "hangup" THEN "completed" ELSE why

----------------------------------------------------------------------------
(* Transitions of the registry. *)

\* Mutant: the timers are left armed.
EndKeepingTimers(c, why) ==
  /\ IsLive(c)
  /\ phase' = [phase EXCEPT ![c] = "ended"]
  /\ reason' = [reason EXCEPT ![c] = why]
  /\ byUser' = [u \in Users |-> IF u \in Parties(c) THEN NoCall ELSE byUser[u]]
  /\ byPair' = [p \in Pairs |-> IF p = Parties(c) THEN NoCall ELSE byPair[p]]
  /\ finishing' = finishing \cup {c}
  /\ UNCHANGED <<from, to, fromConn, toConn, connected, answered, timers>>

\* Mutant: a call that has ended may end once more.
EndAgain(c, why) ==
  /\ phase[c] # "none"
  /\ phase' = [phase EXCEPT ![c] = "ended"]
  /\ reason' = [reason EXCEPT ![c] = why]
  /\ timers' = {t \in timers : t[1] # c}
  /\ byUser' = [u \in Users |-> IF u \in Parties(c) THEN NoCall ELSE byUser[u]]
  /\ byPair' = [p \in Pairs |-> IF p = Parties(c) THEN NoCall ELSE byPair[p]]
  /\ finishing' = finishing \cup {c}
  /\ UNCHANGED <<from, to, fromConn, toConn, connected, answered>>

\* end(): only a live call ends, its timers and its place in the indexes go.
End(c, why) ==
  /\ IsLive(c)
  /\ phase' = [phase EXCEPT ![c] = "ended"]
  /\ reason' = [reason EXCEPT ![c] = why]
  /\ timers' = {t \in timers : t[1] # c}
  /\ byUser' = [u \in Users |-> IF u \in Parties(c) THEN NoCall ELSE byUser[u]]
  /\ byPair' = [p \in Pairs |-> IF p = Parties(c) THEN NoCall ELSE byPair[p]]
  /\ finishing' = finishing \cup {c}
  /\ UNCHANGED <<from, to, fromConn, toConn, connected, answered>>

\* Mutant: a call that is over may be answered.
AnswerLate(c, k) ==
  /\ phase[c] # "none"
  /\ phase' = [phase EXCEPT ![c] = "active"]
  /\ answered' = answered \cup {c}
  /\ toConn' = [toConn EXCEPT ![c] = k]
  /\ timers' = (timers \ {<<c, "ring">>}) \cup {<<c, "connect">>}
  /\ UNCHANGED <<from, to, fromConn, connected, reason, byUser, byPair, finishing>>

\* accept(), from the connection k.
Answer(c, k) ==
  /\ phase[c] = "ringing"
  /\ phase' = [phase EXCEPT ![c] = "active"]
  /\ answered' = answered \cup {c}
  /\ toConn' = [toConn EXCEPT ![c] = k]
  /\ timers' = (timers \ {<<c, "ring">>}) \cup {<<c, "connect">>}
  /\ UNCHANGED <<from, to, fromConn, connected, reason, byUser, byPair, finishing>>

----------------------------------------------------------------------------
(* Connections. *)

OpenConn(k) ==
  /\ conn[k] = "idle"
  /\ conn' = [conn EXCEPT ![k] = "open"]
  /\ greeting' = greeting \cup {k}
  /\ UNCHANGED <<returning, callVars, inviteVars, logVars, room, crashes>>

\* Mutant: the client asks to rejoin whether there is a call or not.
HelloAlways(k) ==
  /\ k \in greeting
  /\ greeting' = greeting \ {k}
  /\ returning' = returning \cup {<<k, byUser[UserOf[k]]>>}
  /\ UNCHANGED <<conn, callVars, inviteVars, logVars, room, crashes>>

\* hello carries the user's call; the client asks to rejoin it.
Hello(k) ==
  LET c == byUser[UserOf[k]] IN
  /\ k \in greeting
  /\ greeting' = greeting \ {k}
  /\ returning' = IF c = NoCall THEN returning ELSE returning \cup {<<k, c>>}
  /\ UNCHANGED <<conn, callVars, inviteVars, logVars, room, crashes>>

\* Mutant: any tab of the user that closes ends the ringing.
CloseAnyTab(k) ==
  LET u == UserOf[k]
      c == byUser[u]
  IN /\ conn[k] = "open"
     /\ conn' = [conn EXCEPT ![k] = "closed"]
     /\ greeting' = greeting \ {k}
     /\ returning' = {x \in returning : x[1] # k}
     /\ IF c = NoCall THEN UNCHANGED callVars ELSE End(c, "cancelled")
     /\ UNCHANGED <<inviteVars, logVars, room, crashes>>

\* noteConnectionClosed: the ringing of the caller's tab is cancelled, a
\* conversation gets the grace timer.
CloseConn(k) ==
  LET u == UserOf[k]
      c == byUser[u]
  IN /\ conn[k] = "open"
     /\ conn' = [conn EXCEPT ![k] = "closed"]
     /\ greeting' = greeting \ {k}
     /\ returning' = {x \in returning : x[1] # k}
     /\ \/ ~Leads(k, c) /\ UNCHANGED callVars
        \/ Leads(k, c) /\ DialsFrom(u, c) /\ End(c, "cancelled")
        \/ /\ Leads(k, c) /\ ~DialsFrom(u, c)
           /\ timers' = timers \cup {<<c, "grace">>}
           /\ UNCHANGED <<phase, from, to, fromConn, toConn, connected, answered, reason,
                          byUser, byPair, finishing>>
     /\ UNCHANGED <<inviteVars, logVars, room, crashes>>

----------------------------------------------------------------------------
(* The invitation. *)

\* An invitation to somebody who is ringing us answers that call.
CounterCall(k, v) ==
  LET u == UserOf[k]
      c == byPair[{u, v}]
  IN /\ conn[k] = "open" /\ u # v
     /\ c # NoCall
     /\ to[c] = u
     /\ Answer(c, k)
     /\ UNCHANGED <<tabVars, inviteVars, logVars, room, crashes>>

\* Mutant: reserve() looks at the inviting side only.
InviteBusyPeer(k, v) ==
  LET u == UserOf[k] IN
  /\ conn[k] = "open" /\ u # v
  /\ room[u] # "in" /\ room[v] # "in"
  /\ recent[<<u, v>>] < InviteLimit
  /\ ~IsBusy(u)
  /\ reserved' = reserved \cup {{u, v}}
  /\ inviting' = inviting \cup {<<k, v>>}
  /\ UNCHANGED <<tabVars, callVars, announcing, recent, logVars, room, crashes>>

\* Mutant: the limit is not looked at.
InviteUnlimited(k, v) ==
  LET u == UserOf[k] IN
  /\ conn[k] = "open" /\ u # v
  /\ room[u] # "in" /\ room[v] # "in"
  /\ ~IsBusy(u) /\ ~IsBusy(v)
  /\ reserved' = reserved \cup {{u, v}}
  /\ inviting' = inviting \cup {<<k, v>>}
  /\ UNCHANGED <<tabVars, callVars, announcing, recent, logVars, room, crashes>>

\* The synchronous part: neither is in a room, the limit, the reservation.
Invite(k, v) ==
  LET u == UserOf[k] IN
  /\ conn[k] = "open" /\ u # v
  /\ room[u] # "in" /\ room[v] # "in"
  /\ recent[<<u, v>>] < InviteLimit
  /\ ~IsBusy(u) /\ ~IsBusy(v)
  /\ reserved' = reserved \cup {{u, v}}
  /\ inviting' = inviting \cup {<<k, v>>}
  /\ UNCHANGED <<tabVars, callVars, announcing, recent, logVars, room, crashes>>

\* Mutant: a refusal forgets the reservation.
DenyKeepingReserve(i) ==
  /\ i \in inviting
  /\ inviting' = inviting \ {i}
  /\ UNCHANGED <<tabVars, callVars, reserved, announcing, recent, logVars, room, crashes>>

\* One of the awaited checks refuses: the reservation is released.
Deny(i) ==
  /\ i \in inviting
  /\ inviting' = inviting \ {i}
  /\ reserved' = reserved \ {{UserOf[i[1]], i[2]}}
  /\ UNCHANGED <<tabVars, callVars, announcing, recent, logVars, room, crashes>>

\* Mutant: the call is created without its fuse.
CreateUnfused(i, c) ==
  LET k == i[1]
      u == UserOf[k]
      v == i[2]
  IN /\ i \in inviting
     /\ phase[c] = "none" /\ \A d \in 1..(c - 1) : phase[d] # "none"
     /\ inviting' = inviting \ {i}
     /\ reserved' = reserved \ {{u, v}}
     /\ recent' = [recent EXCEPT ![<<u, v>>] = @ + 1]
     /\ phase' = [phase EXCEPT ![c] = "ringing"]
     /\ from' = [from EXCEPT ![c] = u]
     /\ to' = [to EXCEPT ![c] = v]
     /\ fromConn' = [fromConn EXCEPT ![c] = k]
     /\ byUser' = [byUser EXCEPT ![u] = c, ![v] = c]
     /\ byPair' = [byPair EXCEPT ![{u, v}] = c]
     /\ timers' = timers \cup {<<c, "ring">>}
     /\ announcing' = announcing \cup {<<c, IF HasConnection(v) THEN "ring" ELSE "offline">>}
     /\ UNCHANGED <<tabVars, toConn, connected, answered, reason, finishing, logVars, room,
                    crashes>>

\* create(): the call takes the pair over from the reservation.
Create(i, c) ==
  LET k == i[1]
      u == UserOf[k]
      v == i[2]
  IN /\ i \in inviting
     /\ phase[c] = "none" /\ \A d \in 1..(c - 1) : phase[d] # "none"
     /\ inviting' = inviting \ {i}
     /\ reserved' = reserved \ {{u, v}}
     /\ recent' = [recent EXCEPT ![<<u, v>>] = @ + 1]
     /\ phase' = [phase EXCEPT ![c] = "ringing"]
     /\ from' = [from EXCEPT ![c] = u]
     /\ to' = [to EXCEPT ![c] = v]
     /\ fromConn' = [fromConn EXCEPT ![c] = k]
     /\ byUser' = [byUser EXCEPT ![u] = c, ![v] = c]
     /\ byPair' = [byPair EXCEPT ![{u, v}] = c]
     /\ timers' = timers \cup {<<c, "ring">>, <<c, "max">>}
     /\ announcing' = announcing \cup {<<c, IF HasConnection(v) THEN "ring" ELSE "offline">>}
     /\ UNCHANGED <<tabVars, toConn, connected, answered, reason, finishing, logVars, room,
                    crashes>>

\* The state has been sent; the callee is rung, or was not there.
Announce(c) ==
  \/ /\ <<c, "ring">> \in announcing
     /\ announcing' = announcing \ {<<c, "ring">>}
     /\ UNCHANGED <<tabVars, callVars, reserved, inviting, recent, logVars, room, crashes>>
  \/ /\ <<c, "offline">> \in announcing
     /\ announcing' = announcing \ {<<c, "offline">>}
     /\ IF IsLive(c) THEN End(c, "missed") ELSE UNCHANGED callVars
     /\ UNCHANGED <<tabVars, reserved, inviting, recent, logVars, room, crashes>>

\* An invitation leaves the window of the limit.
WindowSlides(p) ==
  /\ recent[p] > 0
  /\ recent' = [recent EXCEPT ![p] = @ - 1]
  /\ UNCHANGED <<tabVars, callVars, reserved, inviting, announcing, logVars, room, crashes>>

----------------------------------------------------------------------------
(* The other messages of the clients. *)

Accept(k, c) ==
  /\ conn[k] = "open" /\ to[c] = UserOf[k]
  /\ room[UserOf[k]] # "in"
  /\ Answer(c, k)
  /\ UNCHANGED <<tabVars, inviteVars, logVars, room, crashes>>

\* Mutant: a conversation may be declined too.
DeclineAnytime(k, c) ==
  /\ conn[k] = "open" /\ to[c] = UserOf[k]
  /\ End(c, "declined")
  /\ UNCHANGED <<tabVars, inviteVars, logVars, room, crashes>>

Decline(k, c) ==
  /\ conn[k] = "open" /\ to[c] = UserOf[k]
  /\ phase[c] = "ringing"
  /\ End(c, "declined")
  /\ UNCHANGED <<tabVars, inviteVars, logVars, room, crashes>>

Cancel(k, c) ==
  /\ conn[k] = "open" /\ from[c] = UserOf[k]
  /\ phase[c] = "ringing"
  /\ End(c, "cancelled")
  /\ UNCHANGED <<tabVars, inviteVars, logVars, room, crashes>>

\* Repeated and late hang-ups are left to end().
Hangup(k, c) ==
  /\ conn[k] = "open" /\ UserOf[k] \in Parties(c)
  /\ End(c, IF phase[c] # "ringing" THEN "hangup"
            ELSE IF from[c] = UserOf[k] THEN "cancelled" ELSE "declined")
  /\ UNCHANGED <<tabVars, inviteVars, logVars, room, crashes>>

\* markConnected: one confirmation disarms the connect timer.
Connected(k, c) ==
  /\ conn[k] = "open" /\ UserOf[k] \in Parties(c)
  /\ phase[c] = "active"
  /\ connected' = connected \cup {<<c, UserOf[k]>>}
  /\ timers' = timers \ {<<c, "connect">>}
  /\ UNCHANGED <<tabVars, phase, from, to, fromConn, toConn, answered, reason, byUser, byPair,
                 finishing, inviteVars, logVars, room, crashes>>

\* Mutant: whoever returns becomes the caller's side.
RejoinAsCaller(k, c) ==
  /\ <<k, c>> \in returning
  /\ returning' = returning \ {<<k, c>>}
  /\ IF phase[c] = "active"
     THEN /\ fromConn' = [fromConn EXCEPT ![c] = k]
          /\ timers' = timers \ {<<c, "grace">>}
     ELSE UNCHANGED <<fromConn, timers>>
  /\ UNCHANGED <<conn, greeting, phase, from, to, toConn, connected, answered, reason, byUser,
                 byPair, finishing, inviteVars, logVars, room, crashes>>

\* rejoin(): the side moves to this connection and the grace timer stops.
Rejoin(k, c) ==
  LET u == UserOf[k] IN
  /\ <<k, c>> \in returning
  /\ returning' = returning \ {<<k, c>>}
  /\ IF phase[c] = "active"
     THEN /\ fromConn' = IF from[c] = u THEN [fromConn EXCEPT ![c] = k] ELSE fromConn
          /\ toConn' = IF from[c] = u THEN toConn ELSE [toConn EXCEPT ![c] = k]
          /\ timers' = timers \ {<<c, "grace">>}
     ELSE UNCHANGED <<fromConn, toConn, timers>>
  /\ UNCHANGED <<conn, greeting, phase, from, to, connected, answered, reason, byUser, byPair,
                 finishing, inviteVars, logVars, room, crashes>>

----------------------------------------------------------------------------
(* Timers, the record, rooms and restarts. *)

TimerReason == [ring |-> "missed", connect |-> "failed", grace |-> "failed", max |-> "hangup"]

\* A timer fires.  The six-hour fuse is never first to fire on a ringing call.
Fires(c, key) ==
  /\ <<c, key>> \in timers
  /\ key = "max" => phase[c] = "active"
  /\ key = "connect" => \A u \in Users : <<c, u>> \notin connected
  /\ End(c, TimerReason[key])
  /\ UNCHANGED <<tabVars, inviteVars, logVars, room, crashes>>

\* finishCall: the record is written, or the failure is logged and that is all.
Record(c) ==
  /\ c \in finishing
  /\ finishing' = finishing \ {c}
  /\ \/ /\ log' = [log EXCEPT ![c] = OutcomeOf(reason[c])]
        /\ writes' = [writes EXCEPT ![c] = @ + 1]
     \/ UNCHANGED logVars
  /\ UNCHANGED <<tabVars, phase, from, to, fromConn, toConn, connected, answered, reason,
                 byUser, byPair, timers, inviteVars, room, crashes>>

\* /ws: nobody with a call passes; the seat is taken some awaits later.
RoomCheck(u) ==
  /\ room[u] = "out"
  /\ ~IsBusy(u)
  /\ room' = [room EXCEPT ![u] = "checked"]
  /\ UNCHANGED <<tabVars, callVars, inviteVars, logVars, crashes>>

RoomEnter(u) ==
  /\ room[u] = "checked"
  /\ room' = [room EXCEPT ![u] = "in"]
  /\ UNCHANGED <<tabVars, callVars, inviteVars, logVars, crashes>>

RoomLeave(u) ==
  /\ room[u] # "out"
  /\ room' = [room EXCEPT ![u] = "out"]
  /\ UNCHANGED <<tabVars, callVars, inviteVars, logVars, crashes>>

\* The process stops: a restart, or an awaited check of an invitation rejects.
Crash ==
  /\ crashes < MaxCrashes
  /\ crashes' = crashes + 1
  /\ conn' = [k \in Conns |-> IF conn[k] = "open" THEN "closed" ELSE conn[k]]
  /\ phase' = [c \in Calls |-> IF IsLive(c) THEN "lost" ELSE phase[c]]
  /\ byUser' = [u \in Users |-> NoCall]
  /\ byPair' = [p \in Pairs |-> NoCall]
  /\ recent' = [p \in Users \X Users |-> 0]
  /\ greeting' = {} /\ returning' = {} /\ reserved' = {} /\ timers' = {}
  /\ inviting' = {} /\ announcing' = {} /\ finishing' = {}
  /\ room' = [u \in Users |-> "out"]
  /\ UNCHANGED <<from, to, fromConn, toConn, connected, answered, reason, logVars>>

----------------------------------------------------------------------------
Init ==
  /\ conn = [k \in Conns |-> "idle"]
  /\ greeting = {} /\ returning = {}
  /\ phase = [c \in Calls |-> "none"]
  /\ from = [c \in Calls |-> Nobody] /\ to = [c \in Calls |-> Nobody]
  /\ fromConn = [c \in Calls |-> NoConn] /\ toConn = [c \in Calls |-> NoConn]
  /\ connected = {} /\ answered = {}
  /\ reason = [c \in Calls |-> "none"]
  /\ byUser = [u \in Users |-> NoCall]
  /\ byPair = [p \in Pairs |-> NoCall]
  /\ reserved = {} /\ timers = {} /\ inviting = {} /\ announcing = {}
  /\ recent = [p \in Users \X Users |-> 0]
  /\ finishing = {}
  /\ log = [c \in Calls |-> "none"]
  /\ writes = [c \in Calls |-> 0]
  /\ room = [u \in Users |-> "out"]
  /\ crashes = 0

Next ==
  \/ \E k \in Conns :
       \/ OpenConn(k) \/ Hello(k) \/ CloseConn(k)
       \/ \E v \in {w \in Users : <<UserOf[k], w>> \in Dials} : CounterCall(k, v) \/ Invite(k, v)
       \/ \E c \in Calls : \/ Accept(k, c) \/ Decline(k, c) \/ Cancel(k, c) \/ Hangup(k, c)
                           \/ Connected(k, c) \/ Rejoin(k, c)
  \/ \E i \in inviting : Deny(i) \/ \E c \in Calls : Create(i, c)
  \/ \E c \in Calls : Announce(c) \/ Record(c) \/ \E key \in TimerKeys : Fires(c, key)
  \/ \E p \in Users \X Users : WindowSlides(p)
  \/ \E u \in Visitors : RoomCheck(u) \/ RoomEnter(u) \/ RoomLeave(u)
  \/ Crash

Spec == Init /\ [][Next]_vars

\* The awaited calls of a handler return; armed timers fire.
Checked(i) == i \in inviting /\ (Deny(i) \/ \E c \in Calls : Create(i, c))
FairSpec ==
  /\ Spec
  /\ \A k \in Conns, v \in Users : WF_vars(Checked(<<k, v>>))
  /\ \A c \in Calls :
       /\ WF_vars(Announce(c)) /\ WF_vars(Record(c))
       /\ \A key \in TimerKeys : WF_vars(Fires(c, key))

----------------------------------------------------------------------------
(* What the calls promise. *)

\* Every variable has its type.
TypeOK ==
  /\ conn \in [Conns -> {"idle", "open", "closed"}]
  /\ greeting \subseteq Conns
  /\ returning \subseteq Conns \X Calls
  /\ phase \in [Calls -> Phases]
  /\ from \in [Calls -> Users \cup {Nobody}] /\ to \in [Calls -> Users \cup {Nobody}]
  /\ fromConn \in [Calls -> Conns \cup {NoConn}] /\ toConn \in [Calls -> Conns \cup {NoConn}]
  /\ connected \subseteq Calls \X Users
  /\ answered \subseteq Calls
  /\ reason \in [Calls -> Reasons \cup {"none"}]
  /\ byUser \in [Users -> Calls \cup {NoCall}]
  /\ byPair \in [Pairs -> Calls \cup {NoCall}]
  /\ reserved \subseteq Pairs
  /\ timers \subseteq Calls \X TimerKeys
  /\ inviting \subseteq Conns \X Users
  /\ announcing \subseteq Calls \X {"ring", "offline"}
  /\ recent \in [Users \X Users -> Nat]
  /\ finishing \subseteq Calls
  /\ log \in [Calls -> Reasons \cup {"none", "completed"}]
  /\ writes \in [Calls -> Nat]
  /\ room \in [Users -> {"out", "checked", "in"}]
  /\ crashes \in Nat

\* byUser and byPair hold the live calls and nothing else: a live call is found
\* by both of its parties and by their pair, so nobody has two, and a user
\* whose call is over is free.
IndexExact ==
  /\ \A c \in Calls : IsLive(c) =>
       /\ from[c] \in Users /\ to[c] \in Users /\ from[c] # to[c]
       /\ byPair[Parties(c)] = c
       /\ byUser[from[c]] = c /\ byUser[to[c]] = c
  /\ \A u \in Users : byUser[u] # NoCall => IsLive(byUser[u]) /\ u \in Parties(byUser[u])
  /\ \A p \in Pairs : byPair[p] # NoCall => IsLive(byPair[p]) /\ p = Parties(byPair[p])

\* Every reservation belongs to one invitation whose checks are awaited, and
\* keeps both users out of every other reservation and call until create().
ReservedAlone ==
  /\ \A i \in inviting : PairOf(i) \in reserved /\ UserOf[i[1]] # i[2]
  /\ \A p \in reserved : \E i \in inviting : p = PairOf(i)
  /\ \A i, j \in inviting : i # j => PairOf(i) \cap PairOf(j) = {}
  /\ \A p \in reserved : \A u \in p : byUser[u] = NoCall

\* No user invites another more often than the limit, though the invitation
\* is counted only after the awaited checks.
Limited ==
  /\ \A p \in Users \X Users : recent[p] <= InviteLimit
  /\ \A i \in inviting : recent[<<UserOf[i[1]], i[2]>>] < InviteLimit

\* The timers follow the phase: the ringing timer and the fuse run exactly
\* while the call rings or lives, the connection timer until a party confirms,
\* the grace timer in conversations only, and none outlives its call.
TimersExact == \A c \in Calls :
  /\ <<c, "ring">> \in timers <=> phase[c] = "ringing"
  /\ <<c, "max">> \in timers <=> IsLive(c)
  /\ <<c, "connect">> \in timers <=>
       phase[c] = "active" /\ \A u \in Parties(c) : <<c, u>> \notin connected
  /\ <<c, "grace">> \in timers => phase[c] = "active"

\* The side that leads a call is a connection of that very user, and the
\* callee has one exactly when the call was answered.
SidesBelong == \A c \in Calls : phase[c] # "none" =>
  /\ fromConn[c] \in Conns /\ UserOf[fromConn[c]] = from[c]
  /\ toConn[c] # NoConn <=> c \in answered
  /\ toConn[c] # NoConn => UserOf[toConn[c]] = to[c]

\* A call leaves at most one record in the conversation, only once it is over.
RecordedOnce == \A c \in Calls :
  /\ writes[c] + (IF c \in finishing THEN 1 ELSE 0) <= 1
  /\ writes[c] = 1 \/ c \in finishing => phase[c] = "ended"

\* The record tells the truth: a declined or cancelled call was never a
\* conversation, and one recorded as completed or failed was answered.
OutcomeHonest == \A c \in Calls :
  /\ log[c] \in {"declined", "cancelled"} => c \notin answered
  /\ log[c] \in {"completed", "failed"} => c \in answered

\* A tab that leads neither side of a call closes without touching it: the call
\* goes on and its timers are what they were.
OtherTabsLeaveAlone == [][
  \A k \in Conns, c \in Calls :
    (/\ conn[k] = "open" /\ conn'[k] = "closed" /\ crashes' = crashes
     /\ IsLive(c) /\ k \notin {fromConn[c], toConn[c]})
    => phase'[c] = phase[c] /\ {t \in timers' : t[1] = c} = {t \in timers : t[1] = c}]_vars

\* An invitation is decided: its reservation does not keep the two users busy
\* for ever.
ReservationEnds == \A p \in Pairs : p \in reserved ~> p \notin reserved

Stage == [none |-> "none", ringing |-> "ringing", active |-> "talking",
          ended |-> "over", lost |-> "over"]
Exchange == INSTANCE Telephone WITH
  stage <- [c \in Calls |-> Stage[phase[c]]],
  sides <- [c \in Calls |-> Parties(c) \ {Nobody}],
  outcome <- [c \in Calls |-> IF phase[c] = "lost" THEN "lost" ELSE OutcomeOf(reason[c])]

\* The registry behaves as a telephone exchange: calls ring between two free
\* users only and go through their stages in order.
ImplementsExchange == Exchange!Spec

\* And none of them goes on for ever: some timer is left to end it.
CallsEnd == Exchange!FairSpec

----------------------------------------------------------------------------
(* What documents say and the code does not do. *)

\* DmCallHub.ts:313: ringing without the caller's tab makes no sense.
RingingHasCaller == \A c \in Calls : phase[c] = "ringing" => conn[fromConn[c]] = "open"
=============================================================================
