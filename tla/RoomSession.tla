---------------------------- MODULE RoomSession ----------------------------
(***************************************************************************)
(* Who is in a room: the life of a room socket and of the in-memory room   *)
(* it is attached to.                                                      *)
(*                                                                         *)
(* A socket of `/ws` runs one async handler (ws/server.ts): it reads the   *)
(* database, finds or creates the RoomRuntime, may wait for the membership *)
(* row, attaches the session, waits for the welcome data, and only THEN    *)
(* registers its `message` and `close` listeners.  Between two of those    *)
(* steps any other handler, timer or REST call may run, so every await is  *)
(* a step boundary here.  `participants`, `shadowSessions`, the pairs of   *)
(* "shared time", the call members and the removal timers of RoomRuntime   *)
(* are modelled for every incarnation of the runtime, the destroyed ones   *)
(* included: a handler keeps the reference it obtained.                    *)
(***************************************************************************)
EXTENDS Naturals, FiniteSets

CONSTANTS
  Users,         \* principals, guests included
  Guests,        \* the principals of kind 'guest'
  Rooms,         \* rows of the Room table
  NoRoom,        \* "no room" in the presence map
  OwnerOf,       \* [Rooms -> Users]: Room.ownerId, immutable
  Socks,         \* connections to /ws; each connects at most once
  UserOf,        \* [Socks -> Users]: the principal in the ticket
  RoomOf,        \* [Socks -> Rooms]: the room in the ticket
  AdminSocks,    \* sockets opened with an admin ticket
  ShadowSocks,   \* those of them opened with a shadow ticket
  Capacity,      \* Room.maxParticipants
  MaxVoice,      \* CALL_MAX_VOICE
  MaxVideo,      \* CALL_MAX_VIDEO
  CallsEnabled,  \* the platform toggle 'calls'
  HubUsers,      \* users whose /ws/user connection may close
  Blockable,     \* users the administration may block
  MaxRuntimes    \* bound: incarnations of RoomRuntime in a behaviour

ASSUME SessionAssumption ==
  /\ Guests \subseteq Users
  /\ NoRoom \notin Rooms
  /\ OwnerOf \in [Rooms -> Users \ Guests]
  /\ UserOf \in [Socks -> Users]
  /\ RoomOf \in [Socks -> Rooms]
  /\ ShadowSocks \subseteq AdminSocks
  /\ AdminSocks \subseteq Socks
  /\ CallsEnabled \in BOOLEAN
  /\ HubUsers \subseteq Users /\ Blockable \subseteq Users
  /\ {Capacity, MaxVoice, MaxVideo, MaxRuntimes} \subseteq Nat \ {0}

VARIABLES
  sock,       \* state of each connection: idle, open, closing, gone
  pc,         \* where its handler is
  on,         \* the runtime the handler holds (0: none yet)
  made,       \* number of runtimes created so far
  rtRoom,     \* the room of each runtime
  destroyed,  \* runtimes with `destroyed = true`
  store,      \* roomStore: room -> runtime (0: absent)
  seated,     \* sockets that are the session of a `participants` entry
  leaving,    \* those with pendingRemovalTimer armed
  hidden,     \* sockets in shadowSessions
  together,   \* coWatchSince: <<runtime, {a, b}>>
  inCall,     \* callMembers: <<runtime, user>>
  cams,       \* call members with video on
  calling,    \* call_join received, waiting for the toggle and the mutex
  callLog,    \* rooms with an entry in callStart (rooms/events.ts)
  presence,   \* userHub.rooms: the room friends see the user in
  blocked     \* users with User.isBlocked

roomVars == <<made, rtRoom, destroyed, store>>
callVars == <<inCall, cams, calling, callLog>>
vars == <<sock, pc, on, made, rtRoom, destroyed, store, seated, leaving, hidden,
          together, inCall, cams, calling, callLog, presence, blocked>>

Runtimes == 1..MaxRuntimes
Stages == {"idle", "lookup", "cleared", "member", "welcome", "live", "done", "refused"}
SockStates == {"idle", "open", "closing", "gone"}
Registered == Users \ Guests

----------------------------------------------------------------------------
(* Views of the state. *)

\* Entries of rt.participants, and the entry of one user.
Seats(rt) == {s \in seated : on[s] = rt}
SeatOf(rt, u) == {s \in Seats(rt) : UserOf[s] = u}
Present(rt) == {UserOf[s] : s \in Seats(rt)}
Shadows(rt) == {s \in hidden : on[s] = rt}
Callers(rt) == {c \in inCall : c[1] = rt}

IsAtCapacity(rt) == Cardinality(Seats(rt) \ leaving) >= Capacity

\* Only a registered user who is neither the owner nor an admin needs the
\* membership row, hence the extra await.
NeedsMembership(s) ==
  /\ s \notin AdminSocks
  /\ UserOf[s] \notin Guests
  /\ UserOf[s] # OwnerOf[RoomOf[s]]

\* socket.close(): the socket stops being open at once, 'close' is emitted later.
Closing(S) == [s \in Socks |-> IF s \in S /\ sock[s] = "open" THEN "closing" ELSE sock[s]]

\* Mutant: guests are paired too.
PairsWithGuests(rt, u) == {<<rt, {u, v}>> : v \in Present(rt) \ {u}}

\* The pairs a fresh entry of u anchors in rt (coWatchOnJoin).
PairsOf(rt, u) ==
  IF u \in Guests THEN {}
  ELSE {<<rt, {u, v}>> : v \in (Present(rt) \ Guests) \ {u}}

----------------------------------------------------------------------------
(* Removal of entries.  Every path that takes people out of a runtime does *)
(* the same to the maps: the entries in `gone`, their pairs and call seats *)
(* go, and the runtimes in `dying` are destroyed (maps cleared, store      *)
(* entry deleted).                                                         *)

\* u loses the entry in rt.
Leaves(rt, u, gone) == \E s \in gone : on[s] = rt /\ UserOf[s] = u

\* Mutant: a removed participant is not evicted from the call.
CallAfterClear(C, gone, dying) == {c \in C : c[1] \notin dying}

\* evictFromCall, and callMembers.clear() of destroy.
CallAfter(C, gone, dying) == {c \in C : c[1] \notin dying /\ ~Leaves(c[1], c[2], gone)}

\* Mutant: destroy() forgets roomStore.delete.
StoreKept(dying) == store

\* roomStore.delete of destroy.
StoreAfter(dying) == [r \in Rooms |-> IF store[r] \in dying THEN 0 ELSE store[r]]

RemoveSeats(gone, dying) ==
  /\ seated' = {s \in seated \ gone : on[s] \notin dying}
  /\ leaving' = {s \in leaving \ gone : on[s] \notin dying}
  /\ hidden' = {s \in hidden : on[s] \notin dying}
  /\ together' = {t \in together : t[1] \notin dying /\ \A u \in t[2] : ~Leaves(t[1], u, gone)}
  /\ inCall' = CallAfter(inCall, gone, dying)
  /\ cams' = CallAfter(cams, gone, dying)
  /\ destroyed' = destroyed \cup dying
  /\ store' = StoreAfter(dying)

----------------------------------------------------------------------------
(* The handler of a room socket. *)

Connect(s) ==
  /\ pc[s] = "idle"
  /\ pc' = [pc EXCEPT ![s] = "lookup"]
  /\ sock' = [sock EXCEPT ![s] = "open"]
  /\ UNCHANGED <<on, seated, leaving, hidden, together, presence, blocked>>
  /\ UNCHANGED <<roomVars, callVars>>

\* The room and the isBlocked flag are read; a blocked user is turned away.
Lookup(s) ==
  /\ pc[s] = "lookup"
  /\ IF UserOf[s] \in blocked
     THEN pc' = [pc EXCEPT ![s] = "refused"] /\ sock' = Closing({s})
     ELSE pc' = [pc EXCEPT ![s] = "cleared"] /\ UNCHANGED sock
  /\ UNCHANGED <<on, seated, leaving, hidden, together, presence, blocked>>
  /\ UNCHANGED <<roomVars, callVars>>

\* The other refusals: the row is gone, or a direct call is in progress.
Refuse(s) ==
  /\ pc[s] \in {"lookup", "cleared"}
  /\ pc' = [pc EXCEPT ![s] = "refused"]
  /\ sock' = Closing({s})
  /\ UNCHANGED <<on, seated, leaving, hidden, together, presence, blocked>>
  /\ UNCHANGED <<roomVars, callVars>>

\* ensureRoomRuntime: rt is the runtime of room r afterwards.
Ensure(r, rt) ==
  IF store[r] # 0
  THEN rt = store[r] /\ UNCHANGED roomVars
  ELSE /\ rt = made + 1
       /\ rt \in Runtimes
       /\ made' = rt
       /\ rtRoom' = [rtRoom EXCEPT ![rt] = r]
       /\ store' = [store EXCEPT ![r] = rt]
       /\ UNCHANGED destroyed

\* Mutant: the socket that held the seat is not closed.
AttachBeside(s, rt) ==
  LET u == UserOf[s]
      old == SeatOf(rt, u)
  IN IF s \in ShadowSocks
     THEN /\ hidden' = hidden \cup {s}
          /\ UNCHANGED <<sock, seated, leaving, together, presence>>
     ELSE /\ seated' = (seated \ old) \cup {s}
          /\ leaving' = leaving \ old
          /\ together' = IF old = {} THEN together \cup PairsOf(rt, u) ELSE together
          /\ presence' = IF u \in Guests THEN presence
                         ELSE [presence EXCEPT ![u] = RoomOf[s]]
          /\ UNCHANGED <<hidden, sock>>

\* attachSession: a shadow is filed by session; anyone else takes the user's
\* seat, closing the socket that held it, or gets a fresh seat.
Attach(s, rt) ==
  LET u == UserOf[s]
      old == SeatOf(rt, u)
  IN IF s \in ShadowSocks
     THEN /\ hidden' = hidden \cup {s}
          /\ UNCHANGED <<sock, seated, leaving, together, presence>>
     ELSE /\ seated' = (seated \ old) \cup {s}
          /\ leaving' = leaving \ old
          /\ sock' = Closing(old)
          /\ together' = IF old = {} THEN together \cup PairsOf(rt, u) ELSE together
          /\ presence' = IF u \in Guests THEN presence
                         ELSE [presence EXCEPT ![u] = RoomOf[s]]
          /\ UNCHANGED hidden

\* The runtime is obtained and the capacity checked in one turn of the event
\* loop; who needs no membership row is attached in the same turn.
Admit(s) ==
  /\ pc[s] = "cleared"
  /\ \E rt \in Runtimes :
       /\ Ensure(RoomOf[s], rt)
       /\ IF s \notin AdminSocks /\ IsAtCapacity(rt) /\ UserOf[s] \notin Present(rt)
          THEN /\ pc' = [pc EXCEPT ![s] = "refused"]
               /\ sock' = Closing({s})
               /\ UNCHANGED <<on, seated, leaving, hidden, together, presence>>
          ELSE /\ on' = [on EXCEPT ![s] = rt]
               /\ IF NeedsMembership(s)
                  THEN /\ pc' = [pc EXCEPT ![s] = "member"]
                       /\ UNCHANGED <<sock, seated, leaving, hidden, together, presence>>
                  ELSE /\ pc' = [pc EXCEPT ![s] = "welcome"]
                       /\ Attach(s, rt)
  /\ UNCHANGED <<blocked, callVars>>

\* The membership row has arrived; the session is attached to the runtime
\* obtained before the wait, whatever became of it meanwhile.
Seat(s) ==
  /\ pc[s] = "member"
  /\ pc' = [pc EXCEPT ![s] = "welcome"]
  /\ Attach(s, on[s])
  /\ UNCHANGED <<on, blocked, roomVars, callVars>>

\* The welcome is sent and the listeners are registered.
Welcome(s) ==
  /\ pc[s] = "welcome"
  /\ pc' = [pc EXCEPT ![s] = "live"]
  /\ UNCHANGED <<sock, on, seated, leaving, hidden, together, presence, blocked>>
  /\ UNCHANGED <<roomVars, callVars>>

\* A database call of the handler rejects: the library terminates the socket.
HandlerFails(s) ==
  /\ pc[s] \in {"lookup", "member", "welcome"}
  /\ pc' = [pc EXCEPT ![s] = "refused"]
  /\ sock' = Closing({s})
  /\ UNCHANGED <<on, seated, leaving, hidden, together, presence, blocked>>
  /\ UNCHANGED <<roomVars, callVars>>

----------------------------------------------------------------------------
(* The end of a socket. *)

\* The client leaves or the network drops it.
Drop(s) ==
  /\ sock[s] = "open"
  /\ sock' = [sock EXCEPT ![s] = "closing"]
  /\ UNCHANGED <<pc, on, seated, leaving, hidden, together, presence, blocked>>
  /\ UNCHANGED <<roomVars, callVars>>

\* Mutant: the timer is armed without comparing the session (entry.session !== session).
CloseOfAnySession(s) ==
  /\ sock[s] = "closing"
  /\ sock' = [sock EXCEPT ![s] = "gone"]
  /\ IF pc[s] = "live"
     THEN /\ pc' = [pc EXCEPT ![s] = "done"]
          /\ hidden' = hidden \ {s}
          /\ leaving' = leaving \cup {s}
     ELSE UNCHANGED <<pc, hidden, leaving>>
  /\ UNCHANGED <<on, seated, together, presence, blocked>>
  /\ UNCHANGED <<roomVars, callVars>>

\* 'close' is emitted.  Nobody hears it unless the listener is registered;
\* detachSession then files the shadow away or arms the removal timer of the
\* entry, if the entry is still this session's.
CloseEvent(s) ==
  /\ sock[s] = "closing"
  /\ sock' = [sock EXCEPT ![s] = "gone"]
  /\ IF pc[s] = "live"
     THEN /\ pc' = [pc EXCEPT ![s] = "done"]
          /\ hidden' = hidden \ {s}
          /\ leaving' = IF s \in seated THEN leaving \cup {s} ELSE leaving
     ELSE UNCHANGED <<pc, hidden, leaving>>
  /\ UNCHANGED <<on, seated, together, presence, blocked>>
  /\ UNCHANGED <<roomVars, callVars>>

\* Mutant: emptiness is tested before the entry is deleted.
GraceExpiresUnswept(s) ==
  LET rt == on[s]
      u == UserOf[s]
      last == Seats(rt) = {} /\ Shadows(rt) = {} /\ rt \notin destroyed
  IN /\ s \in leaving
     /\ RemoveSeats({s}, IF last THEN {rt} ELSE {})
     /\ presence' = IF u \notin Guests /\ presence[u] = rtRoom[rt]
                    THEN [presence EXCEPT ![u] = NoRoom] ELSE presence
     /\ UNCHANGED <<sock, pc, on, made, rtRoom, calling, callLog, blocked>>

\* The removal timer fires: the participant is gone for good.
GraceExpires(s) ==
  LET rt == on[s]
      u == UserOf[s]
      last == Seats(rt) = {s} /\ Shadows(rt) = {} /\ rt \notin destroyed
  IN /\ s \in leaving
     /\ RemoveSeats({s}, IF last THEN {rt} ELSE {})
     /\ presence' = IF u \notin Guests /\ presence[u] = rtRoom[rt]
                    THEN [presence EXCEPT ![u] = NoRoom] ELSE presence
     /\ UNCHANGED <<sock, pc, on, made, rtRoom, calling, callLog, blocked>>

----------------------------------------------------------------------------
(* Removal by somebody else. *)

\* Mutant: the kicked session is not closed.
KickSilently(r, u) ==
  LET rt == store[r] IN
  /\ rt # 0
  /\ u # OwnerOf[r]
  /\ SeatOf(rt, u) # {}
  /\ RemoveSeats(SeatOf(rt, u), IF Seats(rt) = SeatOf(rt, u) THEN {rt} ELSE {})
  /\ UNCHANGED <<sock, pc, on, made, rtRoom, calling, callLog, presence, blocked>>

\* DELETE /rooms/:id/members/:userId and its admin twin: not the owner.
Kick(r, u) ==
  LET rt == store[r] IN
  /\ rt # 0
  /\ u # OwnerOf[r]
  /\ SeatOf(rt, u) # {}
  /\ sock' = Closing(SeatOf(rt, u))
  /\ RemoveSeats(SeatOf(rt, u), IF Seats(rt) = SeatOf(rt, u) THEN {rt} ELSE {})
  /\ UNCHANGED <<pc, on, made, rtRoom, calling, callLog, presence, blocked>>

\* The account is blocked: the flag is written, then every runtime of the
\* store closes the user's session.
BlockUser(u) ==
  LET gone == {s \in seated : UserOf[s] = u /\ on[s] \notin destroyed}
      dying == {rt \in {on[s] : s \in gone} : Seats(rt) \subseteq gone /\ Shadows(rt) = {}}
  IN /\ u \notin blocked
     /\ blocked' = blocked \cup {u}
     /\ sock' = Closing(gone)
     /\ RemoveSeats(gone, dying)
     /\ UNCHANGED <<pc, on, made, rtRoom, calling, callLog, presence>>

UnblockUser(u) ==
  /\ u \in blocked
  /\ blocked' = blocked \ {u}
  /\ UNCHANGED <<sock, pc, on, seated, leaving, hidden, together, presence>>
  /\ UNCHANGED <<roomVars, callVars>>

\* The admin panel closes the room: everyone out, shadows included.
ForceClose(r) ==
  LET rt == store[r] IN
  /\ rt # 0
  /\ sock' = Closing(Seats(rt) \cup Shadows(rt))
  /\ RemoveSeats(Seats(rt), {rt})
  /\ UNCHANGED <<pc, on, made, rtRoom, calling, callLog, presence, blocked>>

\* POST /rooms/join and the other REST calls that only need the runtime.
RestEnsure(r) ==
  /\ store[r] = 0
  /\ \E rt \in Runtimes : Ensure(r, rt)
  /\ UNCHANGED <<sock, pc, on, seated, leaving, hidden, together, presence, blocked>>
  /\ UNCHANGED callVars

\* The user's last /ws/user connection closes: UserHub forgets the room.
HubForgets(u) ==
  /\ presence[u] # NoRoom
  /\ presence' = [presence EXCEPT ![u] = NoRoom]
  /\ UNCHANGED <<sock, pc, on, seated, leaving, hidden, together, blocked>>
  /\ UNCHANGED <<roomVars, callVars>>

----------------------------------------------------------------------------
(* The voice call of the room. *)

\* call_join arrives; the feature toggle is read before the mutex is taken.
AskCall(s) ==
  /\ CallsEnabled
  /\ sock[s] = "open"
  /\ pc[s] = "live"
  /\ s \notin ShadowSocks \cup calling
  /\ calling' = calling \cup {s}
  /\ UNCHANGED <<sock, pc, on, seated, leaving, hidden, together, presence, blocked>>
  /\ UNCHANGED <<roomVars, inCall, cams, callLog>>

\* handleCallJoin: joinCall by user id, then the call log.
JoinCall(s, wantVideo) ==
  LET rt == on[s]
      me == <<rt, UserOf[s]>>
      ok == /\ SeatOf(rt, UserOf[s]) # {}
            /\ UserOf[s] \notin Guests
            /\ me \in inCall \/ Cardinality(Callers(rt)) < MaxVoice
      free == Cardinality({c \in cams : c[1] = rt}) < MaxVideo
  IN /\ s \in calling
     /\ calling' = calling \ {s}
     /\ inCall' = IF ok THEN inCall \cup {me} ELSE inCall
     /\ cams' = IF ok /\ me \notin inCall /\ wantVideo /\ free THEN cams \cup {me} ELSE cams
     /\ callLog' = IF ok /\ Cardinality(Callers(rt) \cup {me}) = 1
                   THEN callLog \cup {rtRoom[rt]} ELSE callLog
     /\ UNCHANGED <<sock, pc, on, seated, leaving, hidden, together, presence, blocked>>
     /\ UNCHANGED roomVars

\* handleCallLeave; the log entry ends with the last member.
LeaveCall(s) ==
  LET rt == on[s]
      me == <<rt, UserOf[s]>>
  IN /\ sock[s] = "open" /\ pc[s] = "live"
     /\ me \in inCall
     /\ inCall' = inCall \ {me}
     /\ cams' = cams \ {me}
     /\ callLog' = IF Callers(rt) = {me} THEN callLog \ {rtRoom[rt]} ELSE callLog
     /\ UNCHANGED <<sock, pc, on, seated, leaving, hidden, together, presence, blocked>>
     /\ UNCHANGED <<roomVars, calling>>

\* handleCallMedia: a camera may only be turned on while a slot is free.
SetCamera(s, videoOn) ==
  LET rt == on[s]
      me == <<rt, UserOf[s]>>
  IN /\ sock[s] = "open" /\ pc[s] = "live"
     /\ me \in inCall
     /\ videoOn /\ me \notin cams => Cardinality({c \in cams : c[1] = rt}) < MaxVideo
     /\ cams' = IF videoOn THEN cams \cup {me} ELSE cams \ {me}
     /\ UNCHANGED <<sock, pc, on, seated, leaving, hidden, together, presence, blocked>>
     /\ UNCHANGED <<roomVars, inCall, calling, callLog>>

\* The admin panel ends the call of the room.
EndRoomCall(r) ==
  LET rt == store[r] IN
  /\ rt # 0
  /\ Callers(rt) # {}
  /\ inCall' = {c \in inCall : c[1] # rt}
  /\ cams' = {c \in cams : c[1] # rt}
  /\ callLog' = callLog \ {r}
  /\ UNCHANGED <<sock, pc, on, seated, leaving, hidden, together, presence, blocked>>
  /\ UNCHANGED <<roomVars, calling>>

----------------------------------------------------------------------------
Init ==
  /\ sock = [s \in Socks |-> "idle"]
  /\ pc = [s \in Socks |-> "idle"]
  /\ on = [s \in Socks |-> 0]
  /\ made = 0
  /\ rtRoom = [rt \in Runtimes |-> NoRoom]
  /\ destroyed = {}
  /\ store = [r \in Rooms |-> 0]
  /\ seated = {} /\ leaving = {} /\ hidden = {}
  /\ together = {}
  /\ inCall = {} /\ cams = {} /\ calling = {} /\ callLog = {}
  /\ presence = [u \in Users |-> NoRoom]
  /\ blocked = {}

HandlerStep(s) == Lookup(s) \/ Admit(s) \/ Seat(s) \/ Welcome(s)

Next ==
  \/ \E s \in Socks :
       \/ Connect(s) \/ Lookup(s) \/ Refuse(s) \/ Admit(s) \/ Seat(s) \/ Welcome(s)
       \/ HandlerFails(s) \/ Drop(s) \/ CloseEvent(s) \/ GraceExpires(s)
       \/ AskCall(s) \/ LeaveCall(s)
       \/ \E v \in BOOLEAN : JoinCall(s, v) \/ SetCamera(s, v)
  \/ \E r \in Rooms :
       \/ \E u \in Users : Kick(r, u)
       \/ ForceClose(r) \/ RestEnsure(r) \/ EndRoomCall(r)
  \/ \E u \in Blockable : BlockUser(u) \/ UnblockUser(u)
  \/ \E u \in HubUsers : HubForgets(u)

Spec == Init /\ [][Next]_vars

\* The event loop runs what is ready: database calls settle, 'close' is
\* emitted, timers fire.  Clients, owners and admins owe nothing.
Fairness ==
  \A s \in Socks :
    /\ WF_vars(HandlerStep(s) \/ HandlerFails(s) \/ Refuse(s))
    /\ WF_vars(CloseEvent(s))
    /\ WF_vars(GraceExpires(s))

FairSpec == Spec /\ Fairness
----------------------------------------------------------------------------
(* What must hold. *)

\* Every variable has its type, and a removal timer exists only for an entry.
TypeOK ==
  /\ sock \in [Socks -> SockStates]
  /\ pc \in [Socks -> Stages]
  /\ on \in [Socks -> 0..MaxRuntimes]
  /\ made \in 0..MaxRuntimes
  /\ rtRoom \in [Runtimes -> Rooms \cup {NoRoom}]
  /\ destroyed \subseteq Runtimes
  /\ store \in [Rooms -> 0..MaxRuntimes]
  /\ seated \subseteq Socks /\ leaving \subseteq seated /\ hidden \subseteq ShadowSocks
  /\ together \subseteq Runtimes \X SUBSET Registered
  /\ inCall \subseteq Runtimes \X Registered
  /\ cams \subseteq Runtimes \X Registered
  /\ calling \subseteq Socks
  /\ callLog \subseteq Rooms
  /\ presence \in [Users -> Rooms \cup {NoRoom}]
  /\ blocked \subseteq Users

\* roomStore and the set of running runtimes are the same thing: a room never
\* has two runtimes whose timers run, and none runs outside the store
\* (ensureRoomRuntime, destroy).
OneLiveRuntime ==
  \A rt \in 1..made : rt \notin destroyed <=> store[rtRoom[rt]] = rt

\* The co-watch pairs of a runtime are exactly the pairs of registered users
\* present in it: no pair is credited after one of them was removed by any of
\* the five removal paths, none is missing, and no guest is ever counted.
TogetherExact ==
  \A rt \in Runtimes, u \in Users, v \in Users :
    <<rt, {u, v}>> \in together
    <=> u # v /\ {u, v} \subseteq Present(rt) \ Guests

\* Whoever is in the call of a runtime is present in it and has one seat, and
\* the voice and camera limits hold whatever order joins, media changes,
\* removals and reconnects come in.
CallersPresent ==
  /\ \A c \in inCall : Cardinality(SeatOf(c[1], c[2])) = 1
  /\ cams \subseteq inCall
  /\ \A rt \in Runtimes :
       /\ Cardinality(Callers(rt)) <= MaxVoice
       /\ Cardinality({c \in cams : c[1] = rt}) <= MaxVideo

\* An open socket that has been welcomed IS its user's entry: a replaced,
\* kicked, blocked or closed-out session never keeps an open socket that the
\* server still serves.
NoOrphanSocket ==
  \A s \in Socks \ ShadowSocks :
    sock[s] = "open" /\ pc[s] \in {"welcome", "live"} => s \in seated

\* The removal timer of an entry runs exactly when the close of the session
\* that holds the entry was heard: a late close of a replaced session never
\* starts it, and a reconnect always stops it.
ClockMatchesClose ==
  \A s \in Socks : s \in leaving <=> s \in seated /\ pc[s] = "done"

\* Nobody loses the seat while the session that holds it stays open, except to
\* a newer session of the same user in the same step.
StayWhileOpen == [][\A s \in seated \ seated' : sock'[s] # "open"]_vars

\* A runtime whose last people all left and that no shadow watches is
\* destroyed, unless somebody takes a seat or a place in it before.
Abandoned(rt) == Seats(rt) # {} /\ Seats(rt) \subseteq leaving /\ Shadows(rt) = {}
Resolved(rt) == rt \in destroyed \/ ~(Seats(rt) \subseteq leaving) \/ Shadows(rt) # {}
AbandonedRoomCloses == \A rt \in Runtimes : Abandoned(rt) ~> Resolved(rt)

----------------------------------------------------------------------------
(* What the repository says and the code does not keep. *)

\* README.md:6 - everyone who entered sees the same frame: two people served
\* in one room share one runtime.
Served(s) == s \notin ShadowSocks /\ sock[s] = "open" /\ pc[s] = "live"
OneRoomOneRuntime ==
  \A s, t \in Socks : Served(s) /\ Served(t) /\ RoomOf[s] = RoomOf[t] => on[s] = on[t]
=============================================================================
