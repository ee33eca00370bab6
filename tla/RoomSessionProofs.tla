------------------------- MODULE RoomSessionProofs -------------------------
(***************************************************************************)
(* Proofs about RoomSession, for any number of users, sockets, rooms and   *)
(* runtimes.                                                               *)
(***************************************************************************)
EXTENDS RoomSession, TLAPS

(* What a handler holds is real: runtimes are numbered from 1 to made, each *)
(* has its room, and whoever sits, or has passed the admission, holds one.  *)
Held ==
  /\ \A s \in Socks : on[s] <= made
  /\ \A s \in seated : on[s] # 0
  /\ \A s \in Socks : pc[s] \in {"member", "welcome", "live", "done"} => on[s] # 0
  /\ \A rt \in 1..made : rtRoom[rt] \in Rooms
  /\ \A r \in Rooms : store[r] <= made
  /\ destroyed \subseteq 1..made

(* The strengthening under which the type invariant is inductive. *)
TypeInv == TypeOK /\ Held

(* Closing only ever turns open sockets into closing ones. *)
LEMMA ClosingType ==
  ASSUME TypeOK, NEW S
  PROVE  /\ Closing(S) \in [Socks -> SockStates]
         /\ \A s \in Socks : s \in S => Closing(S)[s] # "open"
         /\ \A s \in Socks : Closing(S)[s] = "open" => sock[s] = "open"
BY DEF TypeOK, Closing, SockStates

LEMMA TypeInit == Init => TypeInv
BY SessionAssumption DEF Init, TypeInv, TypeOK, Held, SockStates, Stages, Runtimes

(* Removing entries keeps every type, whatever is removed, as long as the   *)
(* runtimes destroyed are runtimes.                                         *)
LEMMA RemoveType ==
  ASSUME TypeInv, NEW gone, NEW dying \in SUBSET Runtimes, RemoveSeats(gone, dying)
  PROVE  /\ seated' \subseteq seated
         /\ leaving' \subseteq seated'
         /\ hidden' \subseteq hidden
         /\ together' \subseteq together
         /\ inCall' \subseteq inCall /\ cams' \subseteq cams
         /\ dying \subseteq 1..made => destroyed' \subseteq 1..made
         /\ destroyed' \subseteq Runtimes
         /\ \A r \in Rooms : store'[r] <= made
         /\ store' \in [Rooms -> 0..MaxRuntimes]
BY SessionAssumption
   DEF TypeInv, TypeOK, Held, RemoveSeats, CallAfter, StoreAfter, Leaves

(* ensureRoomRuntime keeps the numbering. *)
LEMMA EnsureType ==
  ASSUME TypeInv, NEW r \in Rooms, NEW rt \in Runtimes, Ensure(r, rt)
  PROVE  /\ made' \in 0..MaxRuntimes
         /\ made <= made' /\ rt <= made'
         /\ rtRoom' \in [Runtimes -> Rooms \cup {NoRoom}]
         /\ \A t \in 1..made' : rtRoom'[t] \in Rooms
         /\ store' \in [Rooms -> 0..MaxRuntimes]
         /\ \A t \in Rooms : store'[t] <= made'
         /\ destroyed' \subseteq 1..made' /\ destroyed' \subseteq Runtimes
         /\ \A t \in Socks : on[t] <= made'
<1>1. CASE store[r] # 0
  <2>1. rt = store[r] /\ UNCHANGED <<made, rtRoom, destroyed, store>>
    BY <1>1 DEF Ensure, roomVars
  <2>2. /\ made \in 0..MaxRuntimes /\ rtRoom \in [Runtimes -> Rooms \cup {NoRoom}]
        /\ store \in [Rooms -> 0..MaxRuntimes] /\ destroyed \subseteq Runtimes
    BY DEF TypeInv, TypeOK
  <2>3. /\ rt <= made
        /\ \A t \in 1..made : rtRoom[t] \in Rooms
        /\ \A t \in Rooms : store[t] <= made
        /\ destroyed \subseteq 1..made
        /\ \A t \in Socks : on[t] <= made
    BY <2>1 DEF TypeInv, Held
  <2> QED BY <2>1, <2>2, <2>3
<1>2. CASE store[r] = 0
  <2>1. /\ made \in Nat /\ rt = made + 1 /\ rt \in 1..MaxRuntimes /\ made' = rt
        /\ rtRoom' = [rtRoom EXCEPT ![rt] = r]
        /\ store' = [store EXCEPT ![r] = rt]
        /\ destroyed' = destroyed
    BY <1>2, SessionAssumption DEF Ensure, Runtimes, TypeInv, TypeOK
  <2>2. rtRoom' \in [Runtimes -> Rooms \cup {NoRoom}]
    BY <2>1 DEF TypeInv, TypeOK
  <2>3. \A t \in 1..made' : rtRoom'[t] \in Rooms
    BY <2>1, SessionAssumption DEF TypeInv, TypeOK, Held, Runtimes
  <2>4. store' \in [Rooms -> 0..MaxRuntimes] /\ \A t \in Rooms : store'[t] <= made'
    BY <2>1, SessionAssumption DEF TypeInv, TypeOK, Held
  <2>5. /\ destroyed' \subseteq 1..made' /\ destroyed' \subseteq Runtimes
        /\ \A t \in Socks : on[t] <= made'
    BY <2>1, SessionAssumption DEF TypeInv, TypeOK, Held
  <2> QED BY <2>1, <2>2, <2>3, <2>4, <2>5, SessionAssumption
<1> QED BY <1>1, <1>2

(* Taking a seat or a hidden place keeps every type. *)
LEMMA AttachType ==
  ASSUME TypeInv, NEW s \in Socks, NEW rt \in Runtimes, Attach(s, rt),
         rt # 0
  PROVE  /\ sock' \in [Socks -> SockStates]
         /\ seated' \subseteq seated \cup {s}
         /\ leaving' \subseteq seated'
         /\ hidden' \subseteq ShadowSocks
         /\ together' \subseteq Runtimes \X SUBSET Registered
         /\ presence' \in [Users -> Rooms \cup {NoRoom}]
<1>1. CASE s \in ShadowSocks
  BY <1>1 DEF Attach, TypeInv, TypeOK
<1>2. CASE s \notin ShadowSocks
  <2>1. sock' \in [Socks -> SockStates]
    BY <1>2, ClosingType DEF Attach, TypeInv
  <2>2. PairsOf(rt, UserOf[s]) \subseteq Runtimes \X SUBSET Registered
    BY SessionAssumption DEF PairsOf, Present, Seats, Registered, TypeInv, TypeOK
  <2> QED
    BY <1>2, <2>1, <2>2, SessionAssumption DEF Attach, TypeInv, TypeOK, SeatOf, Seats
<1> QED BY <1>1, <1>2

(* What a removal step and an admission step look like to the other parts.  *)
LEMMA TypeNext == TypeInv /\ [Next]_vars => TypeInv'
<1> SUFFICES ASSUME TypeInv, [Next]_vars PROVE TypeInv'
  OBVIOUS
<1> USE SessionAssumption
<1>1. ASSUME NEW s \in Socks, Connect(s) PROVE TypeInv'
  BY <1>1 DEF Connect, TypeInv, TypeOK, Held, Stages, SockStates, roomVars, callVars
<1>2. ASSUME NEW s \in Socks, Lookup(s) PROVE TypeInv'
  BY <1>2, ClosingType DEF Lookup, TypeInv, TypeOK, Held, Stages, roomVars, callVars
<1>3. ASSUME NEW s \in Socks, Refuse(s) PROVE TypeInv'
  BY <1>3, ClosingType DEF Refuse, TypeInv, TypeOK, Held, Stages, roomVars, callVars
<1>4. ASSUME NEW s \in Socks, Admit(s) PROVE TypeInv'
  <2>1. PICK rt \in Runtimes :
          /\ Ensure(RoomOf[s], rt)
          /\ IF s \notin AdminSocks /\ IsAtCapacity(rt) /\ UserOf[s] \notin Present(rt)
             THEN /\ pc' = [pc EXCEPT ![s] = "refused"]
                  /\ sock' = Closing({s})
                  /\ UNCHANGED <<on, seated, leaving, hidden, together, presence>>
             ELSE /\ on' = [on EXCEPT ![s] = rt]
                  /\ IF NeedsMembership(s)
                     THEN /\ pc' = [pc EXCEPT ![s] = "member"]
                          /\ UNCHANGED <<sock, seated, leaving, hidden, together, presence>>
                     ELSE /\ pc' = [pc EXCEPT ![s] = "welcome"]
                          /\ Attach(s, rt)
    BY <1>4 DEF Admit
  <2>2. UNCHANGED <<blocked, inCall, cams, calling, callLog>>
    BY <1>4 DEF Admit, callVars
  <2>3. /\ made' \in 0..MaxRuntimes
        /\ made <= made' /\ rt <= made'
        /\ rtRoom' \in [Runtimes -> Rooms \cup {NoRoom}]
        /\ \A t \in 1..made' : rtRoom'[t] \in Rooms
        /\ store' \in [Rooms -> 0..MaxRuntimes]
        /\ \A t \in Rooms : store'[t] <= made'
        /\ destroyed' \subseteq 1..made' /\ destroyed' \subseteq Runtimes
        /\ \A t \in Socks : on[t] <= made'
    BY <2>1, EnsureType
  <2>4. CASE s \notin AdminSocks /\ IsAtCapacity(rt) /\ UserOf[s] \notin Present(rt)
    <3>1. /\ sock' \in [Socks -> SockStates]
          /\ pc' = [pc EXCEPT ![s] = "refused"]
          /\ UNCHANGED <<on, seated, leaving, hidden, together, presence>>
      BY <2>1, <2>4, ClosingType DEF TypeInv
    <3>2. TypeOK'
      BY <2>2, <2>3, <3>1 DEF TypeInv, TypeOK, Stages
    <3>3. Held'
      BY <2>3, <3>1 DEF TypeInv, TypeOK, Held
    <3> QED BY <3>2, <3>3 DEF TypeInv
  <2>5. CASE /\ ~(s \notin AdminSocks /\ IsAtCapacity(rt) /\ UserOf[s] \notin Present(rt))
             /\ NeedsMembership(s)
    <3>1. /\ on' = [on EXCEPT ![s] = rt] /\ pc' = [pc EXCEPT ![s] = "member"]
          /\ UNCHANGED <<sock, seated, leaving, hidden, together, presence>>
      BY <2>1, <2>5
    <3>2. on' \in [Socks -> 0..MaxRuntimes] /\ pc' \in [Socks -> Stages]
      BY <3>1 DEF TypeInv, TypeOK, Stages, Runtimes
    <3>3. TypeOK'
      BY <2>2, <2>3, <3>1, <3>2 DEF TypeInv, TypeOK
    <3>4. \A t \in Socks : /\ on'[t] = IF t = s THEN rt ELSE on[t]
                           /\ pc'[t] = IF t = s THEN "member" ELSE pc[t]
      BY <3>1 DEF TypeInv, TypeOK
    <3>5. Held'
      <4>1. \A t \in Socks : on'[t] <= made' /\ (t \in seated' => on'[t] # 0)
        BY <2>3, <3>1, <3>4 DEF TypeInv, TypeOK, Held, Runtimes
      <4>2. \A t \in Socks : pc'[t] \in {"member", "welcome", "live", "done"} => on'[t] # 0
        BY <3>4 DEF TypeInv, Held, Runtimes
      <4> QED BY <2>3, <3>1, <4>1, <4>2 DEF Held, TypeInv, TypeOK
    <3> QED BY <3>3, <3>5 DEF TypeInv
  <2>6. CASE /\ ~(s \notin AdminSocks /\ IsAtCapacity(rt) /\ UserOf[s] \notin Present(rt))
             /\ ~NeedsMembership(s)
    <3>1. /\ sock' \in [Socks -> SockStates]
          /\ seated' \subseteq seated \cup {s}
          /\ leaving' \subseteq seated'
          /\ hidden' \subseteq ShadowSocks
          /\ together' \subseteq Runtimes \X SUBSET Registered
          /\ presence' \in [Users -> Rooms \cup {NoRoom}]
      BY <2>1, <2>6, AttachType DEF Runtimes
    <3>2. on' = [on EXCEPT ![s] = rt] /\ pc' = [pc EXCEPT ![s] = "welcome"]
      BY <2>1, <2>6
    <3>3. on' \in [Socks -> 0..MaxRuntimes] /\ pc' \in [Socks -> Stages]
      BY <3>2 DEF TypeInv, TypeOK, Stages, Runtimes
    <3>4. TypeOK'
      BY <2>2, <2>3, <3>1, <3>3 DEF TypeInv, TypeOK
    <3>5. Held'
      BY <2>3, <3>1, <3>2 DEF TypeInv, TypeOK, Held, Runtimes
    <3> QED BY <3>4, <3>5 DEF TypeInv
  <2> QED BY <2>4, <2>5, <2>6
<1>5. ASSUME NEW s \in Socks, Seat(s) PROVE TypeInv'
  <2>1. on[s] \in Runtimes /\ on[s] # 0
    BY <1>5 DEF Seat, TypeInv, TypeOK, Held, Runtimes
  <2>2. /\ sock' \in [Socks -> SockStates]
        /\ seated' \subseteq seated \cup {s}
        /\ leaving' \subseteq seated'
        /\ hidden' \subseteq ShadowSocks
        /\ together' \subseteq Runtimes \X SUBSET Registered
        /\ presence' \in [Users -> Rooms \cup {NoRoom}]
    BY <1>5, <2>1, AttachType DEF Seat
  <2> QED
    BY <1>5, <2>1, <2>2 DEF Seat, TypeInv, TypeOK, Held, Stages, roomVars, callVars
<1>6. ASSUME NEW s \in Socks, Welcome(s) PROVE TypeInv'
  BY <1>6 DEF Welcome, TypeInv, TypeOK, Held, Stages, roomVars, callVars
<1>7. ASSUME NEW s \in Socks, HandlerFails(s) PROVE TypeInv'
  BY <1>7, ClosingType DEF HandlerFails, TypeInv, TypeOK, Held, Stages, roomVars, callVars
<1>8. ASSUME NEW s \in Socks, Drop(s) PROVE TypeInv'
  BY <1>8 DEF Drop, TypeInv, TypeOK, Held, SockStates, roomVars, callVars
<1>9. ASSUME NEW s \in Socks, CloseEvent(s) PROVE TypeInv'
  BY <1>9 DEF CloseEvent, TypeInv, TypeOK, Held, SockStates, Stages, roomVars, callVars
<1>10. ASSUME NEW s \in Socks, GraceExpires(s) PROVE TypeInv'
  <2>1. PICK dying \in SUBSET {on[s]} : RemoveSeats({s}, dying)
    BY <1>10 DEF GraceExpires
  <2>2. dying \subseteq 1..made /\ dying \subseteq Runtimes
    BY <1>10 DEF GraceExpires, TypeInv, TypeOK, Held, Runtimes
  <2> QED
    BY <1>10, <2>1, <2>2, RemoveType DEF GraceExpires, TypeInv, TypeOK, Held
<1>11. ASSUME NEW r \in Rooms, NEW u \in Users, Kick(r, u) PROVE TypeInv'
  <2>1. PICK dying \in SUBSET {store[r]} : RemoveSeats(SeatOf(store[r], u), dying)
    BY <1>11 DEF Kick
  <2>2. dying \subseteq 1..made /\ dying \subseteq Runtimes
    BY <1>11 DEF Kick, TypeInv, TypeOK, Held, Runtimes
  <2> QED
    BY <1>11, <2>1, <2>2, RemoveType, ClosingType DEF Kick, TypeInv, TypeOK, Held
<1>12. ASSUME NEW u \in Blockable, BlockUser(u) PROVE TypeInv'
  <2>1. PICK gone, dying :
          /\ gone \subseteq seated /\ dying \subseteq {on[t] : t \in gone}
          /\ RemoveSeats(gone, dying) /\ sock' = Closing(gone)
    BY <1>12 DEF BlockUser
  <2>2. dying \subseteq 1..made /\ dying \subseteq Runtimes
    BY <2>1 DEF TypeInv, TypeOK, Held, Runtimes
  <2> QED
    BY <1>12, <2>1, <2>2, RemoveType, ClosingType DEF BlockUser, TypeInv, TypeOK, Held
<1>13. ASSUME NEW u \in Blockable, UnblockUser(u) PROVE TypeInv'
  BY <1>13 DEF UnblockUser, TypeInv, TypeOK, Held, roomVars, callVars
<1>14. ASSUME NEW r \in Rooms, ForceClose(r) PROVE TypeInv'
  <2>1. {store[r]} \subseteq 1..made /\ {store[r]} \subseteq Runtimes
    BY <1>14 DEF ForceClose, TypeInv, TypeOK, Held, Runtimes
  <2> QED
    BY <1>14, <2>1, RemoveType, ClosingType DEF ForceClose, TypeInv, TypeOK, Held
<1>15. ASSUME NEW r \in Rooms, RestEnsure(r) PROVE TypeInv'
  <2>1. PICK rt \in Runtimes : Ensure(r, rt)
    BY <1>15 DEF RestEnsure
  <2> QED
    BY <1>15, <2>1, EnsureType DEF RestEnsure, TypeInv, TypeOK, Held, callVars
<1>16. ASSUME NEW u \in HubUsers, HubForgets(u) PROVE TypeInv'
  BY <1>16 DEF HubForgets, TypeInv, TypeOK, Held, roomVars, callVars
<1>17. ASSUME NEW s \in Socks, AskCall(s) PROVE TypeInv'
  BY <1>17 DEF AskCall, TypeInv, TypeOK, Held, roomVars
<1>18. ASSUME NEW s \in Socks, NEW v \in BOOLEAN, JoinCall(s, v) PROVE TypeInv'
  <2> DEFINE me == <<on[s], UserOf[s]>>
  <2>1. /\ UNCHANGED <<sock, pc, on, made, rtRoom, destroyed, store, seated, leaving, hidden,
                       together, presence, blocked>>
        /\ calling' \subseteq calling
        /\ inCall' \subseteq inCall \cup {me}
        /\ cams' \subseteq cams \cup {me}
        /\ callLog' \subseteq callLog \cup {rtRoom[on[s]]}
        /\ SeatOf(on[s], UserOf[s]) = {} \/ UserOf[s] \in Guests
           => UNCHANGED <<inCall, cams, callLog>>
    BY <1>18 DEF JoinCall, roomVars
  <2>2. CASE SeatOf(on[s], UserOf[s]) # {} /\ UserOf[s] \notin Guests
    <3>1. on[s] \in Runtimes /\ rtRoom[on[s]] \in Rooms /\ UserOf[s] \in Registered
      BY <2>2 DEF SeatOf, Seats, TypeInv, TypeOK, Held, Runtimes, Registered
    <3> QED BY <2>1, <3>1 DEF TypeInv, TypeOK, Held
  <2>3. CASE SeatOf(on[s], UserOf[s]) = {} \/ UserOf[s] \in Guests
    BY <2>1, <2>3 DEF TypeInv, TypeOK, Held
  <2> QED BY <2>2, <2>3
<1>19. ASSUME NEW s \in Socks, LeaveCall(s) PROVE TypeInv'
  BY <1>19 DEF LeaveCall, TypeInv, TypeOK, Held, roomVars
<1>20. ASSUME NEW s \in Socks, NEW v \in BOOLEAN, SetCamera(s, v) PROVE TypeInv'
  BY <1>20 DEF SetCamera, TypeInv, TypeOK, Held, roomVars
<1>21. ASSUME NEW r \in Rooms, EndRoomCall(r) PROVE TypeInv'
  BY <1>21 DEF EndRoomCall, TypeInv, TypeOK, Held, roomVars
<1>22. CASE UNCHANGED vars
  BY <1>22 DEF vars, TypeInv, TypeOK, Held
<1> QED
  BY <1>1, <1>2, <1>3, <1>4, <1>5, <1>6, <1>7, <1>8, <1>9, <1>10, <1>11, <1>12, <1>13,
     <1>14, <1>15, <1>16, <1>17, <1>18, <1>19, <1>20, <1>21, <1>22 DEF Next

(* The state of the room sockets, runtimes, entries, pairs, call, presence  *)
(* and block flags always has its type, and a removal timer exists only for *)
(* an entry, whatever order handlers, timers and administrators act in.     *)
THEOREM TypeCorrect == Spec => []TypeOK
<1>1. TypeInv => TypeOK
  BY DEF TypeInv
<1> QED BY <1>1, TypeInit, TypeNext, PTL DEF Spec

----------------------------------------------------------------------------
(* The store and the running runtimes. *)

LEMMA RemoveRuntime ==
  ASSUME TypeInv, OneLiveRuntime, NEW gone, NEW dying \in SUBSET (1..made),
         RemoveSeats(gone, dying), UNCHANGED <<made, rtRoom>>
  PROVE  OneLiveRuntime'
<1> SUFFICES ASSUME NEW rt \in 1..made
             PROVE  rt \notin destroyed' <=> store'[rtRoom[rt]] = rt
  BY DEF OneLiveRuntime
<1>1. rtRoom[rt] \in Rooms /\ (rt \notin destroyed <=> store[rtRoom[rt]] = rt)
  BY DEF TypeInv, Held, OneLiveRuntime
<1>2. store'[rtRoom[rt]] = IF store[rtRoom[rt]] \in dying THEN 0 ELSE store[rtRoom[rt]]
  BY <1>1 DEF RemoveSeats, StoreAfter
<1>3. rt \notin destroyed' <=> rt \notin destroyed /\ rt \notin dying
  BY DEF RemoveSeats
<1> QED BY <1>1, <1>2, <1>3

LEMMA EnsureRuntime ==
  ASSUME TypeInv, OneLiveRuntime, NEW r \in Rooms, NEW rt \in Runtimes, Ensure(r, rt)
  PROVE  OneLiveRuntime'
<1>1. CASE store[r] # 0
  BY <1>1 DEF Ensure, roomVars, OneLiveRuntime
<1>2. CASE store[r] = 0
  <2>1. /\ made \in Nat /\ rt = made + 1 /\ rt \in 1..MaxRuntimes /\ made' = rt
        /\ rtRoom' = [rtRoom EXCEPT ![rt] = r]
        /\ store' = [store EXCEPT ![r] = rt]
        /\ destroyed' = destroyed
    BY <1>2, SessionAssumption DEF Ensure, Runtimes, TypeInv, TypeOK
  <2>2. ASSUME NEW t \in 1..made' PROVE t \notin destroyed' <=> store'[rtRoom'[t]] = t
    <3>1. CASE t = rt
      BY <2>1, <3>1 DEF TypeInv, TypeOK, Held, Runtimes
    <3>2. CASE t # rt
      <4>1. t \in 1..made /\ t \in Runtimes
        BY <2>1, <3>2, SessionAssumption DEF Runtimes
      <4>2. rtRoom'[t] = rtRoom[t] /\ rtRoom[t] \in Rooms
        BY <2>1, <3>2, <4>1 DEF TypeInv, TypeOK, Held
      <4>3. t \notin destroyed <=> store[rtRoom[t]] = t
        BY <4>1 DEF OneLiveRuntime
      <4>4. store'[rtRoom[t]] = t <=> store[rtRoom[t]] = t
        BY <1>2, <2>1, <3>2, <4>1, <4>2 DEF TypeInv, TypeOK
      <4> QED BY <2>1, <4>2, <4>3, <4>4
    <3> QED BY <3>1, <3>2
  <2> QED BY <2>2 DEF OneLiveRuntime
<1> QED BY <1>1, <1>2

LEMMA RuntimeNext == TypeInv /\ OneLiveRuntime /\ [Next]_vars => OneLiveRuntime'
<1> SUFFICES ASSUME TypeInv, OneLiveRuntime, [Next]_vars PROVE OneLiveRuntime'
  OBVIOUS
<1>1. CASE UNCHANGED roomVars
  BY <1>1 DEF roomVars, OneLiveRuntime
<1>2. ASSUME NEW s \in Socks, Admit(s) PROVE OneLiveRuntime'
  BY <1>2, EnsureRuntime, SessionAssumption DEF Admit
<1>3. ASSUME NEW s \in Socks, GraceExpires(s) PROVE OneLiveRuntime'
  <2>1. PICK dying \in SUBSET {on[s]} : RemoveSeats({s}, dying)
    BY <1>3 DEF GraceExpires
  <2>2. dying \subseteq 1..made
    BY <1>3 DEF GraceExpires, TypeInv, TypeOK, Held
  <2> QED BY <1>3, <2>1, <2>2, RemoveRuntime DEF GraceExpires
<1>4. ASSUME NEW r \in Rooms, NEW u \in Users, Kick(r, u) PROVE OneLiveRuntime'
  <2>1. PICK dying \in SUBSET {store[r]} : RemoveSeats(SeatOf(store[r], u), dying)
    BY <1>4 DEF Kick
  <2>2. dying \subseteq 1..made
    BY <1>4 DEF Kick, TypeInv, TypeOK, Held
  <2> QED BY <1>4, <2>1, <2>2, RemoveRuntime DEF Kick
<1>5. ASSUME NEW u \in Blockable, BlockUser(u) PROVE OneLiveRuntime'
  <2>1. PICK gone, dying :
          /\ gone \subseteq seated /\ dying \subseteq {on[t] : t \in gone}
          /\ RemoveSeats(gone, dying)
    BY <1>5 DEF BlockUser
  <2>2. dying \subseteq 1..made
    BY <2>1 DEF TypeInv, TypeOK, Held
  <2> QED BY <1>5, <2>1, <2>2, RemoveRuntime DEF BlockUser
<1>6. ASSUME NEW r \in Rooms, ForceClose(r) PROVE OneLiveRuntime'
  <2>1. {store[r]} \subseteq 1..made
    BY <1>6 DEF ForceClose, TypeInv, TypeOK, Held
  <2> QED BY <1>6, <2>1, RemoveRuntime DEF ForceClose
<1>7. ASSUME NEW r \in Rooms, RestEnsure(r) PROVE OneLiveRuntime'
  BY <1>7, EnsureRuntime DEF RestEnsure
<1>8. ASSUME NEW s \in Socks, NEW v \in BOOLEAN,
             \/ Connect(s) \/ Lookup(s) \/ Refuse(s) \/ Seat(s) \/ Welcome(s) \/ HandlerFails(s)
             \/ Drop(s) \/ CloseEvent(s) \/ AskCall(s) \/ JoinCall(s, v) \/ LeaveCall(s)
             \/ SetCamera(s, v)
      PROVE  UNCHANGED roomVars
  BY <1>8 DEF roomVars, Connect, Lookup, Refuse, Seat, Welcome, HandlerFails, Drop, CloseEvent,
     AskCall, JoinCall, LeaveCall, SetCamera
<1>9. ASSUME NEW r \in Rooms, EndRoomCall(r) PROVE UNCHANGED roomVars
  BY <1>9 DEF roomVars, EndRoomCall
<1>10. ASSUME NEW u \in Users, UnblockUser(u) \/ HubForgets(u) PROVE UNCHANGED roomVars
  BY <1>10 DEF roomVars, UnblockUser, HubForgets
<1>11. CASE UNCHANGED vars
  BY <1>1, <1>11 DEF vars, roomVars
<1> QED
  BY <1>1, <1>2, <1>3, <1>4, <1>5, <1>6, <1>7, <1>8, <1>9, <1>10, <1>11, SessionAssumption
     DEF Next

(* A room never has two runtimes whose timers run, and the store always     *)
(* points to the one it has: ensureRoomRuntime and every path to destroy()  *)
(* agree.                                                                   *)
THEOREM OneRuntimePerRoom == Spec => []OneLiveRuntime
<1>1. Init => OneLiveRuntime
  BY DEF Init, OneLiveRuntime
<1> QED BY <1>1, TypeInit, TypeNext, RuntimeNext, PTL DEF Spec

----------------------------------------------------------------------------
(* Entries and sockets. *)

(* One entry per user and runtime, held by a session past its attach. *)
OneSeat ==
  \A s, t \in seated : on[s] = on[t] /\ UserOf[s] = UserOf[t] => s = t

(* How far a handler is says what its socket can still be. *)
StageOf ==
  /\ \A s \in seated : s \notin ShadowSocks /\ pc[s] \in {"welcome", "live", "done", "refused"}
  /\ \A s \in Socks : pc[s] = "done" => sock[s] = "gone"
  /\ \A s \in Socks : pc[s] = "refused" => sock[s] # "open"

EntryInv == OneSeat /\ StageOf /\ NoOrphanSocket /\ ClockMatchesClose

LEMMA EntryInit == Init => EntryInv
BY DEF Init, EntryInv, OneSeat, StageOf, NoOrphanSocket, ClockMatchesClose

(* Whatever entries are removed, the sockets that lose theirs are not open. *)
LEMMA RemoveEntry ==
  ASSUME TypeInv, EntryInv, NEW gone, NEW dying, RemoveSeats(gone, dying),
         UNCHANGED <<pc, on>>, sock' \in [Socks -> SockStates],
         \A s \in Socks : sock'[s] # sock[s] => sock[s] = "open" /\ sock'[s] = "closing",
         \A s \in seated : s \in gone \/ on[s] \in dying => sock'[s] # "open"
  PROVE  EntryInv'
<1>1. /\ seated' = {s \in seated \ gone : on[s] \notin dying}
      /\ leaving' = {s \in leaving \ gone : on[s] \notin dying}
  BY DEF RemoveSeats
<1>2. OneSeat'
  BY <1>1 DEF EntryInv, OneSeat
<1>3. StageOf'
  BY <1>1 DEF EntryInv, StageOf, TypeInv, TypeOK
<1>4. NoOrphanSocket'
  BY <1>1 DEF EntryInv, NoOrphanSocket
<1>5. ClockMatchesClose'
  BY <1>1 DEF EntryInv, ClockMatchesClose
<1> QED BY <1>2, <1>3, <1>4, <1>5 DEF EntryInv

(* attachSession, by a handler that has not been attached before. *)
LEMMA AttachEntry ==
  ASSUME TypeInv, EntryInv, NEW s \in Socks, NEW rt \in Runtimes, Attach(s, rt),
         pc[s] \in {"cleared", "member"},
         pc' = [pc EXCEPT ![s] = "welcome"], on' = [on EXCEPT ![s] = rt]
  PROVE  EntryInv'
<1>0. s \notin seated /\ s \notin leaving
  BY DEF EntryInv, StageOf, ClockMatchesClose, TypeInv, TypeOK
<1>1. CASE s \in ShadowSocks
  BY <1>0, <1>1 DEF Attach, EntryInv, OneSeat, StageOf, NoOrphanSocket, ClockMatchesClose,
     TypeInv, TypeOK
<1>2. CASE s \notin ShadowSocks
  <2> DEFINE old == SeatOf(rt, UserOf[s])
  <2>1. /\ seated' = (seated \ old) \cup {s}
        /\ leaving' = leaving \ old
        /\ sock' = Closing(old)
        /\ old = {t \in seated : on[t] = rt /\ UserOf[t] = UserOf[s]}
    BY <1>2 DEF Attach, SeatOf, Seats
  <2>2. \A t \in Socks : sock'[t] = IF t \in old /\ sock[t] = "open" THEN "closing" ELSE sock[t]
    BY <2>1 DEF Closing
  <2>3. \A t \in Socks : t # s => on'[t] = on[t] /\ pc'[t] = pc[t]
    BY DEF TypeInv, TypeOK
  <2>4. on'[s] = rt /\ pc'[s] = "welcome" /\ seated \subseteq Socks
    BY DEF TypeInv, TypeOK
  <2> HIDE DEF old
  <2>5. OneSeat'
    BY <1>0, <2>1, <2>3, <2>4 DEF EntryInv, OneSeat
  <2>6. StageOf'
    BY <1>0, <1>2, <2>1, <2>2, <2>3, <2>4 DEF EntryInv, StageOf
  <2>7. NoOrphanSocket'
    BY <1>0, <2>1, <2>2, <2>3, <2>4 DEF EntryInv, NoOrphanSocket
  <2>8. ClockMatchesClose'
    BY <1>0, <2>1, <2>3, <2>4 DEF EntryInv, ClockMatchesClose
  <2> QED BY <2>5, <2>6, <2>7, <2>8 DEF EntryInv
<1> QED BY <1>1, <1>2

LEMMA EntryNext == TypeInv /\ EntryInv /\ [Next]_vars => EntryInv'
<1> SUFFICES ASSUME TypeInv, EntryInv, [Next]_vars PROVE EntryInv'
  OBVIOUS
<1> USE DEF EntryInv, OneSeat, StageOf, NoOrphanSocket, ClockMatchesClose, TypeInv, TypeOK
<1>1. CASE UNCHANGED <<sock, pc, on, seated, leaving>>
  BY <1>1
<1>2. ASSUME NEW s \in Socks, Connect(s) PROVE EntryInv'
  BY <1>2 DEF Connect
<1>3. ASSUME NEW s \in Socks, Lookup(s) \/ Refuse(s) \/ HandlerFails(s) PROVE EntryInv'
  BY <1>3, ClosingType DEF Lookup, Refuse, HandlerFails, Closing
<1>4. ASSUME NEW s \in Socks, Welcome(s) \/ Drop(s) PROVE EntryInv'
  BY <1>4 DEF Welcome, Drop
<1>5. ASSUME NEW s \in Socks, CloseEvent(s) PROVE EntryInv'
  BY <1>5 DEF CloseEvent
<1>6. ASSUME NEW s \in Socks, Seat(s) PROVE EntryInv'
  <2>1. on[s] \in Runtimes /\ on' = [on EXCEPT ![s] = on[s]]
    BY <1>6, SessionAssumption DEF Seat, Held, Runtimes
  <2> QED BY <1>6, <2>1, AttachEntry DEF Seat
<1>7. ASSUME NEW s \in Socks, Admit(s) PROVE EntryInv'
  <2>1. s \notin seated
    BY <1>7 DEF Admit
  <2>2. PICK rt \in Runtimes :
          IF s \notin AdminSocks /\ IsAtCapacity(rt) /\ UserOf[s] \notin Present(rt)
          THEN /\ pc' = [pc EXCEPT ![s] = "refused"]
               /\ sock' = Closing({s})
               /\ UNCHANGED <<on, seated, leaving, hidden, together, presence>>
          ELSE /\ on' = [on EXCEPT ![s] = rt]
               /\ IF NeedsMembership(s)
                  THEN /\ pc' = [pc EXCEPT ![s] = "member"]
                       /\ UNCHANGED <<sock, seated, leaving, hidden, together, presence>>
                  ELSE /\ pc' = [pc EXCEPT ![s] = "welcome"]
                       /\ Attach(s, rt)
    BY <1>7 DEF Admit
  <2>3. CASE s \notin AdminSocks /\ IsAtCapacity(rt) /\ UserOf[s] \notin Present(rt)
    <3>1. /\ pc' = [pc EXCEPT ![s] = "refused"]
          /\ UNCHANGED <<on, seated, leaving>>
          /\ \A t \in Socks : sock'[t] = IF t = s /\ sock[t] = "open" THEN "closing" ELSE sock[t]
      BY <2>2, <2>3 DEF Closing
    <3>2. sock'[s] # "open"
      BY <3>1
    <3> QED BY <2>1, <3>1, <3>2, <1>7 DEF Admit
  <2>4. CASE ~(s \notin AdminSocks /\ IsAtCapacity(rt) /\ UserOf[s] \notin Present(rt))
    <3>1. CASE NeedsMembership(s)
      BY <2>1, <2>2, <2>4, <3>1
    <3>2. CASE ~NeedsMembership(s)
      BY <1>7, <2>2, <2>4, <3>2, AttachEntry DEF Admit
    <3> QED BY <3>1, <3>2
  <2> QED BY <2>3, <2>4
<1> HIDE DEF EntryInv, OneSeat, StageOf, NoOrphanSocket, ClockMatchesClose, TypeInv, TypeOK
<1>8. ASSUME NEW s \in Socks, GraceExpires(s) PROVE EntryInv'
  <2> DEFINE dying == IF Seats(on[s]) = {s} /\ Shadows(on[s]) = {} /\ on[s] \notin destroyed
                      THEN {on[s]} ELSE {}
  <2>0. RemoveSeats({s}, dying)
    BY <1>8 DEF GraceExpires
  <2>1. \A rt \in dying : rt = on[s] /\ Seats(rt) = {s}
    OBVIOUS
  <2> HIDE DEF dying
  <2>2. sock[s] = "gone" /\ UNCHANGED <<sock, pc, on>>
    BY <1>8 DEF GraceExpires, EntryInv, StageOf, ClockMatchesClose, TypeInv, TypeOK
  <2>3. \A t \in seated : t \in {s} \/ on[t] \in dying => t = s
    BY <2>1 DEF Seats
  <2>4. sock' \in [Socks -> SockStates]
    BY <2>2 DEF TypeInv, TypeOK
  <2> QED BY <2>0, <2>1, <2>2, <2>3, <2>4, RemoveEntry
<1>9. ASSUME NEW r \in Rooms, NEW u \in Users, Kick(r, u) PROVE EntryInv'
  <2> DEFINE dying == IF Seats(store[r]) = SeatOf(store[r], u) THEN {store[r]} ELSE {}
  <2>0. RemoveSeats(SeatOf(store[r], u), dying)
    BY <1>9 DEF Kick
  <2>1. \A rt \in dying : Seats(rt) = SeatOf(store[r], u)
    OBVIOUS
  <2> HIDE DEF dying
  <2>2. /\ sock' = Closing(SeatOf(store[r], u)) /\ UNCHANGED <<pc, on>>
        /\ sock' \in [Socks -> SockStates]
    BY <1>9, ClosingType DEF Kick, TypeInv
  <2>3. \A t \in seated : t \in SeatOf(store[r], u) \/ on[t] \in dying => t \in SeatOf(store[r], u)
    BY <2>1 DEF Seats
  <2>4. /\ \A t \in Socks : sock'[t] # sock[t] => sock[t] = "open" /\ sock'[t] = "closing"
        /\ \A t \in seated : t \in SeatOf(store[r], u) => sock'[t] # "open"
    BY <2>2 DEF Closing, TypeInv, TypeOK
  <2> QED BY <2>0, <2>1, <2>2, <2>3, <2>4, RemoveEntry
<1>10. ASSUME NEW u \in Blockable, BlockUser(u) PROVE EntryInv'
  <2> DEFINE gone == {t \in seated : UserOf[t] = u /\ on[t] \notin destroyed}
             dying == {rt \in {on[t] : t \in gone} : Seats(rt) \subseteq gone /\ Shadows(rt) = {}}
  <2>1. /\ gone \subseteq seated
        /\ \A rt \in dying : Seats(rt) \subseteq gone
        /\ RemoveSeats(gone, dying) /\ sock' = Closing(gone)
    BY <1>10 DEF BlockUser
  <2> HIDE DEF gone, dying
  <2>2. UNCHANGED <<pc, on>> /\ sock' \in [Socks -> SockStates]
    BY <1>10, <2>1, ClosingType DEF BlockUser, TypeInv
  <2>3. \A t \in seated : t \in gone \/ on[t] \in dying => t \in gone
    BY <2>1 DEF Seats
  <2>4. /\ \A t \in Socks : sock'[t] # sock[t] => sock[t] = "open" /\ sock'[t] = "closing"
        /\ \A t \in seated : t \in gone => sock'[t] # "open"
    BY <2>1, <2>2 DEF Closing, TypeInv, TypeOK
  <2> QED BY <2>1, <2>2, <2>3, <2>4, RemoveEntry
<1>11. ASSUME NEW r \in Rooms, ForceClose(r) PROVE EntryInv'
  <2>1. /\ RemoveSeats(Seats(store[r]), {store[r]})
        /\ sock' = Closing(Seats(store[r]) \cup Shadows(store[r]))
        /\ UNCHANGED <<pc, on>> /\ sock' \in [Socks -> SockStates]
    BY <1>11, ClosingType DEF ForceClose, TypeInv
  <2>2. \A t \in seated : t \in Seats(store[r]) \/ on[t] \in {store[r]} => t \in Seats(store[r])
    BY DEF Seats
  <2>3. /\ \A t \in Socks : sock'[t] # sock[t] => sock[t] = "open" /\ sock'[t] = "closing"
        /\ \A t \in seated : t \in Seats(store[r]) => sock'[t] # "open"
    BY <2>1 DEF Closing, TypeInv, TypeOK
  <2> QED BY <2>1, <2>2, <2>3, RemoveEntry
<1>12. ASSUME NEW s \in Socks, NEW v \in BOOLEAN,
              AskCall(s) \/ JoinCall(s, v) \/ LeaveCall(s) \/ SetCamera(s, v)
       PROVE  UNCHANGED <<sock, pc, on, seated, leaving>>
  BY <1>12 DEF AskCall, JoinCall, LeaveCall, SetCamera
<1>13. ASSUME NEW r \in Rooms, EndRoomCall(r) \/ RestEnsure(r)
       PROVE  UNCHANGED <<sock, pc, on, seated, leaving>>
  BY <1>13 DEF EndRoomCall, RestEnsure
<1>14. ASSUME NEW u \in Users, UnblockUser(u) \/ HubForgets(u)
       PROVE  UNCHANGED <<sock, pc, on, seated, leaving>>
  BY <1>14 DEF UnblockUser, HubForgets
<1>15. CASE UNCHANGED vars
  BY <1>1, <1>15 DEF vars
<1> QED
  BY <1>1, <1>2, <1>3, <1>4, <1>5, <1>6, <1>7, <1>8, <1>9, <1>10, <1>11, <1>12, <1>13, <1>14,
     <1>15, SessionAssumption DEF Next

(* Whoever is welcomed on an open socket holds the entry of that user: no   *)
(* order of reconnects, late closes, kicks and timers separates the two     *)
(* (attachSession, detachSession).                                          *)
THEOREM SocketsHoldTheirSeats == Spec => []NoOrphanSocket
<1>1. EntryInv => NoOrphanSocket
  BY DEF EntryInv
<1> QED BY <1>1, TypeInit, TypeNext, EntryInit, EntryNext, PTL DEF Spec

(* The removal timer of an entry runs exactly when the close of the session *)
(* that holds it was heard: a late close of a replaced session never starts *)
(* it, a reconnect always stops it (detachSession, attachSession).          *)
THEOREM TimersMatchCloses == Spec => []ClockMatchesClose
<1>1. EntryInv => ClockMatchesClose
  BY DEF EntryInv
<1> QED BY <1>1, TypeInit, TypeNext, EntryInit, EntryNext, PTL DEF Spec

(* A handler that was attached never goes back before its attach.           *)
LEMMA StageNext ==
  TypeInv /\ [Next]_vars =>
    \A s \in Socks : pc[s] \in {"welcome", "live", "done", "refused"}
                    => pc'[s] \in {"welcome", "live", "done", "refused"}
<1> SUFFICES ASSUME TypeInv, [Next]_vars,
                    NEW s \in Socks, pc[s] \in {"welcome", "live", "done", "refused"}
             PROVE  pc'[s] \in {"welcome", "live", "done", "refused"}
  OBVIOUS
<1>1. CASE UNCHANGED pc
  BY <1>1
<1>2. ASSUME NEW t \in Socks,
             \/ Connect(t) \/ Lookup(t) \/ Refuse(t) \/ Admit(t) \/ Seat(t)
             \/ Welcome(t) \/ HandlerFails(t) \/ CloseEvent(t)
      PROVE  pc'[s] \in {"welcome", "live", "done", "refused"}
  BY <1>2 DEF Connect, Lookup, Refuse, Admit, Seat, Welcome, HandlerFails, CloseEvent,
     TypeInv, TypeOK
<1>3. ASSUME NEW t \in Socks, NEW v \in BOOLEAN,
             \/ Drop(t) \/ GraceExpires(t) \/ AskCall(t) \/ JoinCall(t, v) \/ LeaveCall(t)
             \/ SetCamera(t, v)
      PROVE  UNCHANGED pc
  BY <1>3 DEF Drop, GraceExpires, AskCall, JoinCall, LeaveCall, SetCamera
<1>4. CASE \E r \in Rooms : \/ \E u \in Users : Kick(r, u)
                           \/ ForceClose(r) \/ RestEnsure(r) \/ EndRoomCall(r)
  BY <1>1, <1>4 DEF Kick, ForceClose, RestEnsure, EndRoomCall
<1>5. CASE UNCHANGED vars
  BY <1>5 DEF vars
<1>6. CASE \E u \in Blockable : BlockUser(u) \/ UnblockUser(u)
  BY <1>1, <1>6 DEF BlockUser, UnblockUser
<1>7. CASE \E u \in HubUsers : HubForgets(u)
  BY <1>1, <1>7 DEF HubForgets
<1> QED BY <1>1, <1>2, <1>3, <1>4, <1>5, <1>6, <1>7 DEF Next

(* Nobody loses the place in a room while the socket that holds it stays    *)
(* open: every path that removes an entry closes or has seen closed its     *)
(* socket.                                                                  *)
THEOREM NobodyLosesAnOpenSeat == Spec => StayWhileOpen
<1>1. TypeInv /\ EntryInv /\ EntryInv' /\ [Next]_vars
      => [\A s \in seated \ seated' : sock'[s] # "open"]_vars
  <2> SUFFICES ASSUME TypeInv, EntryInv, EntryInv', [Next]_vars,
                      NEW s \in seated \ seated'
               PROVE  sock'[s] # "open"
    OBVIOUS
  <2>1. s \in Socks \ ShadowSocks /\ pc'[s] \in {"welcome", "live", "done", "refused"}
    BY StageNext DEF EntryInv, StageOf, TypeInv, TypeOK
  <2> QED BY <2>1 DEF EntryInv, StageOf, NoOrphanSocket
<1> QED BY <1>1, TypeInit, TypeNext, EntryInit, EntryNext, PTL DEF Spec, StayWhileOpen

=============================================================================
