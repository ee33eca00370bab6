-------------------------- MODULE RoomPeopleProofs --------------------------
(***************************************************************************)
(* Proofs about the people of a room, for any number of users, sockets,    *)
(* rooms and runtimes: whose time together counts, and who is in the call. *)
(***************************************************************************)
EXTENDS RoomSessionProofs, FiniteSetTheorems

----------------------------------------------------------------------------
(* Presence. *)

(* A removal takes away exactly those whose entry it removes. *)
LEMMA PresentAfterRemove ==
  ASSUME TypeInv, EntryInv, NEW gone \in SUBSET seated, NEW dying, RemoveSeats(gone, dying),
         on' = on, NEW rt \in Runtimes, NEW u \in Users
  PROVE  u \in Present(rt)' <=> u \in Present(rt) /\ rt \notin dying /\ ~Leaves(rt, u, gone)
<1>1. seated' = {s \in seated \ gone : on[s] \notin dying} /\ seated \subseteq Socks
  BY DEF RemoveSeats, TypeInv, TypeOK
<1>2. u \in Present(rt) <=> \E s \in seated : on[s] = rt /\ UserOf[s] = u
  BY DEF Present, Seats
<1>3. u \in Present(rt)' <=> \E s \in seated' : on[s] = rt /\ UserOf[s] = u
  BY DEF Present, Seats
<1>4. ASSUME NEW s \in seated', on[s] = rt, UserOf[s] = u
      PROVE  ~Leaves(rt, u, gone)
  BY <1>1, <1>4 DEF Leaves, EntryInv, OneSeat
<1> QED BY <1>1, <1>2, <1>3, <1>4 DEF Leaves

(* An attach adds its user to its runtime, and nobody anywhere else. *)
LEMMA PresentAfterAttach ==
  ASSUME TypeInv, EntryInv, NEW s \in Socks, s \notin ShadowSocks, s \notin seated,
         NEW rt \in Runtimes, Attach(s, rt), on' = [on EXCEPT ![s] = rt],
         NEW r \in Runtimes, NEW u \in Users
  PROVE  u \in Present(r)' <=> u \in Present(r) \/ (r = rt /\ u = UserOf[s])
<1>1. /\ seated' = (seated \ SeatOf(rt, UserOf[s])) \cup {s}
      /\ seated \subseteq Socks
      /\ \A t \in Socks : on'[t] = IF t = s THEN rt ELSE on[t]
  BY DEF Attach, TypeInv, TypeOK
<1>2. u \in Present(r) <=> \E t \in seated : on[t] = r /\ UserOf[t] = u
  BY DEF Present, Seats
<1>3. u \in Present(r)' <=> \E t \in seated' : on'[t] = r /\ UserOf[t] = u
  BY DEF Present, Seats
<1>4. \A t : t \in SeatOf(rt, UserOf[s]) <=> t \in seated /\ on[t] = rt /\ UserOf[t] = UserOf[s]
  BY DEF SeatOf, Seats
<1> QED BY <1>1, <1>2, <1>3, <1>4

(* Whoever sits is in the numbered part of the runtimes. *)
LEMMA SeatedRuntime ==
  ASSUME TypeInv, NEW s \in seated
  PROVE  s \in Socks /\ UserOf[s] \in Users /\ on[s] \in Runtimes /\ on[s] \in 1..made
BY SessionAssumption DEF TypeInv, TypeOK, Held, Runtimes

----------------------------------------------------------------------------
(* What a step does to the people: it removes some, attaches one, concerns  *)
(* the call, or leaves them alone.                                          *)

RemovalStep ==
  \E gone \in SUBSET seated, dying \in SUBSET (1..made) :
    RemoveSeats(gone, dying) /\ on' = on

AttachStep ==
  \E s \in Socks \ (ShadowSocks \cup seated), rt \in Runtimes :
    /\ Attach(s, rt) /\ on' = [on EXCEPT ![s] = rt]
    /\ UNCHANGED <<inCall, cams>>

CallStep ==
  \/ \E s \in Socks : LeaveCall(s) \/ \E v \in BOOLEAN : JoinCall(s, v) \/ SetCamera(s, v)
  \/ \E r \in Rooms : EndRoomCall(r)

OtherStep ==
  /\ UNCHANGED <<seated, together, inCall, cams>>
  /\ \A s \in seated : on'[s] = on[s]

LEMMA AttachOrHide ==
  ASSUME TypeInv, EntryInv, NEW s \in Socks, NEW rt \in Runtimes, s \notin seated,
         Attach(s, rt), on' = [on EXCEPT ![s] = rt], UNCHANGED <<inCall, cams>>
  PROVE  AttachStep \/ OtherStep
<1>1. CASE s \in ShadowSocks
  BY <1>1 DEF Attach, OtherStep, TypeInv, TypeOK
<1>2. CASE s \notin ShadowSocks
  BY <1>2 DEF AttachStep
<1> QED BY <1>1, <1>2

LEMMA Steps ==
  ASSUME TypeInv, EntryInv, [Next]_vars
  PROVE  RemovalStep \/ AttachStep \/ CallStep \/ OtherStep
<1>1. ASSUME NEW s \in Socks,
             \/ Connect(s) \/ Lookup(s) \/ Refuse(s) \/ Welcome(s) \/ HandlerFails(s)
             \/ Drop(s) \/ CloseEvent(s) \/ AskCall(s)
      PROVE  OtherStep
  BY <1>1 DEF Connect, Lookup, Refuse, Welcome, HandlerFails, Drop, CloseEvent, AskCall, OtherStep,
     callVars
<1>2. ASSUME NEW s \in Socks, Seat(s) PROVE AttachStep \/ OtherStep
  <2>1. on[s] \in Runtimes
    BY <1>2, SessionAssumption DEF Seat, TypeInv, TypeOK, Held, Runtimes
  <2>2. on' = [on EXCEPT ![s] = on[s]]
    BY <1>2 DEF Seat, TypeInv, TypeOK
  <2>3. s \notin seated
    BY <1>2 DEF Seat, EntryInv, StageOf
  <2> QED BY <1>2, <2>1, <2>2, <2>3, AttachOrHide DEF Seat, callVars
<1>3. ASSUME NEW s \in Socks, Admit(s) PROVE AttachStep \/ OtherStep
  <2>1. s \notin seated /\ UNCHANGED <<inCall, cams>>
    BY <1>3 DEF Admit, EntryInv, StageOf, callVars
  <2>2. PICK rt \in Runtimes :
          \/ UNCHANGED <<on, seated, together>>
          \/ on' = [on EXCEPT ![s] = rt] /\ UNCHANGED <<seated, together>>
          \/ on' = [on EXCEPT ![s] = rt] /\ Attach(s, rt)
    BY <1>3 DEF Admit
  <2>3. CASE UNCHANGED <<on, seated, together>>
    BY <2>1, <2>3 DEF OtherStep
  <2>4. CASE on' = [on EXCEPT ![s] = rt] /\ UNCHANGED <<seated, together>>
    BY <2>1, <2>4 DEF OtherStep, TypeInv, TypeOK
  <2>5. CASE on' = [on EXCEPT ![s] = rt] /\ Attach(s, rt)
    BY <2>1, <2>5, AttachOrHide
  <2> QED BY <2>2, <2>3, <2>4, <2>5
<1>4. ASSUME NEW s \in Socks, GraceExpires(s) PROVE RemovalStep
  <2>1. PICK dying \in SUBSET {on[s]} : RemoveSeats({s}, dying) /\ on' = on
    BY <1>4 DEF GraceExpires
  <2>2. {s} \subseteq seated /\ dying \subseteq 1..made
    BY <1>4, SeatedRuntime DEF GraceExpires, TypeInv, TypeOK
  <2> QED BY <2>1, <2>2 DEF RemovalStep
<1>5. ASSUME NEW r \in Rooms, NEW u \in Users, Kick(r, u) PROVE RemovalStep
  <2>1. PICK dying \in SUBSET {store[r]} : RemoveSeats(SeatOf(store[r], u), dying) /\ on' = on
    BY <1>5 DEF Kick
  <2>2. SeatOf(store[r], u) \subseteq seated /\ dying \subseteq 1..made
    BY <1>5 DEF Kick, SeatOf, Seats, TypeInv, TypeOK, Held
  <2> QED BY <2>1, <2>2 DEF RemovalStep
<1>6. ASSUME NEW u \in Blockable, BlockUser(u) PROVE RemovalStep
  <2>1. PICK gone, dying :
          /\ gone \subseteq seated /\ dying \subseteq {on[t] : t \in gone}
          /\ RemoveSeats(gone, dying) /\ on' = on
    BY <1>6 DEF BlockUser
  <2>2. dying \subseteq 1..made
    BY <2>1, SeatedRuntime
  <2> QED BY <2>1, <2>2 DEF RemovalStep
<1>7. ASSUME NEW r \in Rooms, ForceClose(r) PROVE RemovalStep
  <2>1. /\ RemoveSeats(Seats(store[r]), {store[r]}) /\ on' = on
        /\ Seats(store[r]) \subseteq seated /\ {store[r]} \subseteq 1..made
    BY <1>7 DEF ForceClose, Seats, TypeInv, TypeOK, Held
  <2> QED BY <2>1 DEF RemovalStep
<1>8. ASSUME NEW r \in Rooms, RestEnsure(r) PROVE OtherStep
  BY <1>8 DEF RestEnsure, OtherStep, callVars
<1>9. ASSUME NEW u \in Users, UnblockUser(u) \/ HubForgets(u) PROVE OtherStep
  BY <1>9 DEF UnblockUser, HubForgets, OtherStep, callVars
<1>10. CASE UNCHANGED vars
  BY <1>10 DEF vars, OtherStep
<1> QED
  BY <1>1, <1>2, <1>3, <1>4, <1>5, <1>6, <1>7, <1>8, <1>9, <1>10, SessionAssumption
     DEF Next, CallStep

----------------------------------------------------------------------------
(* Time together. *)

LEMMA TogetherRemoval ==
  ASSUME TypeInv, EntryInv, TogetherExact, RemovalStep PROVE TogetherExact'
<1>1. PICK gone \in SUBSET seated, dying \in SUBSET (1..made) :
        RemoveSeats(gone, dying) /\ on' = on
  BY DEF RemovalStep
<1> SUFFICES ASSUME NEW rt \in Runtimes, NEW u \in Users, NEW v \in Users
             PROVE  <<rt, {u, v}>> \in together'
                    <=> u # v /\ {u, v} \subseteq Present(rt)' \ Guests
  BY DEF TogetherExact
<1>2. <<rt, {u, v}>> \in together'
      <=> /\ <<rt, {u, v}>> \in together /\ rt \notin dying
          /\ ~Leaves(rt, u, gone) /\ ~Leaves(rt, v, gone)
  BY <1>1 DEF RemoveSeats
<1>3. <<rt, {u, v}>> \in together
      <=> u # v /\ u \in Present(rt) \ Guests /\ v \in Present(rt) \ Guests
  BY DEF TogetherExact
<1> QED BY <1>1, <1>2, <1>3, PresentAfterRemove

LEMMA TogetherAttach ==
  ASSUME TypeInv, EntryInv, TogetherExact, AttachStep PROVE TogetherExact'
<1>1. PICK s \in Socks \ (ShadowSocks \cup seated), rt \in Runtimes :
        Attach(s, rt) /\ on' = [on EXCEPT ![s] = rt]
  BY DEF AttachStep
<1> DEFINE w == UserOf[s]
<1>2. /\ w \in Users
      /\ together' = IF SeatOf(rt, w) = {} THEN together \cup PairsOf(rt, w) ELSE together
  BY <1>1, SessionAssumption DEF Attach
<1>3. SeatOf(rt, w) = {} <=> w \notin Present(rt)
  BY DEF SeatOf, Present
<1> HIDE DEF w
<1> SUFFICES ASSUME NEW r \in Runtimes, NEW u \in Users, NEW v \in Users
             PROVE  <<r, {u, v}>> \in together'
                    <=> u # v /\ {u, v} \subseteq Present(r)' \ Guests
  BY DEF TogetherExact
<1>4. <<r, {u, v}>> \in together
      <=> u # v /\ u \in Present(r) \ Guests /\ v \in Present(r) \ Guests
  BY DEF TogetherExact
<1>5. /\ u \in Present(r)' <=> u \in Present(r) \/ (r = rt /\ u = w)
      /\ v \in Present(r)' <=> v \in Present(r) \/ (r = rt /\ v = w)
  BY <1>1, PresentAfterAttach DEF w
<1>6. <<r, {u, v}>> \in PairsOf(rt, w)
      <=> /\ r = rt /\ w \notin Guests
          /\ \E x \in (Present(rt) \ Guests) \ {w} : {u, v} = {w, x}
  BY DEF PairsOf
<1>7. \A x : {u, v} = {w, x} <=> (u = w /\ v = x) \/ (u = x /\ v = w)
  OBVIOUS
<1>8. CASE SeatOf(rt, w) = {}
  BY <1>2, <1>3, <1>4, <1>5, <1>6, <1>7, <1>8
<1>9. CASE SeatOf(rt, w) # {}
  BY <1>2, <1>3, <1>4, <1>5, <1>9
<1> QED BY <1>8, <1>9

LEMMA TogetherStays ==
  ASSUME TypeInv, TogetherExact, UNCHANGED <<seated, together>>,
         \A s \in seated : on'[s] = on[s]
  PROVE  TogetherExact'
<1>1. \A rt : Present(rt)' = Present(rt)
  BY DEF Present, Seats
<1> QED BY <1>1 DEF TogetherExact

LEMMA TogetherNext ==
  ASSUME TypeInv, EntryInv, TogetherExact, [Next]_vars PROVE TogetherExact'
<1>1. CallStep => UNCHANGED <<seated, together, on>>
  BY DEF CallStep, LeaveCall, JoinCall, SetCamera, EndRoomCall
<1> QED
  BY <1>1, Steps, TogetherRemoval, TogetherAttach, TogetherStays DEF OtherStep

(* The pairs whose shared time counts are exactly the pairs of registered   *)
(* users present, in every incarnation of a runtime: no removal path leaves *)
(* a pair behind, no reconnect anchors one anew, no guest is ever counted.  *)
THEOREM TimeTogetherIsOfThePresent == Spec => []TogetherExact
<1>1. Init => TogetherExact
  BY DEF Init, TogetherExact, Present, Seats
<1>2. TypeInv /\ EntryInv /\ TogetherExact /\ [Next]_vars => TogetherExact'
  BY TogetherNext
<1> QED BY <1>1, <1>2, TypeInit, TypeNext, EntryInit, EntryNext, PTL DEF Spec

----------------------------------------------------------------------------
(* The call. *)

Cameras(rt) == {c \in cams : c[1] = rt}

(* What is inductive about the call: its members sit, its cameras are its   *)
(* members', and it is finite, so that its limits can be counted.           *)
CallInv ==
  /\ \A c \in inCall : SeatOf(c[1], c[2]) # {}
  /\ cams \subseteq inCall
  /\ \A rt \in Runtimes :
       /\ IsFiniteSet(Callers(rt)) /\ Cardinality(Callers(rt)) <= MaxVoice
       /\ IsFiniteSet(Cameras(rt)) /\ Cardinality(Cameras(rt)) <= MaxVideo

(* Fewer members and fewer cameras are within the limits too. *)
LEMMA FewerWithin ==
  ASSUME CallInv, inCall' \subseteq inCall, cams' \subseteq cams, NEW rt \in Runtimes
  PROVE  /\ IsFiniteSet(Callers(rt)') /\ Cardinality(Callers(rt)') <= MaxVoice
         /\ IsFiniteSet(Cameras(rt)') /\ Cardinality(Cameras(rt)') <= MaxVideo
<1>1. Callers(rt)' \subseteq Callers(rt) /\ Cameras(rt)' \subseteq Cameras(rt)
  BY DEF Callers, Cameras
<1>2. /\ IsFiniteSet(Callers(rt)) /\ Cardinality(Callers(rt)) <= MaxVoice
      /\ IsFiniteSet(Cameras(rt)) /\ Cardinality(Cameras(rt)) <= MaxVideo
  BY DEF CallInv
<1>3. /\ IsFiniteSet(Callers(rt)') /\ Cardinality(Callers(rt)') <= Cardinality(Callers(rt))
      /\ IsFiniteSet(Cameras(rt)') /\ Cardinality(Cameras(rt)') <= Cardinality(Cameras(rt))
  BY <1>1, <1>2, FS_Subset
<1>4. /\ Cardinality(Callers(rt)) \in Nat /\ Cardinality(Callers(rt)') \in Nat
      /\ Cardinality(Cameras(rt)) \in Nat /\ Cardinality(Cameras(rt)') \in Nat
      /\ MaxVoice \in Nat /\ MaxVideo \in Nat
  BY <1>2, <1>3, FS_CardinalityType, SessionAssumption
<1> QED BY <1>2, <1>3, <1>4

LEMMA CallRemoval ==
  ASSUME TypeInv, EntryInv, CallInv, RemovalStep PROVE CallInv'
<1>1. PICK gone \in SUBSET seated, dying \in SUBSET (1..made) :
        RemoveSeats(gone, dying) /\ on' = on
  BY DEF RemovalStep
<1>2. /\ inCall' = CallAfter(inCall, gone, dying) /\ cams' = CallAfter(cams, gone, dying)
      /\ inCall' \subseteq inCall /\ cams' \subseteq cams
  BY <1>1 DEF RemoveSeats, CallAfter
<1>3. cams' \subseteq inCall'
  BY <1>2 DEF CallInv, CallAfter
<1>4. ASSUME NEW c \in inCall' PROVE SeatOf(c[1], c[2])' # {}
  <2>1. c \in inCall /\ c[1] \notin dying /\ ~Leaves(c[1], c[2], gone)
    BY <1>2 DEF CallAfter
  <2>2. PICK s \in seated : on[s] = c[1] /\ UserOf[s] = c[2]
    BY <2>1 DEF CallInv, SeatOf, Seats
  <2>3. s \in seated'
    BY <1>1, <2>1, <2>2 DEF RemoveSeats, Leaves
  <2> QED BY <1>1, <2>2, <2>3 DEF SeatOf, Seats
<1> QED BY <1>2, <1>3, <1>4, FewerWithin DEF CallInv

LEMMA CallAttach ==
  ASSUME TypeInv, EntryInv, CallInv, AttachStep PROVE CallInv'
<1>1. PICK s \in Socks \ (ShadowSocks \cup seated), rt \in Runtimes :
        /\ Attach(s, rt) /\ on' = [on EXCEPT ![s] = rt]
        /\ UNCHANGED <<inCall, cams>>
  BY DEF AttachStep
<1>2. ASSUME NEW c \in inCall PROVE SeatOf(c[1], c[2])' # {}
  <2>1. PICK t \in seated : on[t] = c[1] /\ UserOf[t] = c[2]
    BY DEF CallInv, SeatOf, Seats
  <2>2. /\ seated' = (seated \ SeatOf(rt, UserOf[s])) \cup {s} /\ t \in Socks
        /\ on'[t] = on[t] /\ on'[s] = rt
    BY <1>1 DEF Attach, TypeInv, TypeOK
  <2>3. CASE t \in SeatOf(rt, UserOf[s])
    BY <2>1, <2>2, <2>3 DEF SeatOf, Seats
  <2>4. CASE t \notin SeatOf(rt, UserOf[s])
    BY <2>1, <2>2, <2>4 DEF SeatOf, Seats
  <2> QED BY <2>3, <2>4
<1> QED BY <1>1, <1>2, FewerWithin DEF CallInv

(* Whoever sat before the step sits after it. *)
LEMMA SeatOfStays ==
  ASSUME NEW rt, NEW u, UNCHANGED seated, \A s \in seated : on'[s] = on[s]
  PROVE  SeatOf(rt, u)' = SeatOf(rt, u)
BY DEF SeatOf, Seats

(* One more below a limit is within it. *)
LEMMA OneMore ==
  ASSUME NEW S, NEW T, NEW x, NEW limit \in Nat, IsFiniteSet(S), Cardinality(S) <= limit,
         T = S \/ (T = S \cup {x} /\ Cardinality(S) < limit)
  PROVE  IsFiniteSet(T) /\ Cardinality(T) <= limit
<1>1. Cardinality(S) \in Nat
  BY FS_CardinalityType
<1>2. CASE T = S
  BY <1>2
<1>3. CASE T = S \cup {x} /\ Cardinality(S) < limit
  <2>1. IsFiniteSet(T) /\ Cardinality(T) <= Cardinality(S) + 1 /\ Cardinality(T) \in Nat
    BY <1>1, <1>3, FS_AddElement
  <2> QED BY <1>1, <1>3, <2>1
<1> QED BY <1>2, <1>3

(* call_join: a member is added only below the limit. *)
LEMMA CallJoin ==
  ASSUME TypeInv, CallInv, NEW s \in Socks, NEW wantVideo \in BOOLEAN, JoinCall(s, wantVideo)
  PROVE  CallInv'
<1> DEFINE rt == on[s]
           me == <<rt, UserOf[s]>>
           ok == /\ SeatOf(rt, UserOf[s]) # {}
                 /\ UserOf[s] \notin Guests
                 /\ me \in inCall \/ Cardinality(Callers(rt)) < MaxVoice
           free == Cardinality(Cameras(rt)) < MaxVideo
<1>0. me[1] = rt /\ (me \in inCall => inCall \cup {me} = inCall)
  OBVIOUS
<1>1. /\ inCall' = IF ok THEN inCall \cup {me} ELSE inCall
      /\ cams' = IF ok /\ me \notin inCall /\ wantVideo /\ free THEN cams \cup {me} ELSE cams
      /\ UNCHANGED <<seated, on>>
  BY DEF JoinCall, Cameras
<1>2. \A r, u : SeatOf(r, u)' = SeatOf(r, u)
  BY <1>1, SeatOfStays
<1>3. \A c \in inCall' : SeatOf(c[1], c[2])' # {}
  BY <1>1, <1>2 DEF CallInv
<1>4. cams' \subseteq inCall'
  BY <1>1 DEF CallInv
<1>5. ASSUME NEW r \in Runtimes
      PROVE  /\ IsFiniteSet(Callers(r)') /\ Cardinality(Callers(r)') <= MaxVoice
             /\ IsFiniteSet(Cameras(r)') /\ Cardinality(Cameras(r)') <= MaxVideo
  <2>1. /\ IsFiniteSet(Callers(r)) /\ Cardinality(Callers(r)) <= MaxVoice
        /\ IsFiniteSet(Cameras(r)) /\ Cardinality(Cameras(r)) <= MaxVideo
    BY DEF CallInv
  <2>2. MaxVoice \in Nat /\ MaxVideo \in Nat
    BY SessionAssumption
  <2>3. \/ Callers(r)' = Callers(r)
        \/ Callers(r)' = Callers(r) \cup {me} /\ Cardinality(Callers(r)) < MaxVoice
    <3> HIDE DEF me, ok
    <3>1. CASE inCall' = inCall
      BY <3>1 DEF Callers
    <3>2. CASE inCall' = inCall \cup {me} /\ me \notin inCall /\ ok
      <4>1. r = rt => Callers(r)' = Callers(r) \cup {me}
        BY <1>0, <3>2 DEF Callers
      <4>2. r # rt => Callers(r)' = Callers(r)
        BY <1>0, <3>2 DEF Callers
      <4> QED BY <3>2, <4>1, <4>2 DEF ok
    <3> QED BY <1>0, <1>1, <3>1, <3>2
  <2>4. \/ Cameras(r)' = Cameras(r)
        \/ Cameras(r)' = Cameras(r) \cup {me} /\ Cardinality(Cameras(r)) < MaxVideo
    <3> HIDE DEF me, ok
    <3>1. CASE cams' = cams
      BY <3>1 DEF Cameras
    <3>2. CASE cams' = cams \cup {me} /\ free
      <4>1. r = rt => Cameras(r)' = Cameras(r) \cup {me}
        BY <1>0, <3>2 DEF Cameras
      <4>2. r # rt => Cameras(r)' = Cameras(r)
        BY <1>0, <3>2 DEF Cameras
      <4> QED BY <3>2, <4>1, <4>2
    <3> QED BY <1>1, <3>1, <3>2
  <2>6. IsFiniteSet(Callers(r)') /\ Cardinality(Callers(r)') <= MaxVoice
    BY <2>1, <2>2, <2>3, OneMore
  <2>7. IsFiniteSet(Cameras(r)') /\ Cardinality(Cameras(r)') <= MaxVideo
    BY <2>1, <2>2, <2>4, OneMore
  <2> QED BY <2>6, <2>7
<1> QED BY <1>3, <1>4, <1>5 DEF CallInv

(* call_media: a camera is added only below the limit, and to a member. *)
LEMMA CallCamera ==
  ASSUME TypeInv, CallInv, NEW s \in Socks, NEW videoOn \in BOOLEAN, SetCamera(s, videoOn)
  PROVE  CallInv'
<1> DEFINE rt == on[s]
           me == <<rt, UserOf[s]>>
<1>1. /\ me \in inCall /\ UNCHANGED <<inCall, seated, on>>
      /\ videoOn /\ me \notin cams => Cardinality(Cameras(rt)) < MaxVideo
      /\ cams' = IF videoOn THEN cams \cup {me} ELSE cams \ {me}
  BY DEF SetCamera, Cameras
<1>2. \A r, u : SeatOf(r, u)' = SeatOf(r, u)
  BY <1>1, SeatOfStays
<1>3. CASE cams' \subseteq cams
  BY <1>1, <1>2, <1>3, FewerWithin DEF CallInv
<1>4. CASE ~(cams' \subseteq cams)
  <2>1. cams' = cams \cup {me} /\ me \notin cams /\ Cardinality(Cameras(rt)) < MaxVideo
    BY <1>1, <1>4
  <2>2. ASSUME NEW r \in Runtimes
        PROVE  IsFiniteSet(Cameras(r)') /\ Cardinality(Cameras(r)') <= MaxVideo
    <3>1. IsFiniteSet(Cameras(r)) /\ Cardinality(Cameras(r)) <= MaxVideo
      BY DEF CallInv
    <3>2. MaxVideo \in Nat
      BY SessionAssumption
    <3>3. me[1] = rt
      OBVIOUS
    <3> HIDE DEF me
    <3>4. CASE r = rt
      <4>1. Cameras(r)' = Cameras(r) \cup {me}
        BY <2>1, <3>3, <3>4 DEF Cameras
      <4> QED BY <2>1, <3>1, <3>2, <3>4, <4>1, OneMore
    <3>5. CASE r # rt
      <4>1. Cameras(r)' = Cameras(r)
        BY <2>1, <3>3, <3>5 DEF Cameras
      <4> QED BY <3>1, <4>1
    <3> QED BY <3>4, <3>5
  <2>3. \A r : Callers(r)' = Callers(r)
    BY <1>1 DEF Callers
  <2> QED BY <1>1, <1>2, <2>1, <2>2, <2>3 DEF CallInv
<1> QED BY <1>3, <1>4

LEMMA CallNext ==
  ASSUME TypeInv, EntryInv, CallInv, [Next]_vars PROVE CallInv'
<1>1. ASSUME NEW s \in Socks, LeaveCall(s) PROVE CallInv'
  <2>1. /\ inCall' = inCall \ {<<on[s], UserOf[s]>>} /\ cams' = cams \ {<<on[s], UserOf[s]>>}
        /\ UNCHANGED <<seated, on>>
    BY <1>1 DEF LeaveCall
  <2>2. \A r, u : SeatOf(r, u)' = SeatOf(r, u)
    BY <2>1, SeatOfStays
  <2> QED BY <2>1, <2>2, FewerWithin DEF CallInv
<1>2. ASSUME NEW r \in Rooms, EndRoomCall(r) PROVE CallInv'
  <2>1. /\ inCall' = {c \in inCall : c[1] # store[r]} /\ cams' = {c \in cams : c[1] # store[r]}
        /\ UNCHANGED <<seated, on>>
    BY <1>2 DEF EndRoomCall
  <2>2. \A t, u : SeatOf(t, u)' = SeatOf(t, u)
    BY <2>1, SeatOfStays
  <2> QED BY <2>1, <2>2, FewerWithin DEF CallInv
<1>3. CASE OtherStep
  <2>1. \A t, u : SeatOf(t, u)' = SeatOf(t, u)
    BY <1>3, SeatOfStays DEF OtherStep
  <2> QED BY <1>3, <2>1, FewerWithin DEF CallInv, OtherStep
<1>4. CASE CallStep
  BY <1>4, <1>1, <1>2, CallJoin, CallCamera DEF CallStep
<1> QED BY <1>3, <1>4, Steps, CallRemoval, CallAttach

(* One seat each: a member's seat is the only one of the user. *)
LEMMA CallersSit ==
  ASSUME EntryInv, CallInv PROVE CallersPresent
<1>1. ASSUME NEW c \in inCall PROVE Cardinality(SeatOf(c[1], c[2])) = 1
  <2>1. PICK s \in seated : s \in SeatOf(c[1], c[2])
    BY DEF CallInv, SeatOf, Seats
  <2>2. SeatOf(c[1], c[2]) = {s}
    BY <2>1 DEF EntryInv, OneSeat, SeatOf, Seats
  <2> QED BY <2>2, FS_Singleton
<1> QED BY <1>1 DEF CallersPresent, CallInv, Cameras

(* Whoever is in the call of a room sits in that room, with one session, and *)
(* the limits on voices and cameras hold, whatever order joins, camera       *)
(* switches, replaced sessions, kicks, blocks and closed rooms come in       *)
(* (joinCall, setCallVideo, evictFromCall, attachSession).                   *)
THEOREM CallMembersSit == Spec => []CallersPresent
<1>1. Init => CallInv
  <2> SUFFICES ASSUME Init PROVE CallInv
    OBVIOUS
  <2>1. inCall = {} /\ cams = {} /\ \A rt : Callers(rt) = {} /\ Cameras(rt) = {}
    BY DEF Init, Callers, Cameras
  <2>2. IsFiniteSet({}) /\ Cardinality({}) = 0 /\ MaxVoice >= 0 /\ MaxVideo >= 0
    BY FS_EmptySet, SessionAssumption
  <2> QED BY <2>1, <2>2 DEF CallInv
<1>2. TypeInv /\ EntryInv /\ CallInv /\ [Next]_vars => CallInv'
  BY CallNext
<1>3. EntryInv /\ CallInv => CallersPresent
  BY CallersSit
<1> QED BY <1>1, <1>2, <1>3, TypeInit, TypeNext, EntryInit, EntryNext, PTL DEF Spec
=============================================================================
