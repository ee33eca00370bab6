---------------------------- MODULE DmCallProofs ----------------------------
(***************************************************************************)
(* Proofs about DmCall for any users, connections and calls: its types,    *)
(* its indexes, reservations and timers, the sides and the record of a     *)
(* call, and that it implements Telephone.                                 *)
(***************************************************************************)
EXTENDS DmCall, TLAPS

----------------------------------------------------------------------------
(* Types. *)

\* end() and accept() keep the types of the registry.
LEMMA EndTypes ==
  ASSUME TypeOK, NEW c \in Calls, NEW why \in Reasons, End(c, why)
  PROVE  /\ phase' \in [Calls -> Phases]
         /\ from' \in [Calls -> Users \cup {Nobody}] /\ to' \in [Calls -> Users \cup {Nobody}]
         /\ fromConn' \in [Calls -> Conns \cup {NoConn}]
         /\ toConn' \in [Calls -> Conns \cup {NoConn}]
         /\ connected' \subseteq Calls \X Users
         /\ answered' \subseteq Calls
         /\ reason' \in [Calls -> Reasons \cup {"none"}]
         /\ byUser' \in [Users -> Calls \cup {NoCall}]
         /\ byPair' \in [Pairs -> Calls \cup {NoCall}]
         /\ timers' \subseteq Calls \X TimerKeys
         /\ finishing' \subseteq Calls
BY DEF TypeOK, End, Phases, Live

LEMMA AnswerTypes ==
  ASSUME TypeOK, NEW c \in Calls, NEW k \in Conns, Answer(c, k)
  PROVE  /\ phase' \in [Calls -> Phases]
         /\ from' \in [Calls -> Users \cup {Nobody}] /\ to' \in [Calls -> Users \cup {Nobody}]
         /\ fromConn' \in [Calls -> Conns \cup {NoConn}]
         /\ toConn' \in [Calls -> Conns \cup {NoConn}]
         /\ connected' \subseteq Calls \X Users
         /\ answered' \subseteq Calls
         /\ reason' \in [Calls -> Reasons \cup {"none"}]
         /\ byUser' \in [Users -> Calls \cup {NoCall}]
         /\ byPair' \in [Pairs -> Calls \cup {NoCall}]
         /\ timers' \subseteq Calls \X TimerKeys
         /\ finishing' \subseteq Calls
BY DEF TypeOK, Answer, Phases, Live, TimerKeys

LEMMA InitTypes == ASSUME Init PROVE TypeOK
BY CallAssumption DEF Init, TypeOK, Phases, Live, Calls

LEMMA StepTypes == ASSUME TypeOK, [Next]_vars PROVE TypeOK'
<1> USE CallAssumption
<1>1. ASSUME NEW k \in Conns, OpenConn(k) PROVE TypeOK'
  BY <1>1 DEF OpenConn, TypeOK, callVars, inviteVars, logVars
<1>2. ASSUME NEW k \in Conns, Hello(k) PROVE TypeOK'
  BY <1>2 DEF Hello, TypeOK, callVars, inviteVars, logVars
<1>3. ASSUME NEW k \in Conns, CloseConn(k) PROVE TypeOK'
  <2> DEFINE c == byUser[UserOf[k]]
  <2>1. UNCHANGED <<inviteVars, logVars, room, crashes>> /\ conn' = [conn EXCEPT ![k] = "closed"]
        /\ greeting' = greeting \ {k} /\ returning' = {x \in returning : x[1] # k}
    BY <1>3 DEF CloseConn
  <2>2. CASE ~Leads(k, c) /\ UNCHANGED callVars
    BY <2>1, <2>2 DEF TypeOK, callVars, inviteVars, logVars
  <2>3. CASE Leads(k, c) /\ DialsFrom(UserOf[k], c) /\ End(c, "cancelled")
    <3>1. c \in Calls /\ "cancelled" \in Reasons
      BY <2>3 DEF Leads, TypeOK, Reasons
    <3> QED BY <2>1, <2>3, <3>1, EndTypes DEF TypeOK, inviteVars, logVars
  <2>4. CASE /\ Leads(k, c) /\ ~DialsFrom(UserOf[k], c)
             /\ timers' = timers \cup {<<c, "grace">>}
             /\ UNCHANGED <<phase, from, to, fromConn, toConn, connected, answered, reason,
                            byUser, byPair, finishing>>
    <3>1. c \in Calls
      BY <2>4 DEF Leads, TypeOK
    <3> QED BY <2>1, <2>4, <3>1 DEF TypeOK, inviteVars, logVars, TimerKeys
  <2> QED BY <1>3, <2>2, <2>3, <2>4 DEF CloseConn
<1>4. ASSUME NEW k \in Conns, NEW v \in Users, CounterCall(k, v) PROVE TypeOK'
  <2> DEFINE c == byPair[{UserOf[k], v}]
  <2>1. c \in Calls /\ Answer(c, k)
    BY <1>4 DEF CounterCall, TypeOK, Pairs
  <2> QED BY <1>4, <2>1, AnswerTypes DEF CounterCall, TypeOK, tabVars, inviteVars, logVars
<1>5. ASSUME NEW k \in Conns, NEW v \in Users, Invite(k, v) PROVE TypeOK'
  BY <1>5 DEF Invite, TypeOK, tabVars, callVars, logVars, Pairs
<1>6. ASSUME NEW i \in inviting, Deny(i) PROVE TypeOK'
  BY <1>6 DEF Deny, TypeOK, tabVars, callVars, logVars
<1>7. ASSUME NEW i \in inviting, NEW c \in Calls, Create(i, c) PROVE TypeOK'
  <2>1. i[1] \in Conns /\ UserOf[i[1]] \in Users /\ i[2] \in Users
    BY DEF TypeOK
  <2> DEFINE u == UserOf[i[1]]
             v == i[2]
  <2>2. {u, v} \in Pairs /\ <<u, v>> \in Users \X Users
    BY <2>1 DEF Pairs
  <2>3. /\ phase' \in [Calls -> Phases]
        /\ from' \in [Calls -> Users \cup {Nobody}] /\ to' \in [Calls -> Users \cup {Nobody}]
        /\ fromConn' \in [Calls -> Conns \cup {NoConn}]
        /\ byUser' \in [Users -> Calls \cup {NoCall}]
    BY <1>7, <2>1 DEF Create, TypeOK, Phases, Live
  <2>4. byPair' \in [Pairs -> Calls \cup {NoCall}]
    BY <1>7, <2>2 DEF Create, TypeOK
  <2>5. recent' \in [Users \X Users -> Nat]
    <3>1. recent' = [recent EXCEPT ![<<u, v>>] = @ + 1]
      BY <1>7 DEF Create
    <3>2. recent[<<u, v>>] + 1 \in Nat
      BY <2>2 DEF TypeOK
    <3> QED BY <3>1, <3>2 DEF TypeOK
  <2>6. /\ inviting' \subseteq Conns \X Users
        /\ reserved' \subseteq Pairs
        /\ timers' \subseteq Calls \X TimerKeys
        /\ announcing' \subseteq Calls \X {"ring", "offline"}
    BY <1>7, <2>1 DEF Create, TypeOK, TimerKeys
  <2>7. UNCHANGED <<tabVars, toConn, connected, answered, reason, finishing, logVars, room, crashes>>
    BY <1>7 DEF Create
  <2> QED BY <2>3, <2>4, <2>5, <2>6, <2>7 DEF TypeOK, tabVars, logVars
<1>8. ASSUME NEW c \in Calls, Announce(c) PROVE TypeOK'
  <2>1. CASE UNCHANGED callVars
    BY <1>8, <2>1 DEF Announce, TypeOK, tabVars, callVars, logVars
  <2>2. CASE End(c, "missed")
    <3>1. "missed" \in Reasons
      BY DEF Reasons
    <3> QED BY <1>8, <2>2, <3>1, EndTypes DEF Announce, TypeOK, tabVars, callVars, logVars
  <2> QED BY <1>8, <2>1, <2>2 DEF Announce
<1>9. ASSUME NEW p \in Users \X Users, WindowSlides(p) PROVE TypeOK'
  BY <1>9 DEF WindowSlides, TypeOK, tabVars, callVars, logVars
<1>10. ASSUME NEW k \in Conns, NEW c \in Calls, Accept(k, c) PROVE TypeOK'
  BY <1>10, AnswerTypes DEF Accept, TypeOK, tabVars, inviteVars, logVars
<1>11. ASSUME NEW k \in Conns, NEW c \in Calls, Decline(k, c) PROVE TypeOK'
  BY <1>11, EndTypes, "declined" \in Reasons DEF Decline, TypeOK, tabVars, inviteVars, logVars, Reasons
<1>12. ASSUME NEW k \in Conns, NEW c \in Calls, Cancel(k, c) PROVE TypeOK'
  BY <1>12, EndTypes, "cancelled" \in Reasons DEF Cancel, TypeOK, tabVars, inviteVars, logVars, Reasons
<1>13. ASSUME NEW k \in Conns, NEW c \in Calls, Hangup(k, c) PROVE TypeOK'
  <2>1. PICK why \in Reasons : End(c, why)
    BY <1>13 DEF Hangup, Reasons
  <2> QED BY <1>13, <2>1, EndTypes DEF Hangup, TypeOK, tabVars, inviteVars, logVars
<1>14. ASSUME NEW k \in Conns, NEW c \in Calls, Connected(k, c) PROVE TypeOK'
  BY <1>14 DEF Connected, TypeOK, tabVars, inviteVars, logVars
<1>15. ASSUME NEW k \in Conns, NEW c \in Calls, Rejoin(k, c) PROVE TypeOK'
  BY <1>15 DEF Rejoin, TypeOK, inviteVars, logVars
<1>16. ASSUME NEW c \in Calls, NEW key \in TimerKeys, Fires(c, key) PROVE TypeOK'
  <2>1. TimerReason[key] \in Reasons
    BY DEF TimerReason, TimerKeys, Reasons
  <2> QED BY <1>16, <2>1, EndTypes DEF Fires, TypeOK, tabVars, inviteVars, logVars
<1>17. ASSUME NEW c \in Calls, Record(c) PROVE TypeOK'
  <2>1. OutcomeOf(reason[c]) \in Reasons \cup {"none", "completed"}
    BY DEF OutcomeOf, TypeOK
  <2>2. writes[c] + 1 \in Nat
    BY DEF TypeOK
  <2> QED BY <1>17, <2>1, <2>2 DEF Record, TypeOK, tabVars, inviteVars, logVars
<1>18. ASSUME NEW u \in Visitors, RoomCheck(u) \/ RoomEnter(u) \/ RoomLeave(u) PROVE TypeOK'
  BY <1>18 DEF RoomCheck, RoomEnter, RoomLeave, TypeOK, tabVars, callVars, inviteVars, logVars
<1>19. CASE Crash
  BY <1>19 DEF Crash, TypeOK, logVars, Phases, Live
<1>20. CASE UNCHANGED vars
  BY <1>20 DEF vars, tabVars, callVars, inviteVars, logVars, TypeOK
<1> QED
  BY <1>1, <1>2, <1>3, <1>4, <1>5, <1>6, <1>7, <1>8, <1>9, <1>10, <1>11, <1>12, <1>13, <1>14,
     <1>15, <1>16, <1>17, <1>18, <1>19, <1>20 DEF Next

\* The registry of calls, the connections and the rooms keep their types.
THEOREM TypeCorrect == Spec => []TypeOK
BY InitTypes, StepTypes, PTL DEF Spec
----------------------------------------------------------------------------
(* The inductive invariant. *)

\* A call nobody answered has no tab of the callee, so that closing one never
\* arms its grace timer, and no confirmation that accept() would inherit.
Fresh == \A c \in Calls : phase[c] \in {"none", "ringing"} =>
  toConn[c] = NoConn /\ \A u \in Users : <<c, u>> \notin connected

IInv ==
  /\ TypeOK
  /\ IndexExact
  /\ ReservedAlone
  /\ Limited
  /\ TimersExact
  /\ Fresh

LEMMA InitInv == ASSUME Init PROVE IInv
<1> USE CallAssumption
<1>1. TypeOK
  BY InitTypes
<1>2. \A c \in Calls : phase[c] = "none" /\ ~IsLive(c)
  BY DEF Init, IsLive, Live
<1>3. IndexExact
  BY <1>2 DEF Init, IndexExact
<1>4. ReservedAlone /\ Limited
  BY DEF Init, ReservedAlone, Limited
<1>5. TimersExact /\ Fresh
  BY <1>2 DEF Init, TimersExact, Fresh
<1> QED BY <1>1, <1>3, <1>4, <1>5 DEF IInv

\* Ending a live call empties its entries of the indexes and no others.
LEMMA EndKeeps ==
  ASSUME IInv, NEW c \in Calls, NEW why \in Reasons, End(c, why)
  PROVE  /\ IndexExact' /\ TimersExact' /\ Fresh'
         /\ \A u \in Users : byUser[u] = NoCall => byUser'[u] = NoCall
<1> USE CallAssumption DEF IInv
<1>1. /\ phase' = [phase EXCEPT ![c] = "ended"]
      /\ timers' = {t \in timers : t[1] # c}
      /\ byUser' = [u \in Users |-> IF u \in Parties(c) THEN NoCall ELSE byUser[u]]
      /\ byPair' = [p \in Pairs |-> IF p = Parties(c) THEN NoCall ELSE byPair[p]]
      /\ UNCHANGED <<from, to, toConn, connected>> /\ IsLive(c)
  BY DEF End
<1>2. /\ phase'[c] = "ended"
      /\ \A d \in Calls : d # c => phase'[d] = phase[d]
  BY <1>1 DEF TypeOK
<1>3. \A d \in Calls : IsLive(d)' <=> IsLive(d) /\ d # c
  BY <1>2 DEF IsLive, Live
<1>4. \A d \in Calls : Parties(d)' = Parties(d)
  BY <1>1 DEF Parties
<1>5. \A d \in Calls : IsLive(d) /\ d # c => Parties(d) \cap Parties(c) = {} /\ Parties(d) # Parties(c)
  <2> SUFFICES ASSUME NEW d \in Calls, IsLive(d), NEW u \in Parties(d), u \in Parties(c)
      PROVE d = c
    BY DEF Parties
  <2>1. byUser[u] = d
    BY DEF IndexExact, Parties
  <2>2. byUser[u] = c
    BY <1>1 DEF IndexExact, Parties
  <2> QED BY <2>1, <2>2
<1>6. IndexExact'
  <2>1. ASSUME NEW d \in Calls, IsLive(d)'
        PROVE  (/\ from[d] \in Users /\ to[d] \in Users /\ from[d] # to[d]
                /\ byPair[Parties(d)] = d
                /\ byUser[from[d]] = d /\ byUser[to[d]] = d)'
    <3>1. IsLive(d) /\ d # c
      BY <2>1, <1>3
    <3>2. /\ from[d] \in Users /\ to[d] \in Users /\ from[d] # to[d]
          /\ byPair[Parties(d)] = d /\ byUser[from[d]] = d /\ byUser[to[d]] = d
      BY <3>1 DEF IndexExact
    <3>3. Parties(d) \in Pairs
      BY <3>2 DEF Parties, Pairs
    <3>4. from[d] \notin Parties(c) /\ to[d] \notin Parties(c)
      BY <3>1, <1>5 DEF Parties
    <3> QED BY <1>1, <1>4, <1>5, <3>1, <3>2, <3>3, <3>4
  <2>2. ASSUME NEW u \in Users, byUser'[u] # NoCall
        PROVE  (IsLive(byUser[u]) /\ u \in Parties(byUser[u]))'
    <3>1. u \notin Parties(c) /\ byUser'[u] = byUser[u]
      BY <2>2, <1>1
    <3>2. byUser[u] \in Calls /\ IsLive(byUser[u]) /\ u \in Parties(byUser[u])
      BY <3>1, <2>2 DEF IndexExact, TypeOK
    <3>3. byUser[u] # c
      BY <3>1, <3>2
    <3> QED BY <3>1, <3>2, <3>3, <1>3, <1>4
  <2>3. ASSUME NEW p \in Pairs, byPair'[p] # NoCall
        PROVE  (IsLive(byPair[p]) /\ p = Parties(byPair[p]))'
    <3>1. p # Parties(c) /\ byPair'[p] = byPair[p]
      BY <2>3, <1>1
    <3>2. byPair[p] \in Calls /\ IsLive(byPair[p]) /\ p = Parties(byPair[p])
      BY <3>1, <2>3 DEF IndexExact, TypeOK
    <3>3. byPair[p] # c
      BY <3>1, <3>2
    <3> QED BY <3>1, <3>2, <3>3, <1>3, <1>4
  <2> QED BY <2>1, <2>2, <2>3 DEF IndexExact
<1>7. TimersExact'
  <2>1. \A d \in Calls, key \in TimerKeys : <<d, key>> \in timers' <=> <<d, key>> \in timers /\ d # c
    BY <1>1
  <2> QED BY <1>1, <1>2, <1>3, <1>4, <2>1 DEF TimersExact, TimerKeys
<1>8. Fresh'
  BY <1>1, <1>2 DEF Fresh
<1>9. \A u \in Users : byUser[u] = NoCall => byUser'[u] = NoCall
  BY <1>1
<1> QED BY <1>6, <1>7, <1>8, <1>9

\* Answering a call leaves it in its place.
LEMMA AnswerKeeps ==
  ASSUME IInv, NEW c \in Calls, NEW k \in Conns, Answer(c, k)
  PROVE  IndexExact' /\ TimersExact' /\ Fresh' /\ UNCHANGED byUser
<1> USE CallAssumption DEF IInv
<1>1. /\ phase[c] = "ringing" /\ phase' = [phase EXCEPT ![c] = "active"]
      /\ timers' = (timers \ {<<c, "ring">>}) \cup {<<c, "connect">>}
      /\ toConn' = [toConn EXCEPT ![c] = k]
      /\ UNCHANGED <<from, to, connected, byUser, byPair>>
  BY DEF Answer
<1>2. /\ phase'[c] = "active"
      /\ \A d \in Calls : d # c => phase'[d] = phase[d]
  BY <1>1 DEF TypeOK
<1>3. \A d \in Calls : (IsLive(d)' <=> IsLive(d)) /\ Parties(d)' = Parties(d)
  BY <1>1, <1>2 DEF IsLive, Live, Parties
<1>4. IndexExact'
  BY <1>1, <1>3 DEF IndexExact, TypeOK
<1>5. Parties(c) \subseteq Users
  <2>1. IsLive(c)
    BY <1>1 DEF IsLive, Live
  <2>2. from[c] \in Users /\ to[c] \in Users
    BY <2>1 DEF IndexExact
  <2> QED BY <2>2 DEF Parties
<1>6. TimersExact'
  <2> SUFFICES ASSUME NEW d \in Calls
      PROVE (/\ <<d, "ring">> \in timers <=> phase[d] = "ringing"
             /\ <<d, "max">> \in timers <=> IsLive(d)
             /\ <<d, "connect">> \in timers <=>
                  phase[d] = "active" /\ \A u \in Parties(d) : <<d, u>> \notin connected
             /\ <<d, "grace">> \in timers => phase[d] = "active")'
    BY DEF TimersExact
  <2>1. CASE d = c
    BY <1>1, <1>2, <1>3, <1>5, <2>1 DEF TimersExact, Fresh
  <2>2. CASE d # c
    BY <1>1, <1>2, <1>3, <2>2 DEF TimersExact
  <2> QED BY <2>1, <2>2
<1>7. Fresh'
  BY <1>1, <1>2 DEF Fresh, TypeOK
<1> QED BY <1>1, <1>4, <1>6, <1>7

LEMMA ReservedUsers == ASSUME IInv PROVE \A p \in reserved : p \subseteq Users
BY DEF IInv, TypeOK, Pairs

\* A reservation is not disturbed by steps of the registry that leave the
\* invitations alone and give no user a call.
LEMMA ReservationsStay ==
  ASSUME IInv, UNCHANGED <<reserved, inviting>>,
         \A u \in Users : byUser[u] = NoCall => byUser'[u] = NoCall
  PROVE  ReservedAlone'
<1>1. \A p \in reserved : p \subseteq Users
  BY ReservedUsers
<1> QED BY <1>1 DEF IInv, ReservedAlone, PairOf

\* The rest of the invariant when nothing of the registry changes.
LEMMA RegistryStays ==
  ASSUME IInv, UNCHANGED <<phase, from, to, toConn, connected, byUser, byPair, timers>>
  PROVE  IndexExact' /\ TimersExact' /\ Fresh'
BY DEF IInv, IndexExact, TimersExact, Fresh, IsLive, Parties
----------------------------------------------------------------------------
(* Every step keeps the invariant. *)

\* The limit is disturbed only by create(), which counts the invitation.
LEMMA LimitStays ==
  ASSUME IInv, UNCHANGED <<recent, inviting>> PROVE Limited'
BY DEF IInv, Limited

\* The steps that end a call.
LEMMA EndStep ==
  ASSUME IInv, TypeOK', NEW c \in Calls, NEW why \in Reasons, End(c, why),
         UNCHANGED <<reserved, inviting, recent>>
  PROVE  IInv'
BY EndKeeps, ReservationsStay, LimitStays DEF IInv

\* The steps that answer a call.
LEMMA AnswerStep ==
  ASSUME IInv, TypeOK', NEW c \in Calls, NEW k \in Conns, Answer(c, k),
         UNCHANGED <<reserved, inviting, recent>>
  PROVE  IInv'
BY AnswerKeeps, ReservationsStay, LimitStays DEF IInv

\* The steps that touch neither the registry nor the invitations.
LEMMA StillStep ==
  ASSUME IInv, TypeOK', UNCHANGED <<phase, from, to, toConn, connected, byUser, byPair, timers,
                                    reserved, inviting, recent>>
  PROVE  IInv'
BY RegistryStays, ReservationsStay, LimitStays DEF IInv

LEMMA InviteStep ==
  ASSUME IInv, TypeOK', NEW k \in Conns, NEW v \in Users, Invite(k, v)
  PROVE  IInv'
<1> USE CallAssumption
<1> DEFINE u == UserOf[k]
           i == <<k, v>>
<1>1. /\ u \in Users /\ u # v /\ PairOf(i) = {u, v}
      /\ ~IsBusy(u) /\ ~IsBusy(v) /\ recent[<<u, v>>] < InviteLimit
      /\ reserved' = reserved \cup {{u, v}} /\ inviting' = inviting \cup {i}
      /\ UNCHANGED <<phase, from, to, toConn, connected, byUser, byPair, timers, recent>>
  BY DEF Invite, PairOf, callVars
<1>2. byUser[u] = NoCall /\ byUser[v] = NoCall
  BY <1>1 DEF IsBusy
<1>3. \A j \in inviting : PairOf(j) \cap {u, v} = {}
  BY <1>1 DEF IsBusy, IInv, ReservedAlone
<1>4. ReservedAlone'
  <2>1. \A j \in inviting' : PairOf(j) \in reserved' /\ UserOf[j[1]] # j[2]
    BY <1>1 DEF IInv, ReservedAlone
  <2>2. \A p \in reserved' : \E j \in inviting' : p = PairOf(j)
    BY <1>1 DEF IInv, ReservedAlone
  <2>3. \A j, l \in inviting' : j # l => PairOf(j) \cap PairOf(l) = {}
    BY <1>1, <1>3 DEF IInv, ReservedAlone
  <2>4. \A p \in reserved' : \A w \in p : byUser'[w] = NoCall
    BY <1>1, <1>2 DEF IInv, ReservedAlone
  <2>5. \A j : PairOf(j)' = PairOf(j)
    BY DEF PairOf
  <2> QED BY <2>1, <2>2, <2>3, <2>4, <2>5 DEF ReservedAlone
<1>5. Limited'
  BY <1>1 DEF IInv, Limited
<1> QED BY <1>1, <1>4, <1>5, RegistryStays DEF IInv

LEMMA DenyStep ==
  ASSUME IInv, TypeOK', NEW i \in inviting, Deny(i)
  PROVE  IInv'
<1>1. /\ inviting' = inviting \ {i} /\ reserved' = reserved \ {PairOf(i)}
      /\ UNCHANGED <<phase, from, to, toConn, connected, byUser, byPair, timers, recent>>
  BY DEF Deny, PairOf, callVars
<1>2. \A j \in inviting : j # i => PairOf(j) # PairOf(i)
  <2>1. \A j \in inviting : PairOf(j) # {}
    BY DEF PairOf
  <2> QED BY <2>1 DEF IInv, ReservedAlone
<1>3. ReservedAlone'
  <2>1. \A j : PairOf(j)' = PairOf(j)
    BY DEF PairOf
  <2> QED BY <1>1, <1>2, <2>1 DEF IInv, ReservedAlone
<1>4. Limited'
  BY <1>1 DEF IInv, Limited
<1> QED BY <1>1, <1>3, <1>4, RegistryStays DEF IInv

\* create() gives the reserved pair, free until now, to the new call.
LEMMA CreateStep ==
  ASSUME IInv, TypeOK', NEW i \in inviting, NEW c \in Calls, Create(i, c)
  PROVE  IInv'
<1> USE CallAssumption
<1> DEFINE u == UserOf[i[1]]
           v == i[2]
<1>0. u \in Users /\ v \in Users /\ i[1] \in Conns /\ {u, v} = PairOf(i) /\ {u, v} \in Pairs
  BY DEF IInv, TypeOK, PairOf, Pairs
<1>1. /\ phase[c] = "none"
      /\ inviting' = inviting \ {i} /\ reserved' = reserved \ {PairOf(i)}
      /\ recent' = [recent EXCEPT ![<<u, v>>] = @ + 1]
      /\ phase' = [phase EXCEPT ![c] = "ringing"]
      /\ from' = [from EXCEPT ![c] = u] /\ to' = [to EXCEPT ![c] = v]
      /\ byUser' = [byUser EXCEPT ![u] = c, ![v] = c]
      /\ byPair' = [byPair EXCEPT ![{u, v}] = c]
      /\ timers' = timers \cup {<<c, "ring">>, <<c, "max">>}
      /\ UNCHANGED <<toConn, connected>>
  BY DEF Create, PairOf
<1>2. /\ PairOf(i) \in reserved /\ u # v
      /\ byUser[u] = NoCall /\ byUser[v] = NoCall
  BY <1>0 DEF IInv, ReservedAlone, PairOf
<1>3. /\ phase'[c] = "ringing" /\ from'[c] = u /\ to'[c] = v /\ Parties(c)' = {u, v} /\ IsLive(c)'
      /\ \A d \in Calls : d # c => /\ phase'[d] = phase[d] /\ Parties(d)' = Parties(d)
                                   /\ from'[d] = from[d] /\ to'[d] = to[d]
                                   /\ IsLive(d)' <=> IsLive(d)
  BY <1>1 DEF IInv, TypeOK, Parties, IsLive, Live
<1>4. /\ byUser'[u] = c /\ byUser'[v] = c
      /\ \A w \in Users : w # u /\ w # v => byUser'[w] = byUser[w]
      /\ byPair'[{u, v}] = c
      /\ \A p \in Pairs : p # {u, v} => byPair'[p] = byPair[p]
  BY <1>0, <1>1 DEF IInv, TypeOK
<1>5. ~IsLive(c)
  BY <1>1 DEF IsLive, Live
<1>6. \A d \in Calls : IsLive(d) => d # c /\ u \notin Parties(d) /\ v \notin Parties(d)
  <2> SUFFICES ASSUME NEW d \in Calls, IsLive(d) PROVE d # c /\ u \notin Parties(d) /\ v \notin Parties(d)
    OBVIOUS
  <2>1. d \in Calls /\ d # NoCall /\ byUser[from[d]] = d /\ byUser[to[d]] = d
    BY DEF IInv, IndexExact, Calls
  <2> QED BY <1>2, <1>5, <2>1 DEF Parties
<1>7. IndexExact'
  <2>1. ASSUME NEW d \in Calls, IsLive(d)'
        PROVE  (/\ from[d] \in Users /\ to[d] \in Users /\ from[d] # to[d]
                /\ byPair[Parties(d)] = d
                /\ byUser[from[d]] = d /\ byUser[to[d]] = d)'
    <3>1. CASE d = c
      BY <1>0, <1>2, <1>3, <1>4, <3>1
    <3>2. CASE d # c
      <4>1. IsLive(d) /\ u \notin Parties(d) /\ v \notin Parties(d)
        BY <1>3, <1>6, <2>1, <3>2
      <4>2. /\ from[d] \in Users /\ to[d] \in Users /\ from[d] # to[d]
            /\ byPair[Parties(d)] = d /\ byUser[from[d]] = d /\ byUser[to[d]] = d
        BY <4>1 DEF IInv, IndexExact
      <4>3. Parties(d) \in Pairs /\ Parties(d) # {u, v}
        BY <4>1, <4>2 DEF Parties, Pairs
      <4>4. from[d] # u /\ from[d] # v /\ to[d] # u /\ to[d] # v
        BY <4>1 DEF Parties
      <4> QED BY <1>3, <1>4, <3>2, <4>2, <4>3, <4>4
    <3> QED BY <3>1, <3>2
  <2>2. ASSUME NEW w \in Users, byUser'[w] # NoCall
        PROVE  (IsLive(byUser[w]) /\ w \in Parties(byUser[w]))'
    <3>1. CASE w = u \/ w = v
      BY <1>3, <1>4, <3>1
    <3>2. CASE w # u /\ w # v
      <4>1. byUser'[w] = byUser[w] /\ byUser[w] \in Calls /\ IsLive(byUser[w]) /\ w \in Parties(byUser[w])
        BY <1>4, <2>2, <3>2 DEF IInv, IndexExact, TypeOK
      <4> QED BY <1>3, <1>5, <4>1
    <3> QED BY <3>1, <3>2
  <2>3. ASSUME NEW p \in Pairs, byPair'[p] # NoCall
        PROVE  (IsLive(byPair[p]) /\ p = Parties(byPair[p]))'
    <3>1. CASE p = {u, v}
      BY <1>3, <1>4, <3>1
    <3>2. CASE p # {u, v}
      <4>1. byPair'[p] = byPair[p] /\ byPair[p] \in Calls /\ IsLive(byPair[p]) /\ p = Parties(byPair[p])
        BY <1>4, <2>3, <3>2 DEF IInv, IndexExact, TypeOK
      <4> QED BY <1>3, <1>5, <4>1
    <3> QED BY <3>1, <3>2
  <2> QED BY <2>1, <2>2, <2>3 DEF IndexExact
<1>8. \A j \in inviting : j # i => PairOf(j) \cap {u, v} = {}
  BY <1>0 DEF IInv, ReservedAlone
<1>9. ReservedAlone'
  <2>1. \A j : PairOf(j)' = PairOf(j)
    BY DEF PairOf
  <2>2. \A j \in inviting : j # i => PairOf(j) \in reserved'
    <3>1. \A j \in inviting : PairOf(j) # {}
      BY DEF PairOf
    <3> QED BY <1>0, <1>1, <1>8, <3>1 DEF IInv, ReservedAlone
  <2>3. \A p \in reserved' : \E j \in inviting' : p = PairOf(j)
    BY <1>1 DEF IInv, ReservedAlone
  <2>4. \A p \in reserved' : p \subseteq Users /\ u \notin p /\ v \notin p
    <3>1. \A p \in reserved : p \subseteq Users
      BY ReservedUsers
    <3>2. ASSUME NEW p \in reserved' PROVE u \notin p /\ v \notin p
      <4>1. PICK j \in inviting' : p = PairOf(j)
        BY <2>3
      <4>2. j \in inviting /\ j # i
        BY <1>1
      <4> QED BY <1>8, <4>1, <4>2
    <3> QED BY <1>1, <3>1, <3>2
  <2>5. \A p \in reserved' : \A w \in p : byUser'[w] = NoCall
    <3>1. \A p \in reserved' : \A w \in p : byUser[w] = NoCall
      BY <1>1 DEF IInv, ReservedAlone
    <3> QED BY <1>4, <2>4, <3>1
  <2> QED BY <1>1, <2>1, <2>2, <2>3, <2>5 DEF IInv, ReservedAlone
<1>10. Limited'
  <2>1. /\ recent[<<u, v>>] < InviteLimit
        /\ <<u, v>> \in Users \X Users
        /\ recent \in [Users \X Users -> Nat]
        /\ \A p \in Users \X Users : recent[p] <= InviteLimit
    BY <1>0 DEF IInv, Limited, TypeOK
  <2>2. \A p \in Users \X Users : recent'[p] <= InviteLimit
    BY <1>1, <2>1
  <2>3. ASSUME NEW j \in inviting, j # i
        PROVE  recent'[<<UserOf[j[1]], j[2]>>] < InviteLimit
    <3>1. <<UserOf[j[1]], j[2]>> # <<u, v>>
      BY <1>8, <2>3 DEF PairOf
    <3>2. <<UserOf[j[1]], j[2]>> \in Users \X Users
      BY DEF IInv, TypeOK
    <3> QED BY <1>1, <2>1, <3>1, <3>2 DEF IInv, Limited
  <2> QED BY <1>1, <2>2, <2>3 DEF Limited
<1>11. TimersExact'
  <2> SUFFICES ASSUME NEW d \in Calls
      PROVE (/\ <<d, "ring">> \in timers <=> phase[d] = "ringing"
             /\ <<d, "max">> \in timers <=> IsLive(d)
             /\ <<d, "connect">> \in timers <=>
                  phase[d] = "active" /\ \A w \in Parties(d) : <<d, w>> \notin connected
             /\ <<d, "grace">> \in timers => phase[d] = "active")'
    BY DEF TimersExact
  <2>1. CASE d = c
    BY <1>1, <1>3, <1>5, <2>1 DEF IInv, TimersExact
  <2>2. CASE d # c
    BY <1>1, <1>3, <2>2 DEF IInv, TimersExact
  <2> QED BY <2>1, <2>2
<1>12. Fresh'
  BY <1>1, <1>3 DEF IInv, Fresh
<1> QED BY <1>7, <1>9, <1>10, <1>11, <1>12 DEF IInv
LEMMA StepInv == ASSUME IInv, [Next]_vars PROVE IInv'
<1> USE CallAssumption
<1>0. TypeOK /\ TypeOK'
  BY StepTypes DEF IInv
<1>1. ASSUME NEW k \in Conns, OpenConn(k) \/ Hello(k) PROVE IInv'
  BY <1>0, <1>1, StillStep DEF OpenConn, Hello, callVars, inviteVars
<1>2. ASSUME NEW k \in Conns, CloseConn(k) PROVE IInv'
  <2> DEFINE c == byUser[UserOf[k]]
  <2>1. UNCHANGED <<reserved, inviting, recent>>
    BY <1>2 DEF CloseConn, inviteVars
  <2>2. CASE ~Leads(k, c) /\ UNCHANGED callVars
    BY <1>0, <2>1, <2>2, StillStep DEF callVars
  <2>3. CASE Leads(k, c) /\ DialsFrom(UserOf[k], c) /\ End(c, "cancelled")
    <3>1. c \in Calls /\ "cancelled" \in Reasons
      BY <1>0, <2>3 DEF Leads, TypeOK, Reasons
    <3> QED BY <1>0, <2>1, <2>3, <3>1, EndStep
  <2>4. CASE /\ Leads(k, c) /\ ~DialsFrom(UserOf[k], c)
             /\ timers' = timers \cup {<<c, "grace">>}
             /\ UNCHANGED <<phase, from, to, fromConn, toConn, connected, answered, reason,
                            byUser, byPair, finishing>>
    <3>1. c \in Calls /\ c # NoCall /\ IsLive(c)
      BY <1>0, <2>4 DEF Leads, TypeOK, IInv, IndexExact
    <3>2. phase[c] = "active"
      BY <2>4, <3>1 DEF Leads, ConnOf, DialsFrom, IsLive, Live, IInv, Fresh
    <3>3. IndexExact' /\ Fresh'
      BY <2>4 DEF IInv, IndexExact, Fresh, IsLive, Parties
    <3>4. TimersExact'
      <4>1. \A d \in Calls : /\ <<d, "ring">> \in timers' <=> <<d, "ring">> \in timers
                             /\ <<d, "max">> \in timers' <=> <<d, "max">> \in timers
                             /\ <<d, "connect">> \in timers' <=> <<d, "connect">> \in timers
                             /\ <<d, "grace">> \in timers' => <<d, "grace">> \in timers \/ d = c
        BY <2>4
      <4> QED BY <2>4, <3>2, <4>1 DEF IInv, TimersExact, IsLive, Parties
    <3> QED BY <1>0, <2>1, <2>4, <3>3, <3>4, ReservationsStay, LimitStays DEF IInv
  <2> QED BY <1>2, <2>2, <2>3, <2>4 DEF CloseConn
<1>3. ASSUME NEW k \in Conns, NEW v \in Users, CounterCall(k, v) PROVE IInv'
  <2> DEFINE c == byPair[{UserOf[k], v}]
  <2>1. c \in Calls /\ Answer(c, k)
    BY <1>0, <1>3 DEF CounterCall, TypeOK, Pairs
  <2> QED BY <1>0, <1>3, <2>1, AnswerStep DEF CounterCall, inviteVars
<1>4. ASSUME NEW k \in Conns, NEW v \in Users, Invite(k, v) PROVE IInv'
  BY <1>0, <1>4, InviteStep
<1>5. ASSUME NEW i \in inviting, Deny(i) PROVE IInv'
  BY <1>0, <1>5, DenyStep
<1>6. ASSUME NEW i \in inviting, NEW c \in Calls, Create(i, c) PROVE IInv'
  BY <1>0, <1>6, CreateStep
<1>7. ASSUME NEW c \in Calls, Announce(c) PROVE IInv'
  <2>1. UNCHANGED <<reserved, inviting, recent>>
    BY <1>7 DEF Announce
  <2>2. CASE UNCHANGED callVars
    BY <1>0, <2>1, <2>2, StillStep DEF callVars
  <2>3. CASE End(c, "missed")
    BY <1>0, <2>1, <2>3, EndStep, "missed" \in Reasons DEF Reasons
  <2> QED BY <1>7, <2>2, <2>3 DEF Announce
<1>8. ASSUME NEW p \in Users \X Users, WindowSlides(p) PROVE IInv'
  <2>1. /\ recent' = [recent EXCEPT ![p] = @ - 1] /\ recent[p] > 0
        /\ UNCHANGED <<phase, from, to, toConn, connected, byUser, byPair, timers, reserved, inviting>>
    BY <1>8 DEF WindowSlides, callVars
  <2>2. \A q \in Users \X Users : recent'[q] <= recent[q] /\ recent[q] \in Nat /\ recent'[q] \in Nat
    BY <1>0, <2>1 DEF TypeOK
  <2>3. \A i \in inviting : <<UserOf[i[1]], i[2]>> \in Users \X Users
    BY <1>0 DEF TypeOK
  <2>4. Limited'
    BY <2>1, <2>2, <2>3 DEF IInv, Limited
  <2> QED BY <1>0, <2>1, <2>4, RegistryStays, ReservationsStay DEF IInv
<1>9. ASSUME NEW k \in Conns, NEW c \in Calls, Accept(k, c) PROVE IInv'
  BY <1>0, <1>9, AnswerStep DEF Accept, inviteVars
<1>10. ASSUME NEW k \in Conns, NEW c \in Calls, Decline(k, c) \/ Cancel(k, c) \/ Hangup(k, c)
       PROVE  IInv'
  <2>1. PICK why \in Reasons : End(c, why)
    BY <1>10 DEF Decline, Cancel, Hangup, Reasons
  <2>2. UNCHANGED <<reserved, inviting, recent>>
    BY <1>10 DEF Decline, Cancel, Hangup, inviteVars
  <2> QED BY <1>0, <2>1, <2>2, EndStep
<1>11. ASSUME NEW k \in Conns, NEW c \in Calls, Connected(k, c) PROVE IInv'
  <2> DEFINE u == UserOf[k]
  <2>1. /\ phase[c] = "active" /\ u \in Users /\ u \in Parties(c)
        /\ connected' = connected \cup {<<c, u>>} /\ timers' = timers \ {<<c, "connect">>}
        /\ UNCHANGED <<phase, from, to, toConn, byUser, byPair, reserved, inviting, recent>>
    BY <1>11 DEF Connected, inviteVars
  <2>2. IndexExact' /\ Fresh'
    BY <2>1 DEF IInv, IndexExact, Fresh, IsLive, Parties
  <2>3. TimersExact'
    <3>1. \A d \in Calls : Parties(d)' = Parties(d) /\ IsLive(d)' = IsLive(d)
      BY <2>1 DEF Parties, IsLive
    <3>2. \A d \in Calls : d # c => \A w : <<d, w>> \in connected' <=> <<d, w>> \in connected
      BY <2>1
    <3>3. \A d \in Calls : d # c => \A key \in TimerKeys : <<d, key>> \in timers' <=> <<d, key>> \in timers
      BY <2>1
    <3> SUFFICES ASSUME NEW d \in Calls
        PROVE (/\ <<d, "ring">> \in timers <=> phase[d] = "ringing"
               /\ <<d, "max">> \in timers <=> IsLive(d)
               /\ <<d, "connect">> \in timers <=>
                    phase[d] = "active" /\ \A w \in Parties(d) : <<d, w>> \notin connected
               /\ <<d, "grace">> \in timers => phase[d] = "active")'
      BY DEF TimersExact
    <3>4. CASE d = c
      BY <2>1, <3>1, <3>4 DEF IInv, TimersExact
    <3>5. CASE d # c
      BY <2>1, <3>1, <3>2, <3>3, <3>5 DEF IInv, TimersExact, TimerKeys
    <3> QED BY <3>4, <3>5
  <2> QED BY <1>0, <2>1, <2>2, <2>3, ReservationsStay, LimitStays DEF IInv
<1>12. ASSUME NEW k \in Conns, NEW c \in Calls, Rejoin(k, c) PROVE IInv'
  <2>1. /\ UNCHANGED <<phase, from, to, connected, byUser, byPair, reserved, inviting, recent>>
        /\ timers' = timers \/ timers' = timers \ {<<c, "grace">>}
        /\ toConn' = toConn \/ (phase[c] = "active" /\ toConn' = [toConn EXCEPT ![c] = k])
    BY <1>12 DEF Rejoin, inviteVars
  <2>2. Fresh'
    BY <1>0, <2>1 DEF IInv, Fresh, TypeOK
  <2>3. IndexExact' /\ TimersExact'
    BY <2>1 DEF IInv, IndexExact, TimersExact, IsLive, Parties
  <2> QED BY <1>0, <2>1, <2>2, <2>3, ReservationsStay, LimitStays DEF IInv
<1>13. ASSUME NEW c \in Calls, NEW key \in TimerKeys, Fires(c, key) PROVE IInv'
  <2>1. TimerReason[key] \in Reasons
    BY DEF TimerReason, TimerKeys, Reasons
  <2> QED BY <1>0, <1>13, <2>1, EndStep DEF Fires, inviteVars
<1>14. ASSUME NEW c \in Calls, Record(c) PROVE IInv'
  BY <1>0, <1>14, StillStep DEF Record, inviteVars
<1>15. ASSUME NEW u \in Visitors, RoomCheck(u) \/ RoomEnter(u) \/ RoomLeave(u) PROVE IInv'
  BY <1>0, <1>15, StillStep DEF RoomCheck, RoomEnter, RoomLeave, callVars, inviteVars
<1>16. CASE Crash
  <2>1. /\ phase' = [c \in Calls |-> IF IsLive(c) THEN "lost" ELSE phase[c]]
        /\ byUser' = [u \in Users |-> NoCall] /\ byPair' = [p \in Pairs |-> NoCall]
        /\ recent' = [p \in Users \X Users |-> 0]
        /\ timers' = {} /\ reserved' = {} /\ inviting' = {}
        /\ UNCHANGED <<from, to, toConn, connected>>
    BY <1>16 DEF Crash
  <2>2. \A c \in Calls : ~IsLive(c)'
    BY <2>1 DEF IsLive, Live
  <2>3. IndexExact'
    BY <2>1, <2>2 DEF IndexExact
  <2>4. TimersExact'
    BY <2>1, <2>2 DEF TimersExact, IsLive, Live
  <2>5. Fresh'
    BY <2>1 DEF IInv, Fresh, IsLive, Live
  <2>6. ReservedAlone' /\ Limited'
    BY <2>1 DEF ReservedAlone, Limited
  <2> QED BY <1>0, <2>3, <2>4, <2>5, <2>6 DEF IInv
<1>17. CASE UNCHANGED vars
  BY <1>0, <1>17, StillStep DEF vars, callVars, inviteVars
<1> QED
  BY <1>1, <1>2, <1>3, <1>4, <1>5, <1>6, <1>7, <1>8, <1>9, <1>10, <1>11, <1>12, <1>13, <1>14,
     <1>15, <1>16, <1>17 DEF Next

LEMMA Inductive == Spec => []IInv
BY InitInv, StepInv, PTL DEF Spec

\* Whatever the interleaving of invitations, timers, hang-ups and closing
\* tabs, the indexes hold exactly the live calls: nobody has two.
THEOREM IndexesHold == Spec => []IndexExact
<1>1. IInv => IndexExact
  BY DEF IInv
<1> QED BY <1>1, Inductive, PTL

\* The reservation made before the first await is exclusive until create().
THEOREM ReservationsHold == Spec => []ReservedAlone
<1>1. IInv => ReservedAlone
  BY DEF IInv
<1> QED BY <1>1, Inductive, PTL

\* The flood limit holds though the count is taken after the awaits.
THEOREM LimitHolds == Spec => []Limited
<1>1. IInv => Limited
  BY DEF IInv
<1> QED BY <1>1, Inductive, PTL

\* Every live call has the timers of its phase, and no other call has one.
THEOREM TimersHold == Spec => []TimersExact
<1>1. IInv => TimersExact
  BY DEF IInv
<1> QED BY <1>1, Inductive, PTL
----------------------------------------------------------------------------
(* The registry implements the telephone exchange. *)

LEMMA ExchangeInit == ASSUME Init PROVE Exchange!Init
BY DEF Init, Exchange!Init, Stage, Parties, OutcomeOf

\* A call is on the line exactly when it is live.
LEMMA OnTheLineIsLive ==
  ASSUME TypeOK, NEW c \in Calls PROVE Exchange!OnTheLine(c) <=> IsLive(c)
BY DEF TypeOK, Exchange!OnTheLine, Stage, IsLive, Live, Phases

LEMMA ExchangeStutters ==
  ASSUME UNCHANGED <<phase, from, to, reason>> PROVE UNCHANGED Exchange!lines
BY DEF Exchange!lines, Parties, OutcomeOf

\* The ends the exchange allows a call in its phase.
Fits(c, why) ==
  \/ phase[c] = "ringing" /\ why \in {"declined", "cancelled", "missed"}
  \/ phase[c] = "active" /\ why \in {"hangup", "failed", "missed"}

LEMMA EndIsOver ==
  ASSUME TypeOK, NEW c \in Calls, NEW why \in Reasons, Fits(c, why), End(c, why)
  PROVE  Exchange!Next
<1> DEFINE how == OutcomeOf(why)
<1>1. /\ phase' = [phase EXCEPT ![c] = "ended"] /\ reason' = [reason EXCEPT ![c] = why]
      /\ UNCHANGED <<from, to>>
  BY DEF End
<1>2. \/ phase[c] = "ringing" /\ how \in {"declined", "cancelled", "missed"}
      \/ phase[c] = "active" /\ how \in {"completed", "failed", "missed"}
  BY DEF Fits, OutcomeOf
<1>3. how \in Exchange!Outcomes
  BY <1>2 DEF Exchange!Outcomes
<1>4. [d \in Calls |-> Stage[phase'[d]]] = [[d \in Calls |-> Stage[phase[d]]] EXCEPT ![c] = "over"]
  BY <1>1 DEF TypeOK, Stage
<1>5. [d \in Calls |-> IF phase'[d] = "lost" THEN "lost" ELSE OutcomeOf(reason'[d])]
        = [[d \in Calls |-> IF phase[d] = "lost" THEN "lost" ELSE OutcomeOf(reason[d])] EXCEPT ![c] = how]
  BY <1>1 DEF TypeOK
<1>6. \A d \in Calls : Parties(d)' = Parties(d)
  BY <1>1 DEF Parties
<1>7. Stage[phase[c]] = "ringing" <=> phase[c] = "ringing"
  BY DEF TypeOK, Stage, Phases, Live
<1>8. Stage[phase[c]] = "talking" <=> phase[c] = "active"
  BY DEF TypeOK, Stage, Phases, Live
<1>9. Exchange!Over(c, how)
  BY <1>2, <1>4, <1>5, <1>6, <1>7, <1>8 DEF Exchange!Over
<1> QED BY <1>3, <1>9 DEF Exchange!Next

LEMMA AnswerIsPickUp ==
  ASSUME TypeOK, NEW c \in Calls, NEW k \in Conns, Answer(c, k)
  PROVE  Exchange!Next
<1>1. /\ phase[c] = "ringing" /\ phase' = [phase EXCEPT ![c] = "active"]
      /\ UNCHANGED <<from, to, reason>>
  BY DEF Answer
<1>2. [d \in Calls |-> Stage[phase'[d]]] = [[d \in Calls |-> Stage[phase[d]]] EXCEPT ![c] = "talking"]
  BY <1>1 DEF TypeOK, Stage
<1>3. [d \in Calls |-> IF phase'[d] = "lost" THEN "lost" ELSE OutcomeOf(reason'[d])]
        = [d \in Calls |-> IF phase[d] = "lost" THEN "lost" ELSE OutcomeOf(reason[d])]
  BY <1>1 DEF TypeOK
<1>4. \A d \in Calls : Parties(d)' = Parties(d)
  BY <1>1 DEF Parties
<1>5. Exchange!PickUp(c)
  BY <1>1, <1>2, <1>3, <1>4 DEF Exchange!PickUp, Stage
<1> QED BY <1>5 DEF Exchange!Next

\* create() tests nothing: that both are free follows from the reservation.
LEMMA CreateIsRing ==
  ASSUME IInv, NEW i \in inviting, NEW c \in Calls, Create(i, c)
  PROVE  Exchange!Next
<1> USE CallAssumption
<1> DEFINE u == UserOf[i[1]]
           v == i[2]
<1>1. u \in Users /\ v \in Users /\ PairOf(i) = {u, v}
  BY DEF IInv, TypeOK, PairOf
<1>2. u # v /\ byUser[u] = NoCall /\ byUser[v] = NoCall
  BY <1>1 DEF IInv, ReservedAlone
<1>3. /\ phase[c] = "none" /\ phase' = [phase EXCEPT ![c] = "ringing"]
      /\ from' = [from EXCEPT ![c] = u] /\ to' = [to EXCEPT ![c] = v]
      /\ UNCHANGED reason
  BY DEF Create
<1>4. ASSUME NEW w \in Users, byUser[w] = NoCall PROVE ~Exchange!Engaged(w)
  <2> SUFFICES ASSUME NEW d \in Calls, Exchange!OnTheLine(d), w \in Parties(d) \ {Nobody} PROVE FALSE
    BY DEF Exchange!Engaged
  <2>1. IsLive(d)
    BY OnTheLineIsLive DEF IInv
  <2>2. byUser[w] = d
    BY <2>1 DEF IInv, IndexExact, Parties
  <2> QED BY <1>4, <2>2 DEF Calls
<1>5. [d \in Calls |-> Stage[phase'[d]]] = [[d \in Calls |-> Stage[phase[d]]] EXCEPT ![c] = "ringing"]
  BY <1>3 DEF IInv, TypeOK, Stage
<1>6. [d \in Calls |-> IF phase'[d] = "lost" THEN "lost" ELSE OutcomeOf(reason'[d])]
        = [d \in Calls |-> IF phase[d] = "lost" THEN "lost" ELSE OutcomeOf(reason[d])]
  BY <1>3 DEF IInv, TypeOK
<1>7. [d \in Calls |-> Parties(d)' \ {Nobody}]
        = [[d \in Calls |-> Parties(d) \ {Nobody}] EXCEPT ![c] = {u, v}]
  <2>1. Parties(c)' = {u, v} /\ {u, v} \ {Nobody} = {u, v}
    BY <1>1, <1>3 DEF Parties, IInv, TypeOK
  <2>2. \A d \in Calls : d # c => Parties(d)' = Parties(d)
    BY <1>3 DEF Parties, IInv, TypeOK
  <2> QED BY <2>1, <2>2
<1>8. Stage[phase[c]] = "none"
  BY <1>3 DEF Stage
<1>9. Exchange!Ring(c, u, v)
  BY <1>1, <1>2, <1>4, <1>5, <1>6, <1>7, <1>8 DEF Exchange!Ring
<1> QED BY <1>1, <1>9 DEF Exchange!Next

LEMMA CrashIsLose == ASSUME TypeOK, Crash PROVE Exchange!Next
<1>1. /\ phase' = [c \in Calls |-> IF IsLive(c) THEN "lost" ELSE phase[c]]
      /\ UNCHANGED <<from, to, reason>>
  BY DEF Crash
<1>2. \A c \in Calls : Parties(c)' = Parties(c)
  BY <1>1 DEF Parties
<1>3. \A c \in Calls : Stage[phase'[c]] = IF Exchange!OnTheLine(c) THEN "over" ELSE Stage[phase[c]]
  BY <1>1, OnTheLineIsLive DEF Stage
<1>4. \A c \in Calls : phase'[c] = "lost" <=> IsLive(c) \/ phase[c] = "lost"
  BY <1>1
<1>5. Exchange!Lose
  <2>1. [c \in Calls |-> Stage[phase'[c]]]
          = [c \in Calls |-> IF Exchange!OnTheLine(c) THEN "over"
                             ELSE [d \in Calls |-> Stage[phase[d]]][c]]
    BY <1>3
  <2>2. [c \in Calls |-> IF phase'[c] = "lost" THEN "lost" ELSE OutcomeOf(reason'[c])]
          = [c \in Calls |-> IF Exchange!OnTheLine(c) THEN "lost"
               ELSE [d \in Calls |-> IF phase[d] = "lost" THEN "lost" ELSE OutcomeOf(reason[d])][c]]
    BY <1>1, <1>4, OnTheLineIsLive
  <2> QED BY <1>2, <2>1, <2>2 DEF Exchange!Lose
<1> QED BY <1>5 DEF Exchange!Next

\* The timer that fires belongs to the phase, and so does its reason.
LEMMA TimerFits ==
  ASSUME IInv, NEW c \in Calls, NEW key \in TimerKeys, <<c, key>> \in timers,
         key = "max" => phase[c] = "active"
  PROVE  TimerReason[key] \in Reasons /\ Fits(c, TimerReason[key])
<1>1. /\ <<c, "ring">> \in timers => phase[c] = "ringing"
      /\ <<c, "connect">> \in timers => phase[c] = "active"
      /\ <<c, "grace">> \in timers => phase[c] = "active"
  BY DEF IInv, TimersExact
<1>2. key = "ring" \/ key = "connect" \/ key = "grace" \/ key = "max"
  BY DEF TimerKeys
<1> QED BY <1>1, <1>2 DEF TimerReason, Reasons, Fits

LEMMA ExchangeStep == ASSUME IInv, [Next]_vars PROVE [Exchange!Next]_(Exchange!lines)
<1> USE CallAssumption
<1>0. TypeOK
  BY DEF IInv
<1>1. ASSUME NEW k \in Conns, OpenConn(k) \/ Hello(k) PROVE UNCHANGED Exchange!lines
  BY <1>1, ExchangeStutters DEF OpenConn, Hello, callVars
<1>2. ASSUME NEW k \in Conns, CloseConn(k) PROVE [Exchange!Next]_(Exchange!lines)
  <2> DEFINE c == byUser[UserOf[k]]
  <2>1. CASE End(c, "cancelled") /\ Leads(k, c) /\ DialsFrom(UserOf[k], c)
    <3>1. c \in Calls /\ Fits(c, "cancelled") /\ "cancelled" \in Reasons
      BY <1>0, <2>1 DEF Leads, DialsFrom, TypeOK, Fits, Reasons
    <3> QED BY <1>0, <2>1, <3>1, EndIsOver
  <2>2. CASE UNCHANGED <<phase, from, to, reason>>
    BY <2>2, ExchangeStutters
  <2> QED BY <1>2, <2>1, <2>2 DEF CloseConn, callVars
<1>3. ASSUME NEW k \in Conns, NEW v \in Users, CounterCall(k, v) PROVE Exchange!Next
  <2> DEFINE c == byPair[{UserOf[k], v}]
  <2>1. c \in Calls /\ Answer(c, k)
    BY <1>0, <1>3 DEF CounterCall, TypeOK, Pairs
  <2> QED BY <1>0, <2>1, AnswerIsPickUp
<1>4. ASSUME NEW k \in Conns, NEW v \in Users, Invite(k, v) PROVE UNCHANGED Exchange!lines
  BY <1>4, ExchangeStutters DEF Invite, callVars
<1>5. ASSUME NEW i \in inviting, Deny(i) PROVE UNCHANGED Exchange!lines
  BY <1>5, ExchangeStutters DEF Deny, callVars
<1>6. ASSUME NEW i \in inviting, NEW c \in Calls, Create(i, c) PROVE Exchange!Next
  BY <1>6, CreateIsRing
<1>7. ASSUME NEW c \in Calls, Announce(c) PROVE [Exchange!Next]_(Exchange!lines)
  <2>1. CASE UNCHANGED callVars
    BY <2>1, ExchangeStutters DEF callVars
  <2>2. CASE End(c, "missed")
    <3>1. Fits(c, "missed") /\ "missed" \in Reasons
      BY <2>2 DEF End, Fits, IsLive, Live, Reasons
    <3> QED BY <1>0, <2>2, <3>1, EndIsOver
  <2> QED BY <1>7, <2>1, <2>2 DEF Announce
<1>8. ASSUME NEW p \in Users \X Users, WindowSlides(p) PROVE UNCHANGED Exchange!lines
  BY <1>8, ExchangeStutters DEF WindowSlides, callVars
<1>9. ASSUME NEW k \in Conns, NEW c \in Calls, Accept(k, c) PROVE Exchange!Next
  BY <1>0, <1>9, AnswerIsPickUp DEF Accept
<1>10. ASSUME NEW k \in Conns, NEW c \in Calls, Decline(k, c) \/ Cancel(k, c) \/ Hangup(k, c)
       PROVE  Exchange!Next
  <2>1. PICK why \in Reasons : End(c, why) /\ Fits(c, why)
    BY <1>10 DEF Decline, Cancel, Hangup, End, Fits, IsLive, Live, Reasons
  <2> QED BY <1>0, <2>1, EndIsOver
<1>11. ASSUME NEW k \in Conns, NEW c \in Calls, Connected(k, c) \/ Rejoin(k, c)
       PROVE  UNCHANGED Exchange!lines
  BY <1>11, ExchangeStutters DEF Connected, Rejoin
<1>12. ASSUME NEW c \in Calls, NEW key \in TimerKeys, Fires(c, key) PROVE Exchange!Next
  <2>1. End(c, TimerReason[key]) /\ <<c, key>> \in timers /\ (key = "max" => phase[c] = "active")
    BY <1>12 DEF Fires
  <2>2. TimerReason[key] \in Reasons /\ Fits(c, TimerReason[key])
    BY <2>1, TimerFits
  <2> QED BY <1>0, <2>1, <2>2, EndIsOver
<1>13. ASSUME NEW c \in Calls, Record(c) PROVE UNCHANGED Exchange!lines
  BY <1>13, ExchangeStutters DEF Record
<1>14. ASSUME NEW u \in Visitors, RoomCheck(u) \/ RoomEnter(u) \/ RoomLeave(u)
       PROVE  UNCHANGED Exchange!lines
  BY <1>14, ExchangeStutters DEF RoomCheck, RoomEnter, RoomLeave, callVars
<1>15. CASE Crash
  BY <1>0, <1>15, CrashIsLose
<1>16. CASE UNCHANGED vars
  BY <1>16, ExchangeStutters DEF vars, callVars
<1> QED
  BY <1>1, <1>2, <1>3, <1>4, <1>5, <1>6, <1>7, <1>8, <1>9, <1>10, <1>11, <1>12, <1>13, <1>14,
     <1>15, <1>16 DEF Next

\* The registry, with its awaits, tabs and timers, implements the exchange:
\* calls ring between two free users only and go through their stages in order.
THEOREM RegistryIsExchange == Spec => ImplementsExchange
<1>1. Init => Exchange!Init
  BY ExchangeInit
<1>2. IInv /\ [Next]_vars => [Exchange!Next]_(Exchange!lines)
  BY ExchangeStep
<1> QED BY <1>1, <1>2, Inductive, PTL DEF Spec, ImplementsExchange, Exchange!Spec

----------------------------------------------------------------------------
(* The sides of a call, the way it ends and what is recorded of it. *)

\* The two sides: connections of the two parties, the callee's from the answer on.
Sides(c) ==
  /\ phase[c] # "none" =>
       /\ from[c] \in Users /\ to[c] \in Users
       /\ fromConn[c] \in Conns /\ UserOf[fromConn[c]] = from[c]
  /\ toConn[c] # NoConn <=> c \in answered
  /\ toConn[c] # NoConn => UserOf[toConn[c]] = to[c]
  /\ phase[c] = "active" => c \in answered
  /\ \A k \in Conns : <<k, c>> \in returning => phase[c] # "none" /\ UserOf[k] \in Parties(c)

\* The end: its reason fits whether the call was answered, it is recorded as
\* it was, and one record at most is written or still to be written.
Story(c) ==
  /\ reason[c] \in {"declined", "cancelled"} => phase[c] = "ended" /\ c \notin answered
  /\ reason[c] \in {"hangup", "failed"} => c \in answered
  /\ log[c] # "none" => phase[c] = "ended" /\ log[c] = OutcomeOf(reason[c])
  /\ c \in finishing => phase[c] = "ended" /\ writes[c] = 0
  /\ writes[c] = 0 \/ (writes[c] = 1 /\ phase[c] = "ended")

HistoryInv == \A c \in Calls : Sides(c) /\ Story(c)

LEMMA InitHistory == ASSUME Init PROVE HistoryInv
BY CallAssumption DEF Init, HistoryInv, Sides, Story

\* What rings was not answered.
LEMMA RingingUnanswered ==
  ASSUME IInv, HistoryInv, NEW c \in Calls, phase[c] \in {"none", "ringing"}
  PROVE  toConn[c] = NoConn /\ c \notin answered
BY DEF IInv, Fresh, HistoryInv, Sides

\* A call that no part of a step concerns keeps its history.
LEMMA HistoryStays ==
  ASSUME NEW c \in Calls, Sides(c), Story(c),
         phase'[c] = phase[c], from'[c] = from[c], to'[c] = to[c],
         fromConn'[c] = fromConn[c], toConn'[c] = toConn[c], reason'[c] = reason[c],
         log'[c] = log[c], writes'[c] = writes[c],
         c \in answered' <=> c \in answered, c \in finishing' => c \in finishing,
         \A k \in Conns : <<k, c>> \in returning' => <<k, c>> \in returning
  PROVE  Sides(c)' /\ Story(c)'
<1>1. Parties(c)' = Parties(c)
  BY DEF Parties
<1>2. Sides(c)'
  BY <1>1 DEF Sides
<1>3. Story(c)'
  BY DEF Story, OutcomeOf
<1> QED BY <1>2, <1>3

\* end() gives a live call, unrecorded so far, a reason that fits.
LEMMA EndHistory ==
  ASSUME IInv, HistoryInv, NEW c \in Calls, NEW why \in Reasons, Fits(c, why), End(c, why),
         UNCHANGED <<log, writes>>, returning' \subseteq returning
  PROVE  HistoryInv'
<1> SUFFICES ASSUME NEW d \in Calls PROVE Sides(d)' /\ Story(d)'
  BY DEF HistoryInv
<1>1. /\ IsLive(c) /\ phase' = [phase EXCEPT ![c] = "ended"]
      /\ reason' = [reason EXCEPT ![c] = why]
      /\ finishing' = finishing \cup {c}
      /\ UNCHANGED <<from, to, fromConn, toConn, connected, answered>>
  BY DEF End
<1>2. Sides(d) /\ Story(d)
  BY DEF HistoryInv
<1>3. CASE d # c
  BY <1>1, <1>2, <1>3, HistoryStays DEF IInv, TypeOK
<1>4. CASE d = c
  <2>1. phase[c] \in {"ringing", "active"} /\ phase'[c] = "ended" /\ reason'[c] = why
    BY <1>1 DEF IsLive, Live, IInv, TypeOK
  <2>2. log[c] = "none" /\ c \notin finishing /\ writes[c] = 0
    BY <1>2, <1>4, <2>1 DEF Story
  <2>3. Parties(c)' = Parties(c)
    BY <1>1 DEF Parties
  <2>4. Sides(c)'
    BY <1>1, <1>2, <1>4, <2>1, <2>3 DEF Sides
  <2>5. why \in {"declined", "cancelled"} => c \notin answered
    BY RingingUnanswered DEF Fits
  <2>6. why \in {"hangup", "failed"} => c \in answered
    BY <1>2, <1>4 DEF Fits, Sides
  <2>7. Story(c)'
    BY <1>1, <2>1, <2>2, <2>5, <2>6 DEF Story
  <2> QED BY <1>4, <2>4, <2>7
<1> QED BY <1>3, <1>4

\* accept() takes the connection of the callee who answers.
LEMMA AnswerHistory ==
  ASSUME IInv, HistoryInv, NEW c \in Calls, NEW k \in Conns, Answer(c, k), UserOf[k] = to[c],
         UNCHANGED <<log, writes, returning>>
  PROVE  HistoryInv'
<1> SUFFICES ASSUME NEW d \in Calls PROVE Sides(d)' /\ Story(d)'
  BY DEF HistoryInv
<1>1. /\ phase[c] = "ringing" /\ phase' = [phase EXCEPT ![c] = "active"]
      /\ answered' = answered \cup {c} /\ toConn' = [toConn EXCEPT ![c] = k]
      /\ UNCHANGED <<from, to, fromConn, reason, finishing>>
  BY DEF Answer
<1>2. Sides(d) /\ Story(d)
  BY DEF HistoryInv
<1>3. CASE d # c
  BY <1>1, <1>2, <1>3, HistoryStays DEF IInv, TypeOK
<1>4. CASE d = c
  <2>1. phase'[c] = "active" /\ toConn'[c] = k /\ k # NoConn
    BY <1>1, CallAssumption DEF IInv, TypeOK
  <2>2. Parties(c)' = Parties(c)
    BY <1>1 DEF Parties
  <2>3. Sides(c)'
    BY <1>1, <1>2, <1>4, <2>1, <2>2 DEF Sides
  <2>4. Story(c)'
    BY <1>1, <1>2, <1>4, <2>1 DEF Story
  <2> QED BY <1>4, <2>3, <2>4
<1> QED BY <1>3, <1>4

\* The steps that touch no call.
LEMMA StillHistory ==
  ASSUME HistoryInv, UNCHANGED <<phase, from, to, fromConn, toConn, answered, reason, log, writes>>,
         finishing' \subseteq finishing, returning' \subseteq returning
  PROVE  HistoryInv'
BY HistoryStays DEF HistoryInv

\* create() makes the inviting connection the caller's side.
LEMMA CreateHistory ==
  ASSUME IInv, HistoryInv, NEW i \in inviting, NEW c \in Calls, Create(i, c)
  PROVE  HistoryInv'
<1> SUFFICES ASSUME NEW d \in Calls PROVE Sides(d)' /\ Story(d)'
  BY DEF HistoryInv
<1>1. /\ phase[c] = "none" /\ phase' = [phase EXCEPT ![c] = "ringing"]
      /\ from' = [from EXCEPT ![c] = UserOf[i[1]]] /\ to' = [to EXCEPT ![c] = i[2]]
      /\ fromConn' = [fromConn EXCEPT ![c] = i[1]]
      /\ UNCHANGED <<toConn, answered, reason, finishing, log, writes, returning>>
  BY DEF Create, tabVars, logVars
<1>2. Sides(d) /\ Story(d)
  BY DEF HistoryInv
<1>3. CASE d # c
  BY <1>1, <1>2, <1>3, HistoryStays DEF IInv, TypeOK
<1>4. CASE d = c
  <2>1. i[1] \in Conns /\ UserOf[i[1]] \in Users /\ i[2] \in Users
    BY CallAssumption DEF IInv, TypeOK
  <2>2. /\ phase'[c] = "ringing" /\ from'[c] = UserOf[i[1]] /\ to'[c] = i[2]
        /\ fromConn'[c] = i[1]
    BY <1>1 DEF IInv, TypeOK
  <2>3. toConn[c] = NoConn /\ c \notin answered
    BY <1>1, RingingUnanswered
  <2>4. \A k \in Conns : <<k, c>> \notin returning
    BY <1>1, <1>2, <1>4 DEF Sides
  <2>5. Sides(c)'
    BY <1>1, <2>1, <2>2, <2>3, <2>4 DEF Sides
  <2>6. Story(c)'
    BY <1>1, <1>2, <1>4, <2>2 DEF Story
  <2> QED BY <1>4, <2>5, <2>6
<1> QED BY <1>3, <1>4

\* rejoin() moves the side of the user who returns to the new connection.
LEMMA RejoinHistory ==
  ASSUME IInv, HistoryInv, NEW k \in Conns, NEW c \in Calls, Rejoin(k, c)
  PROVE  HistoryInv'
<1> SUFFICES ASSUME NEW d \in Calls PROVE Sides(d)' /\ Story(d)'
  BY DEF HistoryInv
<1>1. /\ <<k, c>> \in returning /\ returning' \subseteq returning
      /\ UNCHANGED <<phase, from, to, answered, reason, finishing, log, writes>>
  BY DEF Rejoin, logVars
<1>2. Sides(d) /\ Story(d)
  BY DEF HistoryInv
<1>3. CASE UNCHANGED <<fromConn, toConn>>
  BY <1>1, <1>2, <1>3, HistoryStays
<1>4. CASE /\ phase[c] = "active"
           /\ fromConn' = IF from[c] = UserOf[k] THEN [fromConn EXCEPT ![c] = k] ELSE fromConn
           /\ toConn' = IF from[c] = UserOf[k] THEN toConn ELSE [toConn EXCEPT ![c] = k]
  <2>1. CASE d # c
    <3>1. fromConn'[d] = fromConn[d] /\ toConn'[d] = toConn[d]
      BY <1>4, <2>1 DEF IInv, TypeOK
    <3> QED BY <1>1, <1>2, <3>1, HistoryStays
  <2>2. CASE d = c
    <3>1. UserOf[k] \in Parties(c) /\ c \in answered /\ k # NoConn
      BY <1>1, <1>2, <1>4, <2>2, CallAssumption DEF Sides
    <3>2. /\ from[c] = UserOf[k] => fromConn'[c] = k /\ toConn'[c] = toConn[c]
          /\ from[c] # UserOf[k] => fromConn'[c] = fromConn[c] /\ toConn'[c] = k
      BY <1>4 DEF IInv, TypeOK
    <3>3. from[c] # UserOf[k] => to[c] = UserOf[k]
      BY <3>1 DEF Parties
    <3>4. Parties(c)' = Parties(c)
      BY <1>1 DEF Parties
    <3>5. Sides(c)'
      BY <1>1, <1>2, <1>4, <2>2, <3>1, <3>2, <3>3, <3>4 DEF Sides
    <3>6. Story(c)'
      BY <1>1, <1>2, <2>2 DEF Story, OutcomeOf
    <3> QED BY <2>2, <3>5, <3>6
  <2> QED BY <2>1, <2>2
<1> QED BY <1>3, <1>4 DEF Rejoin

\* finishCall writes the outcome of an ended call, once.
LEMMA RecordHistory ==
  ASSUME IInv, HistoryInv, NEW c \in Calls, Record(c) PROVE HistoryInv'
<1> SUFFICES ASSUME NEW d \in Calls PROVE Sides(d)' /\ Story(d)'
  BY DEF HistoryInv
<1>1. /\ c \in finishing /\ finishing' = finishing \ {c}
      /\ UNCHANGED <<phase, from, to, fromConn, toConn, answered, reason, returning>>
  BY DEF Record, tabVars
<1>2. Sides(d) /\ Story(d)
  BY DEF HistoryInv
<1>3. CASE UNCHANGED <<log, writes>>
  BY <1>1, <1>2, <1>3, HistoryStays
<1>4. CASE /\ log' = [log EXCEPT ![c] = OutcomeOf(reason[c])]
           /\ writes' = [writes EXCEPT ![c] = @ + 1]
  <2>1. CASE d # c
    <3>1. log'[d] = log[d] /\ writes'[d] = writes[d]
      BY <1>4, <2>1 DEF IInv, TypeOK
    <3> QED BY <1>1, <1>2, <3>1, HistoryStays
  <2>2. CASE d = c
    <3>1. phase[c] = "ended" /\ writes[c] = 0
      BY <1>1, <1>2, <2>2 DEF Story
    <3>2. log'[c] = OutcomeOf(reason[c]) /\ writes'[c] = 1
      BY <1>4, <3>1 DEF IInv, TypeOK
    <3>3. Sides(c)'
      BY <1>1, <1>2, <2>2 DEF Sides, Parties
    <3>4. Story(c)'
      BY <1>1, <1>2, <2>2, <3>1, <3>2 DEF Story, OutcomeOf
    <3> QED BY <2>2, <3>3, <3>4
  <2> QED BY <2>1, <2>2
<1> QED BY <1>3, <1>4 DEF Record, logVars

LEMMA StepHistory == ASSUME IInv, HistoryInv, [Next]_vars PROVE HistoryInv'
<1> USE CallAssumption
<1>0. TypeOK
  BY DEF IInv
<1>1. ASSUME NEW k \in Conns, OpenConn(k) PROVE HistoryInv'
  BY <1>1, StillHistory DEF OpenConn, callVars, logVars
<1>2. ASSUME NEW k \in Conns, Hello(k) PROVE HistoryInv'
  <2> DEFINE c == byUser[UserOf[k]]
  <2>1. UNCHANGED <<phase, from, to, fromConn, toConn, answered, reason, log, writes, finishing>>
    BY <1>2 DEF Hello, callVars, logVars
  <2>2. CASE c = NoCall
    <3>1. returning' = returning
      BY <1>2, <2>2 DEF Hello
    <3> QED BY <2>1, <3>1, StillHistory
  <2>3. CASE c # NoCall
    <3>1. returning' = returning \cup {<<k, c>>}
      BY <1>2, <2>3 DEF Hello
    <3>2. c \in Calls /\ phase[c] # "none" /\ UserOf[k] \in Parties(c)
      BY <2>3 DEF IInv, TypeOK, IndexExact, IsLive, Live
    <3>3. ASSUME NEW d \in Calls PROVE Sides(d)' /\ Story(d)'
      <4>1. Sides(d) /\ Story(d) /\ Parties(d)' = Parties(d)
        BY <2>1 DEF HistoryInv, Parties
      <4>2. Sides(d)'
        BY <2>1, <3>1, <3>2, <4>1 DEF Sides
      <4>3. Story(d)'
        BY <2>1, <4>1 DEF Story, OutcomeOf
      <4> QED BY <4>2, <4>3
    <3> QED BY <3>3 DEF HistoryInv
  <2> QED BY <2>2, <2>3
<1>3. ASSUME NEW k \in Conns, CloseConn(k) PROVE HistoryInv'
  <2> DEFINE c == byUser[UserOf[k]]
  <2>1. UNCHANGED <<log, writes>> /\ returning' \subseteq returning
    BY <1>3 DEF CloseConn, logVars
  <2>2. CASE Leads(k, c) /\ DialsFrom(UserOf[k], c) /\ End(c, "cancelled")
    <3>1. c \in Calls /\ Fits(c, "cancelled") /\ "cancelled" \in Reasons
      BY <1>0, <2>2 DEF Leads, DialsFrom, TypeOK, Fits, Reasons
    <3> QED BY <2>1, <2>2, <3>1, EndHistory
  <2>3. CASE UNCHANGED <<phase, from, to, fromConn, toConn, answered, reason, finishing>>
    BY <2>1, <2>3, StillHistory
  <2> QED BY <1>3, <2>2, <2>3 DEF CloseConn, callVars
<1>4. ASSUME NEW k \in Conns, NEW v \in Users, CounterCall(k, v) PROVE HistoryInv'
  <2> DEFINE c == byPair[{UserOf[k], v}]
  <2>1. c \in Calls /\ Answer(c, k) /\ UserOf[k] = to[c]
    BY <1>0, <1>4 DEF CounterCall, TypeOK, Pairs
  <2> QED BY <1>4, <2>1, AnswerHistory DEF CounterCall, tabVars, logVars
<1>5. ASSUME NEW k \in Conns, NEW v \in Users, Invite(k, v) PROVE HistoryInv'
  BY <1>5, StillHistory DEF Invite, tabVars, callVars, logVars
<1>6. ASSUME NEW i \in inviting, Deny(i) PROVE HistoryInv'
  BY <1>6, StillHistory DEF Deny, tabVars, callVars, logVars
<1>7. ASSUME NEW i \in inviting, NEW c \in Calls, Create(i, c) PROVE HistoryInv'
  BY <1>7, CreateHistory
<1>8. ASSUME NEW c \in Calls, Announce(c) PROVE HistoryInv'
  <2>1. UNCHANGED <<log, writes, returning>>
    BY <1>8 DEF Announce, tabVars, logVars
  <2>2. CASE UNCHANGED callVars
    BY <2>1, <2>2, StillHistory DEF callVars
  <2>3. CASE End(c, "missed")
    <3>1. Fits(c, "missed") /\ "missed" \in Reasons
      BY <2>3 DEF End, Fits, IsLive, Live, Reasons
    <3> QED BY <2>1, <2>3, <3>1, EndHistory
  <2> QED BY <1>8, <2>2, <2>3 DEF Announce
<1>9. ASSUME NEW p \in Users \X Users, WindowSlides(p) PROVE HistoryInv'
  BY <1>9, StillHistory DEF WindowSlides, tabVars, callVars, logVars
<1>10. ASSUME NEW k \in Conns, NEW c \in Calls, Accept(k, c) PROVE HistoryInv'
  BY <1>10, AnswerHistory DEF Accept, tabVars, logVars
<1>11. ASSUME NEW k \in Conns, NEW c \in Calls, Decline(k, c) \/ Cancel(k, c) \/ Hangup(k, c)
       PROVE  HistoryInv'
  <2>1. PICK why \in Reasons : End(c, why) /\ Fits(c, why)
    BY <1>11 DEF Decline, Cancel, Hangup, End, Fits, IsLive, Live, Reasons
  <2>2. UNCHANGED <<log, writes, returning>>
    BY <1>11 DEF Decline, Cancel, Hangup, tabVars, logVars
  <2> QED BY <2>1, <2>2, EndHistory
<1>12. ASSUME NEW k \in Conns, NEW c \in Calls, Connected(k, c) PROVE HistoryInv'
  BY <1>12, StillHistory DEF Connected, tabVars, logVars
<1>13. ASSUME NEW k \in Conns, NEW c \in Calls, Rejoin(k, c) PROVE HistoryInv'
  BY <1>13, RejoinHistory
<1>14. ASSUME NEW c \in Calls, NEW key \in TimerKeys, Fires(c, key) PROVE HistoryInv'
  <2>1. End(c, TimerReason[key]) /\ <<c, key>> \in timers /\ (key = "max" => phase[c] = "active")
        /\ UNCHANGED <<log, writes, returning>>
    BY <1>14 DEF Fires, tabVars, logVars
  <2>2. TimerReason[key] \in Reasons /\ Fits(c, TimerReason[key])
    BY <2>1, TimerFits
  <2> QED BY <2>1, <2>2, EndHistory
<1>15. ASSUME NEW c \in Calls, Record(c) PROVE HistoryInv'
  BY <1>15, RecordHistory
<1>16. ASSUME NEW u \in Visitors, RoomCheck(u) \/ RoomEnter(u) \/ RoomLeave(u) PROVE HistoryInv'
  BY <1>16, StillHistory DEF RoomCheck, RoomEnter, RoomLeave, tabVars, callVars, logVars
<1>17. CASE Crash
  <2>1. /\ phase' = [c \in Calls |-> IF IsLive(c) THEN "lost" ELSE phase[c]]
        /\ returning' = {} /\ finishing' = {}
        /\ UNCHANGED <<from, to, fromConn, toConn, answered, reason, log, writes>>
    BY <1>17 DEF Crash, logVars
  <2>2. ASSUME NEW d \in Calls PROVE Sides(d)' /\ Story(d)'
    <3>1. Sides(d) /\ Story(d)
      BY DEF HistoryInv
    <3>2. phase'[d] = phase[d] \/ (phase[d] \in {"ringing", "active"} /\ phase'[d] = "lost")
      BY <2>1 DEF IsLive, Live
    <3>3. Sides(d)'
      BY <2>1, <3>1, <3>2 DEF Sides
    <3>4. Story(d)'
      BY <2>1, <3>1, <3>2 DEF Story, OutcomeOf
    <3> QED BY <3>3, <3>4
  <2> QED BY <2>2 DEF HistoryInv
<1>18. CASE UNCHANGED vars
  BY <1>18, StillHistory DEF vars, tabVars, callVars, logVars
<1> QED
  BY <1>1, <1>2, <1>3, <1>4, <1>5, <1>6, <1>7, <1>8, <1>9, <1>10, <1>11, <1>12, <1>13, <1>14,
     <1>15, <1>16, <1>17, <1>18 DEF Next

LEMMA HistoryHolds == Spec => [](IInv /\ HistoryInv)
BY InitInv, StepInv, InitHistory, StepHistory, PTL DEF Spec

\* The connection that leads a side belongs to the party on that side, through
\* answers, counter-calls and reconnects, and the callee's side exists exactly
\* from the answer on (create, accept, rejoin).
THEOREM SidesHold == Spec => []SidesBelong
<1>1. HistoryInv => SidesBelong
  BY DEF HistoryInv, Sides, SidesBelong
<1> QED BY <1>1, HistoryHolds, PTL

\* Whatever ends a call, and however often, at most one record of it is ever
\* written, and only when it is over (end, finishCall).
THEOREM RecordsHold == Spec => []RecordedOnce
<1>1. HistoryInv => RecordedOnce
  BY DEF HistoryInv, Story, RecordedOnce
<1> QED BY <1>1, HistoryHolds, PTL

\* What the conversation says of a call is what happened: answered if it was
\* completed or failed, never answered if declined or cancelled.
THEOREM RecordsTellTheTruth == Spec => []OutcomeHonest
<1>1. TypeOK /\ HistoryInv => OutcomeHonest
  BY DEF TypeOK, Reasons, HistoryInv, Story, OutcomeHonest, OutcomeOf
<1>2. IInv => TypeOK
  BY DEF IInv
<1> QED BY <1>1, <1>2, HistoryHolds, PTL

\* Only the close of a tab that leads a side of a call touches the call.
LEMMA OtherTabsStep ==
  ASSUME IInv, [Next]_vars, NEW k \in Conns, NEW c \in Calls,
         conn[k] = "open", conn'[k] = "closed", crashes' = crashes,
         IsLive(c), k \notin {fromConn[c], toConn[c]}
  PROVE  phase'[c] = phase[c] /\ {t \in timers' : t[1] = c} = {t \in timers : t[1] = c}
<1> USE CallAssumption
<1>0. TypeOK /\ conn' # conn
  BY DEF IInv
<1>1. ASSUME NEW j \in Conns, OpenConn(j) PROVE FALSE
  BY <1>0, <1>1 DEF OpenConn, TypeOK
<1>2. ASSUME NEW j \in Conns, j # k, CloseConn(j) PROVE FALSE
  BY <1>0, <1>2 DEF CloseConn, TypeOK
<1>3. CASE Crash
  BY <1>0, <1>3 DEF Crash, TypeOK
<1>4. CASE CloseConn(k)
  <2> DEFINE d == byUser[UserOf[k]]
  <2>1. Leads(k, d) => d # c /\ d \in Calls
    BY <1>0 DEF Leads, ConnOf, TypeOK
  <2>2. CASE UNCHANGED callVars
    BY <2>2 DEF callVars
  <2>3. CASE Leads(k, d) /\ End(d, "cancelled")
    BY <1>0, <2>1, <2>3 DEF End, TypeOK
  <2>4. CASE Leads(k, d) /\ timers' = timers \cup {<<d, "grace">>} /\ UNCHANGED phase
    BY <2>1, <2>4
  <2> QED BY <1>4, <2>2, <2>3, <2>4 DEF CloseConn
<1>5. ASSUME NEW j \in Conns, NEW v \in Users, CounterCall(j, v) \/ Invite(j, v) PROVE FALSE
  BY <1>0, <1>5 DEF CounterCall, Invite, tabVars
<1>6. ASSUME NEW j \in Conns, NEW e \in Calls,
             \/ Accept(j, e) \/ Decline(j, e) \/ Cancel(j, e) \/ Hangup(j, e)
             \/ Connected(j, e) \/ Rejoin(j, e)
      PROVE  FALSE
  BY <1>0, <1>6 DEF Accept, Decline, Cancel, Hangup, Connected, Rejoin, tabVars
<1>7. ASSUME NEW i, Deny(i) \/ \E e \in Calls : Create(i, e) PROVE FALSE
  BY <1>0, <1>7 DEF Deny, Create, tabVars
<1>8. ASSUME NEW e, Announce(e) \/ Record(e) \/ \E key \in TimerKeys : Fires(e, key) PROVE FALSE
  BY <1>0, <1>8 DEF Announce, Record, Fires, tabVars
<1>9. ASSUME NEW x, \/ WindowSlides(x) \/ RoomCheck(x) \/ RoomEnter(x) \/ RoomLeave(x)
                    \/ \E j \in Conns : j = x /\ Hello(j)
      PROVE  FALSE
  BY <1>0, <1>9 DEF WindowSlides, RoomCheck, RoomEnter, RoomLeave, Hello, tabVars
<1>10. ~UNCHANGED vars
  BY <1>0 DEF vars, tabVars
<1> QED
  BY <1>1, <1>2, <1>3, <1>4, <1>5, <1>6, <1>7, <1>8, <1>9, <1>10 DEF Next

\* Any other tab of the two parties, or of anybody else, may come and go
\* without a trace in the call (noteConnectionClosed).
THEOREM OtherTabsDoNothing == Spec => OtherTabsLeaveAlone
<1>1. IInv /\ [Next]_vars =>
        [\A k \in Conns, c \in Calls :
           (/\ conn[k] = "open" /\ conn'[k] = "closed" /\ crashes' = crashes
            /\ IsLive(c) /\ k \notin {fromConn[c], toConn[c]})
           => phase'[c] = phase[c] /\ {t \in timers' : t[1] = c} = {t \in timers : t[1] = c}]_vars
  BY OtherTabsStep
<1> QED BY <1>1, Inductive, PTL DEF Spec, OtherTabsLeaveAlone
=============================================================================
