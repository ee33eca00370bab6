--------------------------- MODULE CallPeersProofs ---------------------------
(***************************************************************************)
(* What holds of the clients of a call for any number of users, troubles   *)
(* and clashes: types, connections only to those who are there, the        *)
(* microphone on every one of them, and offers that stand.                 *)
(*                                                                         *)
(* Whether a connection may stay is a question of what the client was told *)
(* and of what it has not read yet: a signal opens a connection before the *)
(* list of members is compared, so the proof follows the last word about a *)
(* user in the messages on their way (Announced).                          *)
(***************************************************************************)
EXTENDS CallPeers, SequenceTheorems, TLAPS

Stages   == {"down", "opening", "attached", "open"}
Signals  == [kind : {"offer", "answer", "ice"}, gen : Nat]
Mails    == [peer : Users, s : Signals]
Requests == [t : {"join", "leave"}] \cup [t : {"signal"}, peer : Users, s : Signals]
Notices  == [t : {"state"}, members : SUBSET Users] \cup [t : {"joined", "left"}, u : Users]
              \cup [t : {"signal"}, peer : Users, s : Signals]

Types ==
  /\ members \in SUBSET Users /\ shown \in SUBSET Users
  /\ voice \in SUBSET Users /\ stray \in SUBSET Users
  /\ stage \in [Users -> Stages] /\ st \in [Users -> {"idle", "connecting", "in"}]
  /\ asks \in [Users -> Nat] /\ gens \in [Users -> Nat] /\ known \in [Users -> SUBSET Users]
  /\ up \in [Users -> Seq(Requests)] /\ down \in [Users -> Seq(Notices)]
  /\ early \in [Users -> Seq(Mails)] /\ replay \in [Users -> Seq(Mails)]
  /\ chain \in [Pairs -> Seq(Signals)]
  /\ pc \in [Pairs -> Peers \cup {None}] /\ job \in [Pairs \X Workers -> Awaited \cup {None}]

\* What travels names generations that exist, and nobody is sent a signal of
\* his own.
SignalsOf(v)  == {s \in Signals : s.gen <= gens[v]}
RequestsOf(u) == {m \in Requests : m.t = "signal" => m.peer # u /\ m.s \in SignalsOf(u)}
NoticesOf(u)  == {m \in Notices : m.t = "signal" => m.peer # u /\ m.s \in SignalsOf(m.peer)}
MailsOf(u)    == {m \in Mails : m.peer # u /\ m.s \in SignalsOf(m.peer)}

MailInv ==
  /\ \A u \in Users : /\ up[u] \in Seq(RequestsOf(u)) /\ down[u] \in Seq(NoticesOf(u))
                      /\ early[u] \in Seq(MailsOf(u)) /\ replay[u] \in Seq(MailsOf(u))
  /\ \A p \in Pairs : chain[p] \in Seq(SignalsOf(p[2]))

\* A connection of the pair p.
Fits(r, p) == /\ r \in Peers /\ r.born <= r.gen /\ r.gen <= gens[p[1]]
              /\ r.remote <= gens[p[2]]

NumbersInv ==
  \A p \in Pairs : /\ Has(p) => Fits(pc[p], p)
                   /\ \A w \in Workers : job[<<p, w>>] # None => job[<<p, w>>].gen <= gens[p[2]]

\* Only somebody with a voice has connections; the signals that are left to
\* one without it wait behind a description that will never be set.
VoiceInv ==
  /\ \A u \in Users : /\ u \in shown => st[u] = "in"
                      /\ st[u] = "in" => u \in voice /\ early[u] = <<>>
                      /\ u \in voice => st[u] = "in" \/ u \in stray
  /\ \A p \in Pairs : /\ Has(p) => p[1] \in voice /\ pc[p].mic
                      /\ p[1] \notin voice /\ chain[p] # <<>> => job[<<p, "chain">>] # None
  /\ \A u \in Users : u \notin voice /\ replay[u] # <<>> =>
       \E p \in Pairs : p[1] = u /\ job[<<p, "join">>] # None

\* A message that says whether v is in the call, and one that says he is.
About(m, v) == m.t = "state" \/ (m.t \in {"joined", "left"} /\ m.u = v)
Says(m, v)  == (m.t = "state" /\ v \in m.members) \/ (m.t = "joined" /\ m.u = v)

\* Whoever knows K and reads the first k of s takes v for a member, or learns
\* the truth from the rest of s.
Announced(s, K, k, v) ==
  \/ \E n \in (k + 1)..Len(s) : s[n].t = "state"
  \/ \E n \in 1..k : Says(s[n], v) /\ \A i \in (n + 1)..k : ~About(s[i], v)
  \/ v \in K /\ \A i \in 1..k : ~About(s[i], v)

WordInv ==
  \A u \in Users : stage[u] = "open" =>
    /\ \A v \in members : Announced(down[u], known[u], Len(down[u]), v)
    /\ \A k \in 1..Len(down[u]) :
         down[u][k].t = "signal" => Announced(down[u], known[u], k, down[u][k].peer)

StateComing(u) == stage[u] # "open" \/ \E n \in 1..Len(down[u]) : down[u][n].t = "state"

GhostInv ==
  \A p \in Pairs :
    /\ Has(p) /\ p[1] \in shown /\ p[1] \notin stray => p[2] \in known[p[1]] \/ StateComing(p[1])
    /\ ChainReady(p) => Has(p) \/ p[2] \in known[p[1]] \/ StateComing(p[1])

IInv == Types /\ MailInv /\ NumbersInv /\ VoiceInv /\ WordInv /\ GhostInv
----------------------------------------------------------------------------
(* Pairs, messages, connections. *)

LEMMA PairIs ==
  /\ \A p \in Pairs : /\ p[1] \in Users /\ p[2] \in Users /\ p[1] # p[2] /\ p = <<p[1], p[2]>>
                      /\ Mirror(p) \in Pairs /\ Mirror(p)[1] = p[2] /\ Mirror(p)[2] = p[1]
  /\ \A u, v \in Users : u # v => <<u, v>> \in Pairs
BY DEF Pairs, Mirror

LEMMA RequestIs ==
  /\ Join \in Requests /\ Join.t = "join" /\ Leaving \in Requests /\ Leaving.t = "leave"
  /\ \A v \in Users, s \in Signals : /\ Signal(v, s) \in Requests /\ Signal(v, s).t = "signal"
                                     /\ Signal(v, s).peer = v /\ Signal(v, s).s = s
  /\ \A m \in Requests : /\ m.t \in {"join", "leave", "signal"}
                         /\ m.t = "signal" => m.peer \in Users /\ m.s \in Signals
BY DEF Requests, Join, Leaving, Signal

LEMMA NoticeIs ==
  /\ \A M \in SUBSET Users : State(M) \in Notices /\ State(M).t = "state" /\ State(M).members = M
  /\ \A u \in Users : /\ Joined(u) \in Notices /\ Joined(u).t = "joined" /\ Joined(u).u = u
                      /\ Left(u) \in Notices /\ Left(u).t = "left" /\ Left(u).u = u
  /\ \A v \in Users, s \in Signals : /\ Signal(v, s) \in Notices /\ Signal(v, s).t = "signal"
                                     /\ Signal(v, s).peer = v /\ Signal(v, s).s = s
  /\ \A m \in Notices : /\ m.t \in {"state", "joined", "left", "signal"}
                        /\ m.t = "state" => m.members \in SUBSET Users
                        /\ m.t \in {"joined", "left"} => m.u \in Users
                        /\ m.t = "signal" => m.peer \in Users /\ m.s \in Signals
BY DEF Notices, State, Joined, Left, Signal

LEMMA SignalIs ==
  \A g \in Nat : /\ Offer(g) \in Signals /\ Answer(g) \in Signals /\ Ice(g) \in Signals
                 /\ Offer(g).gen = g /\ Answer(g).gen = g /\ Ice(g).gen = g
BY DEF Offer, Answer, Ice, Signals

LEMMA NewPeerIs ==
  ASSUME NEW u, NEW g \in Nat
  PROVE  /\ NewPeer(u, g) \in Peers /\ NewPeer(u, g) # None
         /\ NewPeer(u, g).born = g /\ NewPeer(u, g).gen = g /\ NewPeer(u, g).remote = 0
         /\ NewPeer(u, g).mic = (u \in voice)
         /\ NewPeer(u, g).sig = "stable" /\ ~NewPeer(u, g).making
<1>1. NewPeer(u, g) \in Peers
  BY DEF NewPeer, Peers, Nothing
<1> QED BY <1>1, NoneAssumption DEF NewPeer, Nothing

\* The generations only grow.
Grow == gens' \in [Users -> Nat] /\ \A u \in Users : gens[u] <= gens'[u]

LEMMA SameGrow == ASSUME Types, gens' = gens PROVE Grow
BY DEF Types, Grow

LEMMA NextGen ==
  ASSUME Types, NEW u \in Users, gens' = gens \/ gens' = [gens EXCEPT ![u] = @ + 1]
  PROVE  Grow /\ gens[u] + 1 \in Nat /\ (gens' # gens => gens'[u] = gens[u] + 1)
<1>1. PICK g \in Nat : g = gens[u] + 1
  BY DEF Types
<1>2. gens' = gens \/ gens' = [gens EXCEPT ![u] = g]
  BY <1>1
<1>3. \A v \in Users : gens[v] \in Nat /\ gens[v] <= gens[v]
  BY DEF Types
<1>4. gens[u] <= g
  BY <1>1, <1>3
<1> QED BY <1>1, <1>2, <1>3, <1>4 DEF Types, Grow

LEMMA FitsStill ==
  ASSUME Types, Grow, NEW p \in Pairs, NEW r, Fits(r, p)
  PROVE  Fits(r, p)'
<1>1. p[1] \in Users /\ p[2] \in Users /\ r.gen \in Nat /\ r.remote \in Nat
  BY PairIs DEF Fits, Peers
<1>2. /\ gens[p[1]] \in Nat /\ gens[p[2]] \in Nat /\ gens'[p[1]] \in Nat /\ gens'[p[2]] \in Nat
      /\ gens[p[1]] <= gens'[p[1]] /\ gens[p[2]] <= gens'[p[2]]
  BY <1>1 DEF Types, Grow
<1> QED BY <1>1, <1>2 DEF Fits

LEMMA MailGrows ==
  ASSUME Types, Grow
  PROVE  \A u \in Users : /\ SignalsOf(u) \subseteq SignalsOf(u)'
                          /\ RequestsOf(u) \subseteq RequestsOf(u)'
                          /\ NoticesOf(u) \subseteq NoticesOf(u)' /\ MailsOf(u) \subseteq MailsOf(u)'
<1>1. ASSUME NEW u \in Users PROVE SignalsOf(u) \subseteq SignalsOf(u)'
  BY <1>1 DEF SignalsOf, Signals, Types, Grow
<1>2. ASSUME NEW u \in Users PROVE RequestsOf(u) \subseteq RequestsOf(u)'
  BY <1>1, <1>2 DEF RequestsOf
<1>3. ASSUME NEW u \in Users PROVE NoticesOf(u) \subseteq NoticesOf(u)'
  BY <1>1, <1>3, NoticeIs DEF NoticesOf
<1>4. ASSUME NEW u \in Users PROVE MailsOf(u) \subseteq MailsOf(u)'
  BY <1>1, <1>4 DEF MailsOf, Mails
<1> QED BY <1>1, <1>2, <1>3, <1>4

----------------------------------------------------------------------------
(* The wires. *)

LEMMA TwoSignals ==
  ASSUME NEW S, NEW a \in S, NEW b \in S
  PROVE  <<a>> \in Seq(S) /\ <<a, b>> \in Seq(S)
OBVIOUS

LEMMA SentTypes ==
  ASSUME Types, NEW u \in Users, NEW ms \in Seq(Requests)
  PROVE  /\ Sent(u, ms) \in [Users -> Seq(Requests)]
         /\ \A v \in Users : Sent(u, ms)[v] = IF v = u /\ stage[u] # "down" THEN up[u] \o ms ELSE up[v]
<1>1. up[u] \in Seq(Requests) /\ up[u] \o ms \in Seq(Requests)
  BY ConcatProperties DEF Types
<1> QED BY <1>1 DEF Sent, Types

\* A client sends what names its own generations.
LEMMA SentMail ==
  ASSUME Types, MailInv, Grow, NEW u \in Users, NEW ms \in Seq(RequestsOf(u)'), up' = Sent(u, ms)
  PROVE  up' \in [Users -> Seq(Requests)] /\ \A v \in Users : up'[v] \in Seq(RequestsOf(v)')
<1>1. \A v \in Users : RequestsOf(v) \subseteq RequestsOf(v)' /\ RequestsOf(v)' \subseteq Requests
  BY MailGrows DEF RequestsOf
<1>2. ms \in Seq(Requests)
  BY <1>1, SeqMonotonic
<1>3. ASSUME NEW v \in Users PROVE up[v] \in Seq(RequestsOf(v)')
  BY <1>1, SeqMonotonic DEF MailInv
<1>4. up[u] \o ms \in Seq(RequestsOf(u)')
  BY <1>3, ConcatProperties
<1> QED BY <1>2, <1>3, <1>4, SentTypes

LEMMA ToldIs ==
  ASSUME Types, NEW who, NEW m \in Notices
  PROVE  /\ Told(who, m) \in [Users -> Seq(Notices)]
         /\ \A u \in Users : Told(who, m)[u] =
              IF u \in who /\ Hears(u) THEN Append(down[u], m) ELSE down[u]
<1>1. ASSUME NEW u \in Users PROVE down[u] \in Seq(Notices) /\ Append(down[u], m) \in Seq(Notices)
  BY AppendProperties DEF Types
<1> QED BY <1>1 DEF Told

LEMMA ToldSome ==
  ASSUME Types, NEW who, NEW m \in Notices, NEW T, T = Told(who, m)
  PROVE  /\ T \in [Users -> Seq(Notices)]
         /\ \A u \in Users : T[u] = down[u] \/ (u \in who /\ T[u] = Append(down[u], m))
         /\ \A u \in Users : u \in who /\ Hears(u) => T[u] = Append(down[u], m)
BY ToldIs

LEMMA Appends ==
  ASSUME NEW S, NEW s \in Seq(S), NEW m \in S
  PROVE  Append(s, m) \in Seq(S)
BY AppendProperties

----------------------------------------------------------------------------
(* Comparing the members. *)

\* u has the connections to M, and no other; those it had are kept.
Follows(u, M) ==
  \A p \in Pairs :
    IF p[1] # u THEN pc'[p] = pc[p]
    ELSE /\ Has(p)' <=> p[2] \in M
         /\ \/ pc'[p] \in {pc[p], None}
            \/ /\ ~Has(p) /\ Has(p)' /\ Fits(pc[p], p)' /\ pc'[p].mic = (u \in voice)
               /\ pc'[p].born > gens[u] /\ pc'[p].sig = "stable"

LEMMA ComparedFollows ==
  ASSUME Types, NEW u \in Users, NEW M, pc' = Compared(u, M),
         gens' = [gens EXCEPT ![u] = IF \E p \in Pairs : pc'[p] # None /\ pc[p] = None THEN @ + 1 ELSE @]
  PROVE  Grow /\ pc' \in [Pairs -> Peers \cup {None}] /\ Follows(u, M)
<1>1. PICK g \in Nat : g = gens[u] + 1
  BY DEF Types
<1>2. NewPeer(u, g) \in Peers /\ NewPeer(u, g) # None /\ NewPeer(u, g).mic = (u \in voice)
      /\ NewPeer(u, g).born = g /\ NewPeer(u, g).gen = g /\ NewPeer(u, g).remote = 0
      /\ NewPeer(u, g).sig = "stable"
  BY NewPeerIs
<1>3. PICK new : new = NewPeer(u, g)
  OBVIOUS
<1>4. pc' = [p \in Pairs |-> IF p[1] # u THEN pc[p]
                             ELSE IF p[2] \notin M THEN None
                             ELSE IF Has(p) THEN pc[p] ELSE new]
  BY <1>1, <1>3 DEF Compared
<1>5. pc' \in [Pairs -> Peers \cup {None}]
  BY <1>2, <1>3, <1>4 DEF Types
<1>6. Grow
  <2>1. gens' = gens \/ gens' = [gens EXCEPT ![u] = @ + 1]
    BY DEF Types
  <2> QED BY <2>1, NextGen
<1>7. ASSUME NEW p \in Pairs, p[1] = u, pc'[p] \notin {pc[p], None}
      PROVE  /\ ~Has(p) /\ Has(p)' /\ Fits(pc[p], p)' /\ pc'[p].mic = (u \in voice)
             /\ pc'[p].born > gens[u] /\ pc'[p].sig = "stable"
  <2>1. pc'[p] = new /\ pc[p] = None
    BY <1>4, <1>7 DEF Has
  <2>2. gens'[u] = g
    BY <1>1, <1>2, <1>3, <2>1 DEF Types
  <2>3. p[2] \in Users /\ gens'[p[2]] \in Nat
    BY <1>6, PairIs DEF Grow
  <2>4. new.born > gens[u]
    BY <1>1, <1>2, <1>3 DEF Types
  <2> QED BY <1>2, <1>3, <1>7, <2>1, <2>2, <2>3, <2>4 DEF Has, Fits
<1>8. ASSUME NEW p \in Pairs PROVE p[1] = u => (Has(p)' <=> p[2] \in M)
  BY <1>2, <1>3, <1>4 DEF Has
<1>9. ASSUME NEW p \in Pairs, p[1] # u PROVE pc'[p] = pc[p]
  BY <1>4, <1>9
<1> QED BY <1>5, <1>6, <1>7, <1>8, <1>9 DEF Follows

LEMMA LearnIs ==
  ASSUME Types, NEW u \in Users, NEW M \in SUBSET Users, Learn(u, M)
  PROVE  /\ Grow /\ pc' \in [Pairs -> Peers \cup {None}]
         /\ known' \in [Users -> SUBSET Users] /\ known'[u] = M
         /\ \A v \in Users \ {u} : known'[v] = known[v]
         /\ stray' = stray \ (shown \cap {u})
         /\ IF u \in shown THEN Follows(u, M) ELSE pc' = pc
<1>1. /\ known' \in [Users -> SUBSET Users] /\ known'[u] = M
      /\ \A v \in Users \ {u} : known'[v] = known[v]
      /\ stray' = stray \ (shown \cap {u})
  BY DEF Learn, Types
<1>2. CASE u \in shown
  BY <1>1, <1>2, ComparedFollows DEF Learn
<1>3. CASE u \notin shown
  <2>1. pc' = pc
    BY <1>3 DEF Learn
  <2>2. gens' = gens
    BY <2>1 DEF Learn, Types
  <2> QED BY <1>1, <1>3, <2>1, <2>2, SameGrow DEF Types
<1> QED BY <1>2, <1>3

LEMMA ClosedAllIs ==
  ASSUME Types, NEW u, pc' = ClosedAll(u)
  PROVE  /\ pc' \in [Pairs -> Peers \cup {None}]
         /\ \A p \in Pairs : pc'[p] = IF p[1] = u THEN None ELSE pc[p]
BY DEF Types, ClosedAll

----------------------------------------------------------------------------
(* Signals. *)

LEMMA ReadyIs ==
  ASSUME Types, MailInv, NEW p \in Pairs, NEW w \in Workers, Ready(p, w)
  PROVE  /\ NextOf(p, w) \in SignalsOf(p[2]) /\ job[<<p, w>>] = None
         /\ w = "chain" => chain[p] # <<>> /\ NextOf(p, w) = Head(chain[p])
         /\ w = "join" => replay[p[1]] # <<>> /\ Head(replay[p[1]]).peer = p[2]
<1>1. CASE w = "chain"
  <2>1. chain[p] \in Seq(SignalsOf(p[2])) /\ chain[p] # <<>> /\ job[<<p, w>>] = None
    BY <1>1 DEF MailInv, Ready, ChainReady
  <2>2. Head(chain[p]) \in SignalsOf(p[2])
    BY <2>1, HeadTailProperties
  <2> QED BY <1>1, <2>1, <2>2 DEF NextOf
<1>2. CASE w = "join"
  <2>1. /\ replay[p[1]] \in Seq(MailsOf(p[1])) /\ replay[p[1]] # <<>> /\ job[<<p, w>>] = None
        /\ Head(replay[p[1]]).peer = p[2]
    BY <1>2, PairIs DEF MailInv, Ready, JoinReady
  <2>2. Head(replay[p[1]]) \in MailsOf(p[1])
    BY <2>1, HeadTailProperties
  <2> QED BY <1>2, <2>1, <2>2 DEF NextOf, MailsOf
<1> QED BY <1>1, <1>2 DEF Workers

\* A settled client has handled all signals but those behind one it waits for.
LEMMA SettledIs ==
  ASSUME Types, MailInv, NEW u \in Users, Settled(u)
  PROVE  /\ \A p \in Pairs : p[1] = u => ~ChainReady(p)
         /\ replay[u] # <<>> => \E p \in Pairs : p[1] = u /\ job[<<p, "join">>] # None
<1>1. ASSUME NEW p \in Pairs, p[1] = u PROVE ~ChainReady(p)
  BY <1>1 DEF Settled, Ready, Workers
<1>2. ASSUME replay[u] # <<>>, ~\E p \in Pairs : p[1] = u /\ job[<<p, "join">>] # None PROVE FALSE
  <2>1. Head(replay[u]) \in MailsOf(u)
    BY <1>2, HeadTailProperties DEF MailInv
  <2>2. PICK v \in Users : v = Head(replay[u]).peer /\ v # u
    BY <2>1 DEF MailsOf, Mails
  <2>3. <<u, v>> \in Pairs /\ <<u, v>>[1] = u /\ <<u, v>>[2] = v
    BY <2>2, PairIs
  <2>4. Ready(<<u, v>>, "join")
    BY <1>2, <2>2, <2>3 DEF Ready, JoinReady
  <2> QED BY <2>3, <2>4 DEF Settled, Workers
<1> QED BY <1>1, <1>2

LEMMA BegunIs ==
  ASSUME NEW p, NEW r \in Peers, NEW s \in Signals
  PROVE  /\ Begun(p, r, s) \in Peers /\ Begun(p, r, s).mic = r.mic
         /\ Begun(p, r, s).born = r.born /\ Begun(p, r, s).gen = r.gen
         /\ Begun(p, r, s).remote = r.remote
         /\ Awaits(p, r, s) \in Awaited \cup {None}
         /\ Awaits(p, r, s) # None => Awaits(p, r, s).gen = s.gen
<1>1. s.gen \in Nat /\ s.kind \in {"offer", "answer", "ice"} /\ r.born \in Nat
  BY DEF Signals, Peers
<1>2. Awaits(p, r, s) \in Awaited \cup {None} /\ (Awaits(p, r, s) # None => Awaits(p, r, s).gen = s.gen)
  <2>1. [at |-> s.kind, gen |-> s.gen, born |-> r.born] \in Awaited
    BY <1>1 DEF Awaited
  <2> QED BY <2>1 DEF Awaits
<1>3. PICK b \in BOOLEAN : b = (r.cand \/ s.gen = r.remote)
  BY DEF Peers
<1>4. PICK h \in SUBSET Nat : h = r.held \cup {s.gen}
  BY <1>1 DEF Peers
<1>5. PICK x : x = Begun(p, r, s)
  OBVIOUS
<1>6. \/ x = [r EXCEPT !.setting = TRUE] \/ x = [r EXCEPT !.held = h]
      \/ x = [r EXCEPT !.cand = b] \/ x = r
  BY <1>3, <1>4, <1>5 DEF Begun
<1>7. x \in Peers /\ x.mic = r.mic /\ x.born = r.born /\ x.gen = r.gen /\ x.remote = r.remote
  <2>1. CASE x = [r EXCEPT !.setting = TRUE]
    BY <2>1 DEF Peers
  <2>2. CASE x = [r EXCEPT !.held = h]
    BY <2>2 DEF Peers
  <2>3. CASE x = [r EXCEPT !.cand = b]
    BY <2>3 DEF Peers
  <2> QED BY <1>6, <2>1, <2>2, <2>3
<1> QED BY <1>2, <1>5, <1>7

LEMMA DescribedIs ==
  ASSUME NEW r \in Peers, NEW g \in Nat
  PROVE  /\ Described(r, g) \in Peers /\ Described(r, g).mic = r.mic /\ Described(r, g).remote = g
         /\ Described(r, g).born = r.born /\ Described(r, g).gen = r.gen
<1>1. PICK c \in BOOLEAN : c = IF r.remote = g THEN r.cand ELSE g \in r.held
  <2>1. CASE r.remote = g
    <3>1. r.cand \in BOOLEAN
      BY DEF Peers
    <3> QED BY <2>1, <3>1
  <2>2. CASE r.remote # g
    <3>1. (g \in r.held) \in BOOLEAN
      OBVIOUS
    <3> QED BY <2>2, <3>1
  <2> QED BY <2>1, <2>2
<1>2. PICK i \in BOOLEAN : i = (r.ice /\ r.remote = g)
  BY DEF Peers
<1>3. PICK f \in BOOLEAN : f = (r.failed /\ r.remote = g)
  BY DEF Peers
<1>4. PICK d : d = [r EXCEPT !.remote = g, !.cand = c, !.held = {}, !.ice = i, !.failed = f]
  OBVIOUS
<1>5. Described(r, g) = d
  BY <1>1, <1>2, <1>3, <1>4 DEF Described
<1>6. d \in Peers
  BY <1>4 DEF Peers
<1>7. d.mic = r.mic /\ d.remote = g /\ d.born = r.born /\ d.gen = r.gen
  BY <1>4 DEF Peers
<1> QED BY <1>5, <1>6, <1>7

----------------------------------------------------------------------------
(* Steps that change connections and open or close none. *)

Retuned ==
  /\ Grow /\ pc' \in [Pairs -> Peers \cup {None}]
  /\ \A q \in Pairs : /\ Has(q)' <=> Has(q)
                      /\ Has(q) => Fits(pc[q], q)' /\ pc'[q].mic = pc[q].mic

LEMMA HasIs ==
  ASSUME Types, NumbersInv, NEW p \in Pairs, Has(p)
  PROVE  /\ pc[p] \in Peers /\ Fits(pc[p], p) /\ p[1] \in Users /\ p[2] \in Users
         /\ pc[p].born \in Nat /\ pc[p].gen \in Nat /\ pc[p].remote \in Nat
         /\ gens[p[1]] \in Nat /\ gens[p[2]] \in Nat
<1>1. Fits(pc[p], p) /\ p[1] \in Users /\ p[2] \in Users
  BY PairIs DEF NumbersInv
<1>2. pc[p] \in Peers
  BY <1>1 DEF Fits
<1> QED BY <1>1, <1>2 DEF Types, Peers

LEMMA AllStay ==
  ASSUME Types, NumbersInv, Grow, pc' = pc
  PROVE  Retuned
<1>1. ASSUME NEW q \in Pairs, Has(q) PROVE Fits(pc[q], q)'
  <2>1. PICK r : r = pc[q] /\ Fits(r, q)
    BY <1>1 DEF NumbersInv
  <2>2. Fits(r, q)'
    BY <2>1, FitsStill
  <2> QED BY <2>1, <2>2
<1> QED BY <1>1 DEF Retuned, Types, Has

LEMMA OneTuned ==
  ASSUME Types, NumbersInv, Grow, NEW p \in Pairs, Has(p), NEW r \in Peers,
         pc' = [pc EXCEPT ![p] = r], r.mic = pc[p].mic,
         r.born <= r.gen, r.gen <= gens'[p[1]], r.remote <= gens'[p[2]]
  PROVE  Retuned
<1>1. /\ pc' \in [Pairs -> Peers \cup {None}] /\ pc'[p] = r
      /\ \A q \in Pairs : q # p => pc'[q] = pc[q]
  BY DEF Types
<1>2. r # None
  BY NoneAssumption
<1>3. ASSUME NEW q \in Pairs, Has(q) PROVE Fits(pc[q], q)'
  <2>1. CASE q = p
    BY <1>1, <2>1 DEF Fits
  <2>2. CASE q # p
    <3>1. PICK x : x = pc[q] /\ Fits(x, q)
      BY <1>3 DEF NumbersInv
    <3>2. Fits(x, q)' /\ pc'[q] = x
      BY <1>1, <2>2, <3>1, FitsStill
    <3> QED BY <3>2
  <2> QED BY <2>1, <2>2
<1> QED BY <1>1, <1>2, <1>3 DEF Retuned, Has

LEMMA CandidateTunes ==
  ASSUME Types, NumbersInv, NEW p \in Pairs, NEW w \in Workers, AddCandidate(p, w)
  PROVE  Retuned
<1>1. Has(p) /\ gens' = gens
  BY DEF AddCandidate, Alive
<1>2. PICK b \in BOOLEAN : b = (pc[p].cand \/ job[<<p, w>>].gen = pc[p].remote)
  BY <1>1, HasIs DEF Peers
<1>3. PICK r : r = [pc[p] EXCEPT !.cand = b]
  OBVIOUS
<1>4. pc' = [pc EXCEPT ![p] = r]
  BY <1>2, <1>3 DEF AddCandidate
<1>5. r \in Peers /\ r.mic = pc[p].mic /\ r.born = pc[p].born /\ r.gen = pc[p].gen
      /\ r.remote = pc[p].remote
  BY <1>1, <1>3, HasIs DEF Peers
<1> QED BY <1>1, <1>4, <1>5, HasIs, SameGrow, OneTuned DEF Fits

LEMMA OfferTunes ==
  ASSUME Types, NumbersInv, NEW p \in Pairs, NEW w \in Workers, SetOffer(p, w)
  PROVE  Retuned
<1>1. Has(p) /\ job[<<p, w>>] # None
  BY DEF SetOffer, Alive
<1>2. PICK g \in Nat : g = job[<<p, w>>].gen /\ g <= gens[p[2]]
  <2>1. job[<<p, w>>] \in Awaited
    BY <1>1 DEF Types
  <2> QED BY <1>1, <2>1 DEF NumbersInv, Awaited
<1>3. PICK h : h = gens[p[1]] + 1
  OBVIOUS
<1>4. PICK d : d = Described(pc[p], g)
  OBVIOUS
<1>5. d \in Peers /\ d.mic = pc[p].mic /\ d.remote = g /\ d.born = pc[p].born /\ d.gen = pc[p].gen
  BY <1>1, <1>4, HasIs, DescribedIs
<1>6. PICK b \in BOOLEAN : b = (pc[p].need \/ pc[p].sig = "offer")
  BY <1>1, HasIs DEF Peers
<1>7. PICK k : /\ pc' = [pc EXCEPT ![p] = [d EXCEPT !.sig = "remote", !.need = b, !.gen = k]]
               /\ \/ k = h /\ gens' = [gens EXCEPT ![p[1]] = h]
                  \/ k = pc[p].gen /\ gens' = gens
  BY <1>2, <1>3, <1>4, <1>6 DEF SetOffer
<1>8. Grow /\ h \in Nat
  BY <1>1, <1>3, <1>7, HasIs, NextGen
<1>9. gens'[p[2]] \in Nat /\ gens[p[2]] <= gens'[p[2]]
  BY <1>1, <1>8, HasIs DEF Grow
<1>10. k \in Nat /\ k >= pc[p].gen /\ k <= gens'[p[1]]
  <2>1. CASE k = h /\ gens' = [gens EXCEPT ![p[1]] = h]
    <3>1. gens'[p[1]] = h
      BY <1>1, <2>1, HasIs DEF Types
    <3>2. h >= pc[p].gen
      BY <1>1, <1>3, HasIs DEF Fits
    <3> QED BY <1>8, <2>1, <3>1, <3>2
  <2>2. CASE k = pc[p].gen /\ gens' = gens
    BY <1>1, <2>2, HasIs DEF Fits
  <2> QED BY <1>7, <2>1, <2>2
<1>11. PICK r : r = [d EXCEPT !.sig = "remote", !.need = b, !.gen = k]
  OBVIOUS
<1>12. pc' = [pc EXCEPT ![p] = r]
  BY <1>7, <1>11
<1>13. r \in Peers /\ r.mic = pc[p].mic /\ r.born = pc[p].born /\ r.gen = k /\ r.remote = g
  BY <1>5, <1>10, <1>11 DEF Peers
<1>14. r.born <= r.gen /\ r.remote <= gens'[p[2]]
  BY <1>1, <1>2, <1>9, <1>10, <1>13, HasIs DEF Fits
<1> QED BY <1>1, <1>8, <1>10, <1>12, <1>13, <1>14, OneTuned

LEMMA ReplyTunes ==
  ASSUME Types, NumbersInv, NEW p \in Pairs, NEW w \in Workers, Reply(p, w)
  PROVE  Retuned
<1>1. Has(p) /\ gens' = gens
  BY DEF Reply, Alive
<1>2. PICK i \in BOOLEAN : i = (pc[p].implied \/ pc[p].sig = "stable")
  BY <1>1, HasIs DEF Peers
<1>3. PICK r : pc' = [pc EXCEPT ![p] = r]
               /\ \/ r = [pc[p] EXCEPT !.sig = "stable"]
                  \/ r = [pc[p] EXCEPT !.sig = "offer", !.implied = i]
  BY <1>2 DEF Reply
<1>4. r \in Peers /\ r.mic = pc[p].mic /\ r.born = pc[p].born /\ r.gen = pc[p].gen
      /\ r.remote = pc[p].remote
  BY <1>1, <1>3, HasIs DEF Peers
<1> QED BY <1>1, <1>3, <1>4, HasIs, SameGrow, OneTuned DEF Fits

LEMMA AnswerTunes ==
  ASSUME Types, NumbersInv, NEW p \in Pairs, NEW w \in Workers, SetAnswer(p, w)
  PROVE  Retuned
<1>1. Has(p) /\ job[<<p, w>>] # None /\ gens' = gens
  BY DEF SetAnswer, Alive
<1>2. PICK g \in Nat : g = job[<<p, w>>].gen /\ g <= gens[p[2]]
  <2>1. job[<<p, w>>] \in Awaited
    BY <1>1 DEF Types
  <2> QED BY <1>1, <2>1 DEF NumbersInv, Awaited
<1>3. CASE pc' = pc
  BY <1>1, <1>3, SameGrow, AllStay
<1>4. CASE pc' # pc
  <2>1. PICK d : d = Described(pc[p], g)
    OBVIOUS
  <2>2. d \in Peers /\ d.mic = pc[p].mic /\ d.remote = g /\ d.born = pc[p].born /\ d.gen = pc[p].gen
    BY <1>1, <2>1, HasIs, DescribedIs
  <2>3. PICK r : r = [d EXCEPT !.sig = "stable", !.setting = FALSE]
    OBVIOUS
  <2>4. pc' = [pc EXCEPT ![p] = r]
    BY <1>2, <1>4, <2>1, <2>3 DEF SetAnswer
  <2>5. r \in Peers /\ r.mic = pc[p].mic /\ r.born = pc[p].born /\ r.gen = pc[p].gen /\ r.remote = g
    BY <2>2, <2>3 DEF Peers
  <2> QED BY <1>1, <1>2, <2>4, <2>5, HasIs, SameGrow, OneTuned DEF Fits
<1> QED BY <1>3, <1>4

LEMMA NegotiateTunes ==
  ASSUME Types, NumbersInv, NEW p \in Pairs, Negotiate(p)
  PROVE  Retuned
<1>1. Has(p) /\ gens' = gens
  BY DEF Negotiate, CanNegotiate
<1>2. PICK r : pc' = [pc EXCEPT ![p] = r] /\ (r = [pc[p] EXCEPT !.waiting = TRUE]
                                               \/ r = [pc[p] EXCEPT !.making = TRUE, !.need = FALSE])
  BY DEF Negotiate
<1>3. r \in Peers /\ r.mic = pc[p].mic /\ r.born = pc[p].born /\ r.gen = pc[p].gen
      /\ r.remote = pc[p].remote
  BY <1>1, <1>2, HasIs DEF Peers
<1> QED BY <1>1, <1>2, <1>3, HasIs, SameGrow, OneTuned DEF Fits

LEMMA OfferedTunes ==
  ASSUME Types, NumbersInv, NEW p \in Pairs, Offered(p)
  PROVE  /\ Retuned /\ pc'[p].gen \in Nat /\ pc'[p].gen <= gens'[p[1]]
         /\ up' = Sent(p[1], <<Signal(p[2], Offer(pc'[p].gen)), Signal(p[2], Ice(pc'[p].gen))>>)
<1>1. Has(p)
  BY DEF Offered
<1>2. PICK h : h = gens[p[1]] + 1
  OBVIOUS
<1>3. PICK g : /\ \/ g = h /\ gens' = [gens EXCEPT ![p[1]] = h]
                  \/ g = pc[p].gen /\ gens' = gens
               /\ pc' = [pc EXCEPT ![p] = [pc[p] EXCEPT !.making = FALSE, !.fresh = FALSE,
                                                        !.sig = "offer", !.gen = g,
                                                        !.implied = FALSE]]
               /\ up' = Sent(p[1], <<Signal(p[2], Offer(g)), Signal(p[2], Ice(g))>>)
  <2>1. CASE pc[p].fresh
    BY <1>2, <2>1 DEF Offered
  <2>2. CASE ~pc[p].fresh
    <3>1. [gens EXCEPT ![p[1]] = gens[p[1]]] = gens
      BY <1>1, HasIs DEF Types
    <3> QED BY <2>2, <3>1 DEF Offered
  <2> QED BY <2>1, <2>2
<1>4. Grow /\ h \in Nat
  BY <1>1, <1>2, <1>3, HasIs, NextGen
<1>5. g \in Nat /\ g >= pc[p].gen /\ g <= gens'[p[1]]
  <2>1. CASE g = h /\ gens' = [gens EXCEPT ![p[1]] = h]
    <3>1. gens'[p[1]] = h
      BY <1>1, <2>1, HasIs DEF Types
    <3>2. h >= pc[p].gen
      BY <1>1, <1>2, HasIs DEF Fits
    <3> QED BY <1>4, <2>1, <3>1, <3>2
  <2>2. CASE g = pc[p].gen /\ gens' = gens
    BY <1>1, <2>2, HasIs DEF Fits
  <2> QED BY <1>3, <2>1, <2>2
<1>6. PICK r : r = [pc[p] EXCEPT !.making = FALSE, !.fresh = FALSE, !.sig = "offer", !.gen = g,
                                 !.implied = FALSE]
  OBVIOUS
<1>7. pc' = [pc EXCEPT ![p] = r]
  BY <1>3, <1>6
<1>8. r \in Peers /\ r.mic = pc[p].mic /\ r.born = pc[p].born /\ r.gen = g /\ r.remote = pc[p].remote
  BY <1>1, <1>5, <1>6, HasIs DEF Peers
<1>9. r.born <= r.gen /\ r.remote <= gens'[p[2]]
  <2>1. gens'[p[2]] \in Nat /\ gens[p[2]] <= gens'[p[2]]
    BY <1>1, <1>4, HasIs DEF Grow
  <2> QED BY <1>1, <1>5, <1>8, <2>1, HasIs DEF Fits
<1>10. Retuned
  BY <1>1, <1>4, <1>5, <1>7, <1>8, <1>9, OneTuned
<1>11. pc'[p] = r
  BY <1>7 DEF Types
<1> QED BY <1>3, <1>5, <1>8, <1>10, <1>11

LEMMA TimersTune ==
  ASSUME Types, NumbersInv, NEW p \in Pairs, StopWaiting(p) \/ Reoffer(p) \/ Restart(p) \/ IceFails(p)
  PROVE  Retuned
<1>1. Has(p) /\ gens' = gens
  BY DEF StopWaiting, Reoffer, Restart, IceFails, Due, TimerVars
<1>2. PICK n \in Nat : n = pc[p].reoffers + 1
  BY <1>1, HasIs DEF Peers
<1>3. PICK k \in Nat : k = pc[p].restarts + 1
  BY <1>1, HasIs DEF Peers
<1>4. PICK r : /\ pc' = [pc EXCEPT ![p] = r]
               /\ \/ r = [pc[p] EXCEPT !.waiting = FALSE, !.may = TRUE, !.making = TRUE, !.need = FALSE]
                  \/ r = [pc[p] EXCEPT !.waiting = FALSE]
                  \/ r = [pc[p] EXCEPT !.sig = "stable", !.need = TRUE, !.fresh = TRUE, !.reoffers = n]
                  \/ r = [pc[p] EXCEPT !.need = TRUE, !.fresh = TRUE, !.restarts = k]
                  \/ r = [pc[p] EXCEPT !.need = TRUE, !.fresh = TRUE, !.failed = TRUE]
  <2>1. CASE StopWaiting(p)
    BY <2>1 DEF StopWaiting
  <2>2. CASE Reoffer(p)
    BY <1>2, <2>2 DEF Reoffer
  <2>3. CASE Restart(p)
    BY <1>3, <2>3 DEF Restart
  <2>4. CASE IceFails(p)
    BY <2>4 DEF IceFails
  <2> QED BY <2>1, <2>2, <2>3, <2>4
<1>5. r \in Peers /\ r.mic = pc[p].mic /\ r.born = pc[p].born /\ r.gen = pc[p].gen
      /\ r.remote = pc[p].remote
  <2>1. PICK o \in Peers : o = pc[p]
    BY <1>1, HasIs
  <2>2. CASE \/ r = [o EXCEPT !.waiting = FALSE, !.may = TRUE, !.making = TRUE, !.need = FALSE]
             \/ r = [o EXCEPT !.waiting = FALSE]
    BY <2>1, <2>2 DEF Peers
  <2>3. CASE r = [o EXCEPT !.sig = "stable", !.need = TRUE, !.fresh = TRUE, !.reoffers = n]
    BY <2>1, <2>3 DEF Peers
  <2>4. CASE r = [o EXCEPT !.need = TRUE, !.fresh = TRUE, !.restarts = k]
    BY <2>1, <2>4 DEF Peers
  <2>5. CASE r = [o EXCEPT !.need = TRUE, !.fresh = TRUE, !.failed = TRUE]
    BY <2>1, <2>5 DEF Peers
  <2> QED BY <1>4, <2>1, <2>2, <2>3, <2>4, <2>5
<1> QED BY <1>1, <1>4, <1>5, HasIs, SameGrow, OneTuned DEF Fits

LEMMA IceTunes ==
  ASSUME Types, NumbersInv, NEW p \in Pairs, IceUp(p) \/ IceLost(p)
  PROVE  Retuned
<1>1. CASE IceLost(p)
  <2>1. Has(p) /\ gens' = gens
    BY <1>1 DEF IceLost
  <2>2. PICK r : r = [pc[p] EXCEPT !.ice = FALSE]
    OBVIOUS
  <2>3. pc' = [pc EXCEPT ![p] = r]
    BY <1>1, <2>2 DEF IceLost
  <2>4. r \in Peers /\ r.mic = pc[p].mic /\ r.born = pc[p].born /\ r.gen = pc[p].gen
        /\ r.remote = pc[p].remote
    BY <2>1, <2>2, HasIs DEF Peers
  <2> QED BY <2>1, <2>3, <2>4, HasIs, SameGrow, OneTuned DEF Fits
<1>2. CASE IceUp(p)
  <2>1. PICK q \in Pairs : q = Mirror(p) /\ q # p
    BY PairIs DEF Mirror
  <2>2. p = <<p[1], p[2]>>
    BY PairIs
  <2>3. Has(p) /\ Has(q) /\ gens' = gens
    BY <1>2, <2>1, <2>2 DEF IceUp, CanConnect, Linked, Mirror
  <2>4. PICK r : r = [pc[p] EXCEPT !.ice = TRUE, !.restarts = 0]
    OBVIOUS
  <2>5. PICK s : s = [pc[q] EXCEPT !.ice = TRUE, !.restarts = 0]
    OBVIOUS
  <2>6. pc' = [pc EXCEPT ![p] = r, ![q] = s]
    BY <1>2, <2>1, <2>4, <2>5 DEF IceUp, Types
  <2>7. r \in Peers /\ r.mic = pc[p].mic /\ r.born = pc[p].born /\ r.gen = pc[p].gen
        /\ r.remote = pc[p].remote
    BY <2>3, <2>4, HasIs DEF Peers
  <2>8. s \in Peers /\ s.mic = pc[q].mic /\ s.born = pc[q].born /\ s.gen = pc[q].gen
        /\ s.remote = pc[q].remote
    BY <2>3, <2>5, HasIs DEF Peers
  <2>9. /\ pc' \in [Pairs -> Peers \cup {None}] /\ pc'[p] = r /\ pc'[q] = s
        /\ \A x \in Pairs : x # p /\ x # q => pc'[x] = pc[x]
    BY <2>1, <2>6, <2>7, <2>8 DEF Types
  <2>10. ASSUME NEW x \in Pairs, Has(x) PROVE Fits(pc[x], x)' /\ pc'[x].mic = pc[x].mic
    <3>1. CASE x = p
      BY <2>3, <2>7, <2>9, <3>1, HasIs DEF Fits
    <3>2. CASE x = q
      BY <2>3, <2>8, <2>9, <3>2, HasIs DEF Fits
    <3>3. CASE x # p /\ x # q
      BY <2>3, <2>9, <2>10, <3>3, HasIs DEF Fits
    <3> QED BY <3>1, <3>2, <3>3
  <2>11. ASSUME NEW x \in Pairs PROVE Has(x)' <=> Has(x)
    BY <2>3, <2>7, <2>8, <2>9, NoneAssumption DEF Has
  <2> QED BY <2>3, <2>9, <2>10, <2>11, SameGrow DEF Retuned
<1> QED BY <1>1, <1>2

LEMMA ScreenTunes ==
  ASSUME Types, NumbersInv, NEW u \in Users, ShareScreen(u)
  PROVE  Retuned
<1>1. gens' = gens
  BY DEF ShareScreen
<1>2. ASSUME NEW q \in Pairs, Has(q)
      PROVE  pc'[q] \in Peers /\ Fits(pc[q], q)' /\ pc'[q].mic = pc[q].mic
  <2>1. PICK r : r = pc'[q]
    OBVIOUS
  <2>2. r = pc[q] \/ r = [pc[q] EXCEPT !.need = TRUE]
    BY <1>2, <2>1 DEF ShareScreen
  <2>3. r \in Peers /\ r.mic = pc[q].mic /\ r.born = pc[q].born /\ r.gen = pc[q].gen
        /\ r.remote = pc[q].remote
    BY <1>2, <2>2, HasIs DEF Peers
  <2> QED BY <1>1, <1>2, <2>1, <2>3, HasIs DEF Fits
<1>3. ASSUME NEW q \in Pairs, ~Has(q) PROVE pc'[q] = None
  BY <1>3 DEF ShareScreen, Has
<1>4. \A q \in Pairs : pc'[q] \in Peers \cup {None} /\ (Has(q)' <=> Has(q))
  BY <1>2, <1>3, NoneAssumption DEF Has
<1>5. pc' = [q \in Pairs |-> pc'[q]]
  BY DEF ShareScreen
<1>6. pc' \in [Pairs -> Peers \cup {None}]
  BY <1>4, <1>5
<1> QED BY <1>1, <1>2, <1>4, <1>6, SameGrow DEF Retuned

\* A worker begins with a signal: the connection is there, or it is opened.
LEMMA BeginOpens ==
  ASSUME Types, MailInv, NumbersInv, NEW p \in Pairs, NEW w \in Workers, Begin(p, w)
  PROVE  /\ Grow /\ pc' \in [Pairs -> Peers \cup {None}]
         /\ \A q \in Pairs \ {p} : pc'[q] = pc[q]
         /\ Has(p)' /\ Fits(pc[p], p)'
         /\ Has(p) => pc'[p].mic = pc[p].mic
         /\ ~Has(p) => pc'[p].mic = (p[1] \in voice)
         /\ job' \in [Pairs \X Workers -> Awaited \cup {None}]
         /\ \A x \in Pairs \X Workers : x # <<p, w>> => job'[x] = job[x]
         /\ job'[<<p, w>>] # None => job'[<<p, w>>].gen <= gens[p[2]]
<1> DEFINE fresh == NewPeer(p[1], gens[p[1]] + 1)
<1>1. PICK s : s = NextOf(p, w)
  OBVIOUS
<1>2. s \in Signals /\ s.gen <= gens[p[2]] /\ p[1] \in Users /\ p[2] \in Users
  BY <1>1, ReadyIs, PairIs DEF Begin, SignalsOf
<1>3. gens[p[1]] \in Nat /\ gens[p[2]] \in Nat /\ gens[p[1]] + 1 \in Nat
  BY <1>2 DEF Types
<1>4. PICK r : r = IF Has(p) THEN pc[p] ELSE fresh
  OBVIOUS
<1>5. /\ pc' = [pc EXCEPT ![p] = Begun(p, r, s)]
      /\ job' = [job EXCEPT ![<<p, w>>] = Awaits(p, r, s)]
      /\ gens' = IF Has(p) THEN gens ELSE [gens EXCEPT ![p[1]] = @ + 1]
  BY <1>1, <1>4 DEF Begin
<1>6. Grow
  BY <1>2, <1>5, NextGen
<1>7. r \in Peers /\ Fits(r, p)' /\ (Has(p) => r.mic = pc[p].mic)
      /\ (~Has(p) => r.mic = (p[1] \in voice))
  <2>1. CASE Has(p)
    <3>1. Fits(r, p) /\ r \in Peers /\ r = pc[p]
      BY <1>4, <2>1, HasIs
    <3> QED BY <1>6, <2>1, <3>1, FitsStill
  <2>2. CASE ~Has(p)
    <3>1. fresh \in Peers /\ fresh.born = gens[p[1]] + 1 /\ fresh.gen = gens[p[1]] + 1
          /\ fresh.remote = 0 /\ fresh.mic = (p[1] \in voice)
      BY <1>3, NewPeerIs
    <3>2. gens'[p[1]] = gens[p[1]] + 1 /\ gens'[p[2]] \in Nat
      BY <1>2, <1>3, <1>5, <1>6, <2>2 DEF Types, Grow
    <3>3. r = fresh
      BY <1>4, <2>2
    <3> HIDE DEF fresh
    <3> QED BY <1>3, <2>2, <3>1, <3>2, <3>3 DEF Fits
  <2> QED BY <2>1, <2>2
<1>8. PICK b : b = Begun(p, r, s)
  OBVIOUS
<1>9. PICK a : a = Awaits(p, r, s)
  OBVIOUS
<1>10. /\ b \in Peers /\ b.mic = r.mic /\ b.born = r.born /\ b.gen = r.gen /\ b.remote = r.remote
       /\ a \in Awaited \cup {None} /\ (a # None => a.gen = s.gen)
  BY <1>2, <1>7, <1>8, <1>9, BegunIs
<1>11. /\ pc' \in [Pairs -> Peers \cup {None}] /\ pc'[p] = b
       /\ \A q \in Pairs \ {p} : pc'[q] = pc[q]
  BY <1>5, <1>8, <1>10 DEF Types
<1>12. /\ job' \in [Pairs \X Workers -> Awaited \cup {None}] /\ job'[<<p, w>>] = a
       /\ \A x \in Pairs \X Workers : x # <<p, w>> => job'[x] = job[x]
  BY <1>5, <1>9, <1>10 DEF Types
<1>13. Has(p)' /\ Fits(pc[p], p)'
  BY <1>7, <1>10, <1>11, NoneAssumption DEF Fits, Has
<1> QED BY <1>2, <1>6, <1>7, <1>10, <1>11, <1>12, <1>13

----------------------------------------------------------------------------
(* Types, mail and numbers are kept. *)

Kept == Types' /\ MailInv' /\ NumbersInv'

JobsFit ==
  /\ job \in [Pairs \X Workers -> Awaited \cup {None}]
  /\ \A p \in Pairs, w \in Workers : job[<<p, w>>] # None => job[<<p, w>>].gen <= gens[p[2]]

LEMMA JobsKept ==
  ASSUME Types, NumbersInv, Grow, NEW p \in Pairs, NEW w \in Workers,
         \/ job' = job \/ job' = [job EXCEPT ![<<p, w>>] = None]
         \/ job[<<p, w>>] # None /\ job' = [job EXCEPT ![<<p, w>>].at = "reply"]
  PROVE  JobsFit'
<1>1. ASSUME NEW q \in Pairs, NEW v \in Workers, job[<<q, v>>] # None
      PROVE  job[<<q, v>>] \in Awaited /\ job[<<q, v>>].gen <= gens'[q[2]]
  <2>1. job[<<q, v>>] \in Awaited /\ job[<<q, v>>].gen <= gens[q[2]] /\ q[2] \in Users
    BY <1>1, PairIs DEF Types, NumbersInv
  <2> QED BY <2>1 DEF Types, Grow, Awaited
<1>2. PICK x : x = <<p, w>> /\ x \in Pairs \X Workers
  OBVIOUS
<1>3. CASE job' = job
  BY <1>1, <1>3 DEF JobsFit, Types
<1>4. ASSUME NEW a \in Awaited \cup {None}, job' = [job EXCEPT ![x] = a],
             a # None => a.gen <= gens'[p[2]]
      PROVE  JobsFit'
  <2>1. /\ job' \in [Pairs \X Workers -> Awaited \cup {None}] /\ job'[x] = a
        /\ \A y \in Pairs \X Workers : y # x => job'[y] = job[y]
    BY <1>2, <1>4 DEF Types
  <2>2. ASSUME NEW q \in Pairs, NEW v \in Workers, job'[<<q, v>>] # None
        PROVE  job'[<<q, v>>].gen <= gens'[q[2]]
    <3>1. CASE <<q, v>> = x
      <4>1. q = p
        BY <1>2, <3>1
      <4> QED BY <1>4, <2>1, <2>2, <3>1, <4>1
    <3>2. CASE <<q, v>> # x
      <4>1. job'[<<q, v>>] = job[<<q, v>>]
        BY <2>1, <3>2
      <4> QED BY <1>1, <2>2, <4>1
    <3> QED BY <3>1, <3>2
  <2> QED BY <2>1, <2>2 DEF JobsFit
<1>5. CASE job[<<p, w>>] # None /\ job' = [job EXCEPT ![<<p, w>>].at = "reply"]
  <2>1. job[x] \in Awaited /\ job[x].gen <= gens'[p[2]]
    BY <1>1, <1>2, <1>5
  <2>2. PICK a : a = [job[x] EXCEPT !.at = "reply"]
    OBVIOUS
  <2>3. a \in Awaited /\ a.gen = job[x].gen
    BY <2>1, <2>2 DEF Awaited
  <2>4. job' = [job EXCEPT ![x] = a]
    BY <1>2, <1>5, <2>2
  <2> QED BY <1>4, <2>1, <2>3, <2>4
<1>6. CASE job' = [job EXCEPT ![<<p, w>>] = None]
  BY <1>2, <1>4, <1>6
<1> QED BY <1>3, <1>5, <1>6

LEMMA JobsStay ==
  ASSUME Types, NumbersInv, Grow, job' = job
  PROVE  JobsFit'
<1>1. ASSUME NEW q \in Pairs, NEW v \in Workers, job[<<q, v>>] # None
      PROVE  job[<<q, v>>].gen <= gens'[q[2]]
  <2>1. job[<<q, v>>] \in Awaited /\ job[<<q, v>>].gen <= gens[q[2]] /\ q[2] \in Users
    BY <1>1, PairIs DEF Types, NumbersInv
  <2> QED BY <2>1 DEF Types, Grow, Awaited
<1> QED BY <1>1 DEF JobsFit, Types

LEMMA MailStays ==
  ASSUME Types, MailInv, Grow
  PROVE  /\ \A u \in Users : /\ up[u] \in Seq(RequestsOf(u)') /\ down[u] \in Seq(NoticesOf(u)')
                             /\ early[u] \in Seq(MailsOf(u)') /\ replay[u] \in Seq(MailsOf(u)')
         /\ \A p \in Pairs : chain[p] \in Seq(SignalsOf(p[2])')
<1>1. ASSUME NEW u \in Users
      PROVE  /\ up[u] \in Seq(RequestsOf(u)') /\ down[u] \in Seq(NoticesOf(u)')
             /\ early[u] \in Seq(MailsOf(u)') /\ replay[u] \in Seq(MailsOf(u)')
  BY <1>1, MailGrows, SeqMonotonic DEF MailInv
<1>2. ASSUME NEW p \in Pairs PROVE chain[p] \in Seq(SignalsOf(p[2])')
  BY <1>2, PairIs, MailGrows, SeqMonotonic DEF MailInv
<1> QED BY <1>1, <1>2

\* What is left of a queue is made of what was in it.
LEMMA RestOf ==
  ASSUME NEW S, NEW s \in Seq(S), s # <<>>
  PROVE  Head(s) \in S /\ Tail(s) \in Seq(S)
BY HeadTailProperties

LEMMA TypesOfSets ==
  /\ \A u \in Users : /\ RequestsOf(u) \subseteq Requests /\ NoticesOf(u) \subseteq Notices
                      /\ MailsOf(u) \subseteq Mails /\ SignalsOf(u) \subseteq Signals
                      /\ RequestsOf(u)' \subseteq Requests /\ NoticesOf(u)' \subseteq Notices
                      /\ MailsOf(u)' \subseteq Mails /\ SignalsOf(u)' \subseteq Signals
BY DEF RequestsOf, NoticesOf, MailsOf, SignalsOf

\* A message of the server reaches some of the sockets.
LEMMA DownGrows ==
  ASSUME Types, MailInv, gens' = gens, NEW m \in Notices,
         m.t = "signal" => \A u \in Users : (down'[u] # down[u] => m \in NoticesOf(u)),
         down' \in [Users -> Seq(Notices)],
         \A u \in Users : down'[u] = down[u] \/ down'[u] = Append(down[u], m)
  PROVE  \A u \in Users : down'[u] \in Seq(NoticesOf(u)')
<1>1. SUFFICES ASSUME NEW u \in Users PROVE down'[u] \in Seq(NoticesOf(u)')
  OBVIOUS
<1>2. down[u] \in Seq(NoticesOf(u)')
  BY SameGrow, MailStays
<1>3. NoticesOf(u)' = NoticesOf(u)
  BY DEF NoticesOf, SignalsOf
<1>4. CASE down'[u] # down[u]
  <2>1. m \in NoticesOf(u)
    BY <1>4 DEF NoticesOf
  <2>2. PICK S : S = NoticesOf(u)
    OBVIOUS
  <2>3. down[u] \in Seq(S) /\ m \in S
    BY <1>2, <1>3, <2>1, <2>2
  <2>4. Append(down[u], m) \in Seq(S)
    BY <2>3, Appends
  <2>5. down'[u] = Append(down[u], m)
    BY <1>4
  <2> QED BY <1>3, <2>2, <2>4, <2>5
<1> QED BY <1>2, <1>4

LEMMA ServeKeeps ==
  ASSUME Types, MailInv, NumbersInv, NEW u \in Users, Serve(u)
  PROVE  Kept
<1>1. PICK m : m = Head(up[u])
  OBVIOUS
<1>2. /\ up[u] # <<>> /\ up' = [up EXCEPT ![u] = Tail(@)] /\ gens' = gens
      /\ UNCHANGED <<stage, st, asks, shown, known, voice, pc, early, chain, replay, job, stray>>
  BY DEF Serve, clientVars, rest
<1>3. m \in RequestsOf(u) /\ Tail(up[u]) \in Seq(RequestsOf(u))
  BY <1>1, <1>2, RestOf DEF MailInv
<1>4. m \in Requests /\ Tail(up[u]) \in Seq(Requests)
  BY <1>3, TypesOfSets, SeqMonotonic
<1>5. /\ up' \in [Users -> Seq(Requests)] /\ up'[u] = Tail(up[u])
      /\ \A v \in Users : v # u => up'[v] = up[v]
  BY <1>2, <1>4 DEF Types
<1>6. /\ members' \in SUBSET Users /\ down' \in [Users -> Seq(Notices)]
      /\ \A v \in Users : down'[v] \in Seq(NoticesOf(v)')
  <2>1. CASE m.t = "join"
    <3>1. members' \in SUBSET Users
      BY <1>1, <2>1 DEF Serve, Types
    <3>2. State(members') \in Notices /\ Joined(u) \in Notices
          /\ State(members').t = "state" /\ Joined(u).t = "joined"
      BY <3>1, NoticeIs
    <3>3. PICK T, x, y : T = Told(Users, x) /\ x = Joined(u) /\ y = State(members')
      OBVIOUS
    <3>4. \A v \in Users : T[v] = down[v] \/ T[v] = Append(down[v], x)
      BY <3>2, <3>3, ToldSome
    <3>5. down' = [v \in Users |-> IF v = u THEN Append(down[u], y) ELSE T[v]]
      BY <1>1, <2>1, <3>3 DEF Serve
    <3>6. y \in NoticesOf(u) /\ \A v \in Users : x \in NoticesOf(v)
      BY <3>2, <3>3 DEF NoticesOf
    <3>7. ASSUME NEW v \in Users PROVE down'[v] \in Seq(NoticesOf(v)')
      <4>1. PICK S : S = NoticesOf(v) /\ S = NoticesOf(v)'
        BY <1>2 DEF NoticesOf, SignalsOf
      <4>2. down[v] \in Seq(S) /\ x \in S /\ (v = u => y \in S)
        BY <3>6, <4>1 DEF MailInv
      <4>3. Append(down[v], x) \in Seq(S) /\ (v = u => Append(down[v], y) \in Seq(S))
        BY <4>2, Appends
      <4>4. \/ v = u /\ down'[v] = Append(down[v], y)
            \/ down'[v] = down[v] \/ down'[v] = Append(down[v], x)
        BY <3>4, <3>5
      <4> QED BY <4>1, <4>2, <4>3, <4>4
    <3>8. \A v \in Users : down'[v] \in Seq(Notices)
      BY <3>7, TypesOfSets, SeqMonotonic
    <3>9. down' \in [Users -> Seq(Notices)]
      <4>1. down' = [v \in Users |-> down'[v]]
        BY <3>5
      <4> QED BY <3>8, <4>1
    <3> QED BY <3>1, <3>7, <3>9
  <2>2. CASE m.t = "leave"
    <3>1. members' \in SUBSET Users
      BY <1>1, <2>2 DEF Serve, Types
    <3>2. Left(u) \in Notices /\ Left(u).t = "left"
      BY NoticeIs
    <3>3. PICK T, x : T = Told(Users, x) /\ x = Left(u)
      OBVIOUS
    <3>4. T \in [Users -> Seq(Notices)] /\ \A v \in Users : T[v] = down[v] \/ T[v] = Append(down[v], x)
      BY <3>2, <3>3, ToldSome
    <3>5. down' = T \/ down' = down
      BY <1>1, <2>2, <3>3 DEF Serve
    <3>6. down' \in [Users -> Seq(Notices)]
          /\ \A v \in Users : down'[v] = down[v] \/ down'[v] = Append(down[v], x)
      BY <3>4, <3>5 DEF Types
    <3> QED BY <1>2, <3>1, <3>2, <3>3, <3>6, DownGrows
  <2>3. CASE m.t = "signal"
    <3>1. members' = members
      BY <1>1, <2>3 DEF Serve
    <3>2. m.peer \in Users /\ m.peer # u /\ m.s \in SignalsOf(u) /\ m.s \in Signals
      BY <1>3, <1>4, <2>3, RequestIs DEF RequestsOf
    <3>3. PICK x : x = Signal(u, m.s)
      OBVIOUS
    <3>4. x \in Notices /\ x.t = "signal" /\ x.peer = u /\ x.s = m.s
      BY <3>2, <3>3, NoticeIs
    <3>5. down' = down \/ down' = Told({m.peer}, x)
      BY <1>1, <2>3, <3>3 DEF Serve
    <3>6. down' \in [Users -> Seq(Notices)]
          /\ \A v \in Users : down'[v] = down[v] \/ (v = m.peer /\ down'[v] = Append(down[v], x))
      <4>1. PICK T : T = Told({m.peer}, x)
        OBVIOUS
      <4>2. /\ T \in [Users -> Seq(Notices)]
            /\ \A v \in Users : T[v] = down[v] \/ (v = m.peer /\ T[v] = Append(down[v], x))
        <5>1. PICK W : W = {m.peer}
          OBVIOUS
        <5>2. /\ T \in [Users -> Seq(Notices)]
              /\ \A v \in Users : T[v] = down[v] \/ (v \in W /\ T[v] = Append(down[v], x))
          BY <3>4, <4>1, <5>1, ToldSome
        <5> QED BY <5>1, <5>2
      <4> QED BY <3>5, <4>1, <4>2 DEF Types
    <3>7. \A v \in Users : down'[v] # down[v] => x \in NoticesOf(v)
      BY <3>2, <3>4, <3>6 DEF NoticesOf
    <3> QED BY <1>2, <3>1, <3>4, <3>6, <3>7, DownGrows DEF Types
  <2> QED BY <1>1, <2>1, <2>2, <2>3 DEF Serve
<1>7. Grow
  BY <1>2, SameGrow
<1>8. Retuned /\ JobsFit'
  BY <1>2, <1>7, AllStay, JobsStay
<1>9. MailInv'
  <2>1. \A v \in Users : up'[v] \in Seq(RequestsOf(v)')
    <3>1. RequestsOf(u)' = RequestsOf(u)
      BY <1>2 DEF RequestsOf, SignalsOf
    <3> QED BY <1>3, <1>5, <1>7, <3>1, MailStays
  <2> QED BY <1>2, <1>6, <1>7, <2>1, MailStays DEF MailInv
<1>10. Types'
  BY <1>2, <1>5, <1>6 DEF Types
<1>11. NumbersInv'
  BY <1>8 DEF NumbersInv, Retuned, JobsFit
<1> QED BY <1>9, <1>10, <1>11 DEF Kept

LEMMA WireKeeps ==
  ASSUME Types, MailInv, NumbersInv, NEW u \in Users,
         Unheard(u) \/ Drop(u) \/ Evict(u) \/ Attach(u) \/ Welcome(u)
  PROVE  Kept
<1>1. /\ UNCHANGED <<st, asks, shown, known, voice, pc, early, chain, replay, job, gens, stray>>
      /\ members' \in {members, members \ {u}}
      /\ stage' \in [Users -> Stages]
  BY DEF Unheard, Drop, Evict, Attach, Welcome, clientVars, rest, Types, Stages
<1>2. Grow /\ Retuned /\ JobsFit'
  BY <1>1, SameGrow, AllStay, JobsStay
<1>3. \A v \in Users : /\ RequestsOf(v)' = RequestsOf(v) /\ NoticesOf(v)' = NoticesOf(v)
                       /\ up[v] \in Seq(RequestsOf(v)) /\ down[v] \in Seq(NoticesOf(v))
  BY <1>1 DEF MailInv, RequestsOf, NoticesOf, SignalsOf
<1>4. up' \in [Users -> Seq(Requests)] /\ \A v \in Users : up'[v] \in Seq(RequestsOf(v)')
  <2>1. CASE up' = up
    BY <1>3, <2>1 DEF Types
  <2>2. ASSUME NEW x, x \in Seq(RequestsOf(u)), up' = [up EXCEPT ![u] = x]
        PROVE  up' \in [Users -> Seq(Requests)] /\ \A v \in Users : up'[v] \in Seq(RequestsOf(v)')
    <3>1. x \in Seq(Requests)
      BY <2>2, TypesOfSets, SeqMonotonic
    <3> QED BY <1>3, <2>2, <3>1 DEF Types
  <2>3. CASE Unheard(u)
    <3>1. Tail(up[u]) \in Seq(RequestsOf(u))
      BY <1>3, <2>3, RestOf DEF Unheard
    <3> QED BY <2>2, <2>3, <3>1 DEF Unheard
  <2>4. CASE Drop(u)
    <3>1. <<>> \in Seq(RequestsOf(u))
      BY EmptySeq
    <3> QED BY <2>2, <2>4, <3>1 DEF Drop
  <2> QED BY <2>1, <2>3, <2>4 DEF Evict, Attach, Welcome
<1>5. down' \in [Users -> Seq(Notices)] /\ \A v \in Users : down'[v] \in Seq(NoticesOf(v)')
  <2>1. CASE down' = down
    BY <1>3, <2>1 DEF Types
  <2>2. CASE Drop(u)
    <3>1. <<>> \in Seq(NoticesOf(u)) /\ <<>> \in Seq(Notices)
      BY EmptySeq
    <3> QED BY <1>3, <2>2, <3>1 DEF Drop, Types
  <2>3. CASE Evict(u)
    <3>1. PICK T, x : T = Told(Users, x) /\ x = Left(u)
      OBVIOUS
    <3>2. x \in Notices /\ x.t = "left"
      BY <3>1, NoticeIs
    <3>3. T \in [Users -> Seq(Notices)] /\ \A v \in Users : T[v] = down[v] \/ T[v] = Append(down[v], x)
      BY <3>1, <3>2, ToldSome
    <3>4. down' = T
      BY <2>3, <3>1 DEF Evict
    <3> QED BY <1>1, <3>2, <3>3, <3>4, DownGrows
  <2>4. CASE Welcome(u)
    <3>1. PICK x : x = State(members)
      OBVIOUS
    <3>2. x \in Notices /\ x.t = "state"
      BY <3>1, NoticeIs DEF Types
    <3>3. down' = [down EXCEPT ![u] = Append(down[u], x)]
      BY <2>4, <3>1 DEF Welcome
    <3>4. down[u] \in Seq(Notices) /\ Append(down[u], x) \in Seq(Notices)
      BY <3>2, Appends DEF Types
    <3>5. down' \in [Users -> Seq(Notices)]
          /\ \A v \in Users : down'[v] = down[v] \/ down'[v] = Append(down[v], x)
      BY <3>3, <3>4 DEF Types
    <3> QED BY <1>1, <3>2, <3>5, DownGrows
  <2> QED BY <2>1, <2>2, <2>3, <2>4 DEF Unheard, Attach
<1>6. Types'
  BY <1>1, <1>4, <1>5 DEF Types
<1>7. MailInv'
  BY <1>1, <1>2, <1>4, <1>5, MailStays DEF MailInv
<1>8. NumbersInv'
  BY <1>2 DEF NumbersInv, Retuned, JobsFit
<1> QED BY <1>6, <1>7, <1>8 DEF Kept

LEMMA FollowersFit ==
  ASSUME Types, NumbersInv, Grow, NEW u, NEW M, Follows(u, M)
  PROVE  \A p \in Pairs : Has(p)' => Fits(pc[p], p)'
<1>1. SUFFICES ASSUME NEW p \in Pairs, Has(p)' PROVE Fits(pc[p], p)'
  OBVIOUS
<1>2. CASE pc'[p] = pc[p]
  <2>1. PICK r : r = pc[p] /\ Fits(r, p)
    BY <1>1, <1>2 DEF NumbersInv, Has
  <2>2. Fits(r, p)'
    BY <2>1, FitsStill
  <2> QED BY <1>2, <2>1, <2>2
<1> QED BY <1>1, <1>2 DEF Follows, Has

LEMMA ClosedFit ==
  ASSUME Types, NumbersInv, gens' = gens, NEW u, pc' = ClosedAll(u)
  PROVE  /\ pc' \in [Pairs -> Peers \cup {None}]
         /\ \A p \in Pairs : Has(p)' => p[1] # u /\ pc'[p] = pc[p] /\ Has(p) /\ Fits(pc[p], p)'
<1>1. ASSUME NEW p \in Pairs, Has(p)' PROVE p[1] # u /\ pc'[p] = pc[p] /\ Has(p)
  BY <1>1, ClosedAllIs DEF Has
<1>2. ASSUME NEW p \in Pairs, Has(p)' PROVE Fits(pc[p], p)'
  BY <1>1, <1>2 DEF NumbersInv, Fits
<1> QED BY <1>1, <1>2, ClosedAllIs

LEMMA EnterKeeps ==
  ASSUME Types, MailInv, NumbersInv, NEW u \in Users,
         Reopen(u) \/ PressJoin(u) \/ NoMicrophone(u) \/ Enter(u) \/ Render(u) \/ Leave(u) \/ ShareScreen(u)
  PROVE  Kept
<1>1. UNCHANGED <<members, down, known, chain, job>>
  BY DEF Reopen, PressJoin, NoMicrophone, Enter, Render, Leave, ShareScreen, wireVars
<1>2. Grow /\ pc' \in [Pairs -> Peers \cup {None}] /\ \A p \in Pairs : Has(p)' => Fits(pc[p], p)'
  <2>1. CASE Render(u)
    <3>1. /\ pc' = Compared(u, known[u])
          /\ gens' = [gens EXCEPT ![u] = IF \E p \in Pairs : pc'[p] # None /\ pc[p] = None THEN @ + 1 ELSE @]
      BY <2>1 DEF Render
    <3>2. Grow /\ pc' \in [Pairs -> Peers \cup {None}] /\ Follows(u, known[u])
      BY <3>1, ComparedFollows
    <3> QED BY <3>2, FollowersFit
  <2>2. CASE ShareScreen(u)
    <3>1. Retuned
      BY <2>2, ScreenTunes
    <3> QED BY <3>1 DEF Retuned
  <2>3. CASE gens' = gens /\ pc' = ClosedAll(u)
    BY <2>3, SameGrow, ClosedFit
  <2>4. CASE gens' = gens /\ pc' = pc
    <3>1. Retuned
      BY <2>4, SameGrow, AllStay
    <3> QED BY <3>1 DEF Retuned
  <2> QED BY <2>1, <2>2, <2>3, <2>4 DEF Reopen, PressJoin, NoMicrophone, Enter, Leave, rest
<1>3. /\ shown' \in SUBSET Users /\ voice' \in SUBSET Users /\ stray' \in SUBSET Users
      /\ stage' \in [Users -> Stages] /\ st' \in [Users -> {"idle", "connecting", "in"}]
  BY DEF Types, Stages, Reopen, PressJoin, NoMicrophone, Enter, Render, Leave, ShareScreen, wireVars, rest
<1>4. asks' \in [Users -> Nat]
  <2>1. PICK n : n = asks[u] + 1
    OBVIOUS
  <2>2. PICK k : k = asks[u] - 1
    OBVIOUS
  <2>3. \/ asks' = asks \/ asks' = [asks EXCEPT ![u] = n]
        \/ asks[u] > 0 /\ asks' = [asks EXCEPT ![u] = k]
    BY <2>1, <2>2 DEF Reopen, PressJoin, NoMicrophone, Enter, Render, Leave, ShareScreen
  <2>4. asks[u] \in Nat /\ n \in Nat /\ (asks[u] > 0 => k \in Nat)
    BY <2>1, <2>2 DEF Types
  <2> QED BY <2>3, <2>4 DEF Types
<1>5. up' \in [Users -> Seq(Requests)] /\ \A v \in Users : up'[v] \in Seq(RequestsOf(v)')
  <2>1. Join \in RequestsOf(u)' /\ Leaving \in RequestsOf(u)'
    BY RequestIs DEF RequestsOf
  <2>2. /\ <<Join>> \in Seq(RequestsOf(u)') /\ <<Leaving>> \in Seq(RequestsOf(u)')
        /\ <<>> \in Seq(RequestsOf(u)')
    BY <2>1, TwoSignals, EmptySeq
  <2>3. CASE up' = up
    BY <1>2, <2>3, MailStays DEF Types
  <2>4. CASE up' = [up EXCEPT ![u] = <<Join>>]
    <3>1. <<Join>> \in Seq(Requests)
      BY <2>2, TypesOfSets, SeqMonotonic
    <3> QED BY <1>2, <2>2, <2>4, <3>1, MailStays DEF Types
  <2>5. ASSUME NEW ms \in Seq(RequestsOf(u)'), up' = Sent(u, ms)
        PROVE  up' \in [Users -> Seq(Requests)] /\ \A v \in Users : up'[v] \in Seq(RequestsOf(v)')
    BY <1>2, <2>5, SentMail
  <2>6. CASE Enter(u)
    BY <2>2, <2>5, <2>6 DEF Enter
  <2>7. CASE Leave(u)
    BY <2>2, <2>5, <2>7 DEF Leave
  <2> QED BY <2>3, <2>4, <2>6, <2>7 DEF Reopen, PressJoin, NoMicrophone, Render, ShareScreen, wireVars
<1>6. /\ early' \in [Users -> Seq(Mails)] /\ replay' \in [Users -> Seq(Mails)]
      /\ \A v \in Users : early'[v] \in Seq(MailsOf(v)') /\ replay'[v] \in Seq(MailsOf(v)')
  <2>1. \A v \in Users : early[v] \in Seq(MailsOf(v)') /\ replay[v] \in Seq(MailsOf(v)')
    BY <1>2, MailStays
  <2>2. /\ <<>> \in Seq(MailsOf(u)') /\ <<>> \in Seq(Mails)
        /\ replay[u] \o early[u] \in Seq(MailsOf(u)') /\ replay[u] \o early[u] \in Seq(Mails)
    BY <2>1, EmptySeq, ConcatProperties DEF Types
  <2>3. \/ early' = early \/ early' = [early EXCEPT ![u] = <<>>]
    BY DEF Reopen, PressJoin, NoMicrophone, Enter, Render, Leave, ShareScreen
  <2>4. \/ replay' = replay \/ replay' = [replay EXCEPT ![u] = replay[u] \o early[u]]
    BY DEF Reopen, PressJoin, NoMicrophone, Enter, Render, Leave, ShareScreen
  <2>5. early' \in [Users -> Seq(Mails)] /\ \A v \in Users : early'[v] \in Seq(MailsOf(v)')
    BY <2>1, <2>2, <2>3 DEF Types
  <2>6. replay' \in [Users -> Seq(Mails)] /\ \A v \in Users : replay'[v] \in Seq(MailsOf(v)')
    BY <2>1, <2>2, <2>4 DEF Types
  <2> QED BY <2>5, <2>6
<1>7. JobsFit'
  BY <1>1, <1>2, JobsStay
<1>8. Types'
  BY <1>1, <1>2, <1>3, <1>4, <1>5, <1>6 DEF Types, Grow
<1>9. MailInv'
  BY <1>1, <1>2, <1>5, <1>6, MailStays DEF MailInv
<1>10. NumbersInv'
  BY <1>2, <1>7 DEF NumbersInv, JobsFit
<1> QED BY <1>8, <1>9, <1>10 DEF Kept

\* What Deliver does with the message at the head.
LEMMA DeliverIs ==
  ASSUME Types, MailInv, NumbersInv, NEW u \in Users, Deliver(u), NEW m, m = Head(down[u])
  PROVE  /\ down[u] # <<>> /\ m \in NoticesOf(u) /\ m \in Notices /\ Settled(u)
         /\ down' \in [Users -> Seq(Notices)] /\ down'[u] = Tail(down[u])
         /\ down'[u] \in Seq(NoticesOf(u)) /\ \A v \in Users \ {u} : down'[v] = down[v]
         /\ UNCHANGED <<members, stage, up, st, asks, shown, voice, replay, job>>
         /\ Grow /\ pc' \in [Pairs -> Peers \cup {None}] /\ known' \in [Users -> SUBSET Users]
         /\ \A v \in Users \ {u} : known'[v] = known[v]
         /\ m.t # "signal" =>
              /\ UNCHANGED <<early, chain>> /\ stray' = stray \ (shown \cap {u})
              /\ \A v \in Users : v \in known'[u] <=> IF About(m, v) THEN Says(m, v) ELSE v \in known[u]
              /\ IF u \in shown THEN Follows(u, known'[u]) ELSE pc' = pc
         /\ m.t = "signal" =>
              /\ UNCHANGED <<known, pc, gens, stray>>
              /\ IF st[u] = "in"
                 THEN chain' = [chain EXCEPT ![<<u, m.peer>>] = Append(@, m.s)] /\ early' = early
                 ELSE /\ early' = [early EXCEPT ![u] = Append(@, [peer |-> m.peer, s |-> m.s])]
                      /\ chain' = chain
<1>1. /\ down[u] # <<>> /\ Settled(u) /\ down' = [down EXCEPT ![u] = Tail(@)]
      /\ UNCHANGED <<members, stage, up, st, asks, shown, voice, replay, job>>
  BY DEF Deliver
<1>2. m \in NoticesOf(u) /\ Tail(down[u]) \in Seq(NoticesOf(u))
  BY <1>1, RestOf DEF MailInv
<1>3. m \in Notices /\ Tail(down[u]) \in Seq(Notices)
  BY <1>2, TypesOfSets, SeqMonotonic
<1>4. /\ down' \in [Users -> Seq(Notices)] /\ down'[u] = Tail(down[u])
      /\ \A v \in Users \ {u} : down'[v] = down[v]
  BY <1>1, <1>3 DEF Types
<1>5. CASE m.t = "signal"
  <2>1. /\ UNCHANGED <<known, pc, gens, stray>>
        /\ IF st[u] = "in"
           THEN chain' = [chain EXCEPT ![<<u, m.peer>>] = Append(@, m.s)] /\ early' = early
           ELSE /\ early' = [early EXCEPT ![u] = Append(@, [peer |-> m.peer, s |-> m.s])]
                /\ chain' = chain
    BY <1>5 DEF Deliver
  <2> QED BY <1>1, <1>2, <1>3, <1>4, <1>5, <2>1, SameGrow DEF Types
<1>6. CASE m.t # "signal"
  <2>1. PICK M : /\ Learn(u, M) /\ UNCHANGED <<early, chain>>
                 /\ \/ m.t = "state" /\ M = m.members
                    \/ m.t = "joined" /\ M = known[u] \cup {m.u}
                    \/ m.t = "left" /\ M = known[u] \ {m.u}
    BY <1>6 DEF Deliver
  <2>2. M \in SUBSET Users
    <3>1. known[u] \in SUBSET Users /\ (m.t = "state" => m.members \in SUBSET Users)
          /\ (m.t \in {"joined", "left"} => m.u \in Users)
      BY <1>3, NoticeIs DEF Types
    <3>2. CASE m.t = "state" /\ M = m.members
      BY <3>1, <3>2
    <3>3. CASE m.t = "joined" /\ M = known[u] \cup {m.u}
      BY <3>1, <3>3
    <3>4. CASE m.t = "left" /\ M = known[u] \ {m.u}
      BY <3>1, <3>4
    <3> QED BY <2>1, <3>2, <3>3, <3>4
  <2>3. /\ Grow /\ pc' \in [Pairs -> Peers \cup {None}]
        /\ known' \in [Users -> SUBSET Users] /\ known'[u] = M
        /\ \A v \in Users \ {u} : known'[v] = known[v]
        /\ stray' = stray \ (shown \cap {u})
        /\ IF u \in shown THEN Follows(u, M) ELSE pc' = pc
    BY <2>1, <2>2, LearnIs
  <2>4. \A v \in Users : v \in M <=> IF About(m, v) THEN Says(m, v) ELSE v \in known[u]
    BY <2>1 DEF About, Says
  <2> QED BY <1>1, <1>2, <1>3, <1>4, <1>6, <2>1, <2>3, <2>4
<1> QED BY <1>5, <1>6

LEMMA DeliverKeeps ==
  ASSUME Types, MailInv, NumbersInv, NEW u \in Users, Deliver(u)
  PROVE  Kept
<1>1. PICK m : m = Head(down[u])
  OBVIOUS
<1>2. /\ m \in NoticesOf(u) /\ m \in Notices
      /\ down' \in [Users -> Seq(Notices)] /\ down'[u] \in Seq(NoticesOf(u))
      /\ \A v \in Users \ {u} : down'[v] = down[v]
      /\ UNCHANGED <<members, stage, up, st, asks, shown, voice, replay, job>>
      /\ Grow /\ pc' \in [Pairs -> Peers \cup {None}] /\ known' \in [Users -> SUBSET Users]
  BY <1>1, DeliverIs
<1>3. \A v \in Users : down'[v] \in Seq(NoticesOf(v)')
  <2>1. down'[u] \in Seq(NoticesOf(u)')
    BY <1>2, MailGrows, SeqMonotonic
  <2> QED BY <1>2, <2>1, MailStays
<1>4. JobsFit'
  BY <1>2, JobsStay
<1>5. CASE m.t # "signal"
  <2>1. /\ UNCHANGED <<early, chain>> /\ stray' = stray \ (shown \cap {u})
        /\ IF u \in shown THEN Follows(u, known'[u]) ELSE pc' = pc
    BY <1>1, <1>5, DeliverIs
  <2>2. Types'
    BY <1>2, <2>1 DEF Types, Grow
  <2>3. MailInv'
    BY <1>2, <1>3, <2>1, MailStays DEF MailInv
  <2>4. \A p \in Pairs : Has(p)' => Fits(pc[p], p)'
    <3>1. CASE u \in shown
      BY <1>2, <2>1, <3>1, FollowersFit
    <3>2. CASE u \notin shown
      <4>1. Retuned
        BY <1>2, <2>1, <3>2, AllStay
      <4> QED BY <4>1 DEF Retuned
    <3> QED BY <3>1, <3>2
  <2> QED BY <1>4, <2>2, <2>3, <2>4 DEF Kept, NumbersInv, JobsFit
<1>6. CASE m.t = "signal"
  <2>1. /\ UNCHANGED <<known, pc, gens, stray>>
        /\ IF st[u] = "in"
           THEN chain' = [chain EXCEPT ![<<u, m.peer>>] = Append(@, m.s)] /\ early' = early
           ELSE /\ early' = [early EXCEPT ![u] = Append(@, [peer |-> m.peer, s |-> m.s])]
                /\ chain' = chain
    BY <1>1, <1>6, DeliverIs
  <2>2. /\ m.peer \in Users /\ m.peer # u /\ m.s \in SignalsOf(m.peer) /\ m.s \in Signals
        /\ <<u, m.peer>> \in Pairs
    BY <1>2, <1>6, NoticeIs, PairIs DEF NoticesOf
  <2>3. /\ early' \in [Users -> Seq(Mails)]
        /\ \A v \in Users : early'[v] \in Seq(MailsOf(v)')
    <3>1. PICK x : x = [peer |-> m.peer, s |-> m.s]
      OBVIOUS
    <3>2. x \in MailsOf(u)
      BY <2>2, <3>1 DEF MailsOf, Mails
    <3>3. x \in MailsOf(u)'
      BY <1>2, <3>2, MailGrows
    <3>4. PICK e : e = Append(early[u], x)
      OBVIOUS
    <3>5. e \in Seq(MailsOf(u)')
      <4>1. early[u] \in Seq(MailsOf(u)')
        BY <1>2, MailStays
      <4> QED BY <3>3, <3>4, <4>1, Appends
    <3>6. e \in Seq(Mails)
      BY <3>5, TypesOfSets, SeqMonotonic
    <3>7. early' = early \/ early' = [early EXCEPT ![u] = e]
      BY <2>1, <3>1, <3>4
    <3> QED BY <1>2, <3>5, <3>6, <3>7, MailStays DEF Types
  <2>4. /\ chain' \in [Pairs -> Seq(Signals)]
        /\ \A p \in Pairs : chain'[p] \in Seq(SignalsOf(p[2])')
    <3>1. PICK p \in Pairs : p = <<u, m.peer>> /\ p[2] = m.peer
      BY <2>2
    <3>2. PICK c : c = Append(chain[p], m.s)
      OBVIOUS
    <3>3. m.s \in SignalsOf(m.peer)'
      BY <1>2, <2>2, MailGrows
    <3>4. c \in Seq(SignalsOf(p[2])')
      <4>1. chain[p] \in Seq(SignalsOf(p[2])')
        BY <1>2, MailStays
      <4> QED BY <3>1, <3>2, <3>3, <4>1, Appends
    <3>5. c \in Seq(Signals)
      BY <2>2, <3>1, <3>4, TypesOfSets, SeqMonotonic
    <3>6. chain' = chain \/ chain' = [chain EXCEPT ![p] = c]
      BY <2>1, <3>1, <3>2
    <3> QED BY <1>2, <3>4, <3>5, <3>6, MailStays DEF Types
  <2>5. Retuned
    BY <1>2, <2>1, AllStay
  <2>6. Types'
    BY <1>2, <2>1, <2>3, <2>4 DEF Types
  <2>7. MailInv'
    BY <1>2, <1>3, <2>3, <2>4, MailStays DEF MailInv
  <2> QED BY <1>4, <2>5, <2>6, <2>7 DEF Kept, NumbersInv, JobsFit, Retuned
<1> QED BY <1>5, <1>6

LEMMA SignalKeeps ==
  ASSUME Types, MailInv, NumbersInv, NEW p \in Pairs, NEW w \in Workers, Begin(p, w)
  PROVE  Kept
<1>1. UNCHANGED <<members, stage, up, down, st, asks, shown, known, voice, early>>
      /\ stray' \in {stray, stray \cup {p[1]}} /\ p[1] \in Users /\ p[2] \in Users
  BY PairIs DEF Begin, wireVars
<1>2. /\ Grow /\ pc' \in [Pairs -> Peers \cup {None}]
      /\ \A q \in Pairs \ {p} : pc'[q] = pc[q]
      /\ Fits(pc[p], p)'
      /\ job' \in [Pairs \X Workers -> Awaited \cup {None}]
      /\ \A x \in Pairs \X Workers : x # <<p, w>> => job'[x] = job[x]
      /\ job'[<<p, w>>] # None => job'[<<p, w>>].gen <= gens[p[2]]
  BY BeginOpens
<1>3. /\ chain' \in [Pairs -> Seq(Signals)] /\ \A q \in Pairs : chain'[q] \in Seq(SignalsOf(q[2])')
  <2>1. CASE chain' = chain
    BY <1>2, <2>1, MailStays DEF Types
  <2>2. CASE w = "chain"
    <3>1. chain[p] # <<>> /\ chain' = [chain EXCEPT ![p] = Tail(@)]
      BY <2>2, ReadyIs DEF Begin
    <3>2. Tail(chain[p]) \in Seq(SignalsOf(p[2])')
      BY <1>2, <3>1, MailStays, RestOf
    <3>3. Tail(chain[p]) \in Seq(Signals)
      BY <3>1, RestOf DEF Types
    <3> QED BY <1>2, <3>1, <3>2, <3>3, MailStays DEF Types
  <2> QED BY <2>1, <2>2 DEF Begin
<1>4. /\ replay' \in [Users -> Seq(Mails)] /\ \A v \in Users : replay'[v] \in Seq(MailsOf(v)')
  <2>1. CASE w = "chain"
    <3>1. replay' = replay
      BY <2>1 DEF Begin
    <3> QED BY <1>2, <3>1, MailStays DEF Types
  <2>2. CASE w # "chain"
    <3>1. replay[p[1]] # <<>> /\ replay' = [replay EXCEPT ![p[1]] = Tail(@)]
      BY <2>2, ReadyIs DEF Begin, Workers
    <3>2. Tail(replay[p[1]]) \in Seq(MailsOf(p[1])')
      BY <1>1, <1>2, <3>1, MailStays, RestOf
    <3>3. Tail(replay[p[1]]) \in Seq(Mails)
      BY <1>1, <3>2, TypesOfSets, SeqMonotonic
    <3> QED BY <1>1, <1>2, <3>1, <3>2, <3>3, MailStays DEF Types
  <2> QED BY <2>1, <2>2
<1>5. Types'
  BY <1>1, <1>2, <1>3, <1>4 DEF Types, Grow
<1>6. MailInv'
  BY <1>1, <1>2, <1>3, <1>4, MailStays DEF MailInv
<1>7. \A q \in Pairs : Has(q)' => Fits(pc[q], q)'
  <2>1. SUFFICES ASSUME NEW q \in Pairs, Has(q)', q # p PROVE Fits(pc[q], q)'
    BY <1>2
  <2>2. PICK r : r = pc[q] /\ r = pc'[q] /\ Fits(r, q)
    BY <1>2, <2>1 DEF NumbersInv, Has
  <2>3. Fits(r, q)'
    BY <1>2, <2>2, FitsStill
  <2> QED BY <2>2, <2>3
<1>8. \A q \in Pairs, v \in Workers : job'[<<q, v>>] # None => job'[<<q, v>>].gen <= gens'[q[2]]
  <2>1. SUFFICES ASSUME NEW q \in Pairs, NEW v \in Workers, job'[<<q, v>>] # None
                 PROVE  job'[<<q, v>>].gen <= gens'[q[2]]
    OBVIOUS
  <2>2. job'[<<q, v>>].gen <= gens[q[2]]
    <3>1. CASE q = p /\ v = w
      BY <1>2, <2>1, <3>1
    <3>2. CASE ~(q = p /\ v = w)
      <4>1. job'[<<q, v>>] = job[<<q, v>>]
        BY <1>2, <3>2
      <4> QED BY <2>1, <4>1 DEF NumbersInv
    <3> QED BY <3>1, <3>2
  <2>3. job'[<<q, v>>].gen \in Nat
    BY <1>2, <2>1 DEF Awaited
  <2>4. q[2] \in Users
    BY PairIs
  <2> QED BY <1>2, <2>2, <2>3, <2>4 DEF Grow, Types
<1> QED BY <1>5, <1>6, <1>7, <1>8 DEF Kept, NumbersInv

\* What the other steps of a connection have in common.
LEMMA TunedKeeps ==
  ASSUME Types, MailInv, NumbersInv, Retuned, JobsFit',
         UNCHANGED <<members, stage, down, st, asks, shown, known, voice, early, chain, replay, stray>>,
         \/ up' = up
         \/ \E u \in Users : \E ms \in Seq(RequestsOf(u)') : up' = Sent(u, ms)
  PROVE  Kept
<1>1. Grow /\ pc' \in [Pairs -> Peers \cup {None}]
  BY DEF Retuned
<1>2. up' \in [Users -> Seq(Requests)] /\ \A v \in Users : up'[v] \in Seq(RequestsOf(v)')
  <2>1. CASE up' = up
    BY <1>1, <2>1, MailStays DEF Types
  <2>2. CASE up' # up
    <3>1. PICK u \in Users : \E ms \in Seq(RequestsOf(u)') : up' = Sent(u, ms)
      BY <2>2
    <3>2. PICK ms \in Seq(RequestsOf(u)') : up' = Sent(u, ms)
      BY <3>1
    <3> QED BY <1>1, <3>2, SentMail
  <2> QED BY <2>1, <2>2
<1>3. Types'
  BY <1>1, <1>2 DEF Types, JobsFit, Grow
<1>4. MailInv'
  BY <1>1, <1>2, MailStays DEF MailInv
<1> QED BY <1>3, <1>4 DEF Kept, NumbersInv, Retuned, JobsFit

\* A description and its candidates, as they are sent.
LEMMA TwoMails ==
  ASSUME Types, Grow, NEW p \in Pairs, NEW g \in Nat, g <= gens'[p[1]]
  PROVE  /\ <<Signal(p[2], Answer(g)), Signal(p[2], Ice(g))>> \in Seq(RequestsOf(p[1])')
         /\ <<Signal(p[2], Offer(g)), Signal(p[2], Ice(g))>> \in Seq(RequestsOf(p[1])')
<1>1. p[1] \in Users /\ p[2] \in Users /\ p[2] # p[1]
  BY PairIs
<1>2. ASSUME NEW s \in Signals, s.gen = g PROVE Signal(p[2], s) \in RequestsOf(p[1])'
  <2>1. Signal(p[2], s) \in Requests /\ Signal(p[2], s).t = "signal"
        /\ Signal(p[2], s).peer = p[2] /\ Signal(p[2], s).s = s
    BY <1>1, <1>2, RequestIs
  <2>2. s \in SignalsOf(p[1])'
    BY <1>2 DEF SignalsOf
  <2>3. PICK x : x = Signal(p[2], s)
    OBVIOUS
  <2>4. x \in RequestsOf(p[1])'
    BY <1>1, <2>1, <2>2, <2>3 DEF RequestsOf
  <2> QED BY <2>3, <2>4
<1>3. /\ Signal(p[2], Answer(g)) \in RequestsOf(p[1])' /\ Signal(p[2], Ice(g)) \in RequestsOf(p[1])'
      /\ Signal(p[2], Offer(g)) \in RequestsOf(p[1])'
  BY <1>2, SignalIs
<1> QED BY <1>3, TwoSignals

LEMMA EngineKeeps ==
  ASSUME Types, MailInv, NumbersInv, NEW p \in Pairs,
         \/ Negotiate(p) \/ Offered(p) \/ IceUp(p) \/ IceLost(p) \/ Timers(p) \/ IceFails(p)
         \/ \E w \in Workers : AddCandidate(p, w) \/ SetOffer(p, w) \/ Reply(p, w) \/ SetAnswer(p, w)
  PROVE  Retuned /\ Kept
<1>1. UNCHANGED <<members, stage, down, st, asks, shown, known, voice, early, chain, replay, stray>>
  <2>1. CASE Negotiate(p) \/ Offered(p)
    BY <2>1 DEF Negotiate, Offered, wireVars, rest
  <2>2. CASE IceUp(p) \/ IceLost(p) \/ IceFails(p)
    BY <2>2 DEF IceUp, IceLost, IceFails, TimerVars, wireVars, rest
  <2>3. CASE Timers(p)
    BY <2>3 DEF Timers, StopWaiting, Reoffer, Restart, Due, TimerVars, wireVars, rest
  <2>4. CASE \E w \in Workers : AddCandidate(p, w) \/ SetOffer(p, w) \/ Reply(p, w) \/ SetAnswer(p, w)
    BY <2>4 DEF AddCandidate, SetOffer, Reply, SetAnswer, wireVars, rest
  <2> QED BY <2>1, <2>2, <2>3, <2>4
<1>2. p[1] \in Users /\ p[2] \in Users
  BY PairIs
<1>3. CASE Negotiate(p) \/ IceUp(p) \/ IceLost(p) \/ IceFails(p) \/ Timers(p)
  <2>1. up' = up /\ job' = job
    BY <1>3 DEF Negotiate, IceUp, IceLost, IceFails, Timers, StopWaiting, Reoffer, Restart,
                TimerVars, wireVars
  <2>2. Retuned
    BY <1>3, NegotiateTunes, IceTunes, TimersTune DEF Timers
  <2>3. JobsFit'
    BY <2>1, <2>2, JobsStay DEF Retuned
  <2> QED BY <1>1, <2>1, <2>2, <2>3, TunedKeeps
<1>4. CASE Offered(p)
  <2>1. PICK g \in Nat : /\ g <= gens'[p[1]]
                         /\ up' = Sent(p[1], <<Signal(p[2], Offer(g)), Signal(p[2], Ice(g))>>)
    BY <1>4, OfferedTunes
  <2>2. Retuned
    BY <1>4, OfferedTunes
  <2>3. JobsFit'
    BY <1>4, <2>2, JobsStay DEF Retuned, Offered
  <2>4. <<Signal(p[2], Offer(g)), Signal(p[2], Ice(g))>> \in Seq(RequestsOf(p[1])')
    BY <2>1, <2>2, TwoMails DEF Retuned
  <2> QED BY <1>1, <1>2, <2>1, <2>2, <2>3, <2>4, TunedKeeps
<1>5. ASSUME NEW w \in Workers, AddCandidate(p, w) \/ SetOffer(p, w) \/ SetAnswer(p, w)
      PROVE  Retuned /\ Kept
  <2>1. /\ up' = up
        /\ \/ job' = [job EXCEPT ![<<p, w>>] = None]
           \/ job[<<p, w>>] # None /\ job' = [job EXCEPT ![<<p, w>>].at = "reply"]
    BY <1>5 DEF AddCandidate, SetOffer, SetAnswer, Alive, wireVars
  <2>2. Retuned
    BY <1>5, CandidateTunes, OfferTunes, AnswerTunes
  <2>3. JobsFit'
    BY <2>1, <2>2, JobsKept DEF Retuned
  <2> QED BY <1>1, <2>1, <2>2, <2>3, TunedKeeps
<1>6. ASSUME NEW w \in Workers, Reply(p, w)
      PROVE  Retuned /\ Kept
  <2>1. Retuned
    BY <1>6, ReplyTunes
  <2>2. JobsFit'
    BY <1>6, <2>1, JobsKept DEF Retuned, Reply
  <2>3. PICK g : g = pc[p].gen
    OBVIOUS
  <2>4. g \in Nat /\ g <= gens'[p[1]]
    BY <1>6, <2>3, HasIs DEF Reply, Alive, Fits
  <2>5. up' = Sent(p[1], <<Signal(p[2], Answer(g)), Signal(p[2], Ice(g))>>)
    BY <1>6, <2>3 DEF Reply
  <2>6. <<Signal(p[2], Answer(g)), Signal(p[2], Ice(g))>> \in Seq(RequestsOf(p[1])')
    BY <2>1, <2>4, TwoMails DEF Retuned
  <2> QED BY <1>1, <1>2, <2>1, <2>2, <2>5, <2>6, TunedKeeps
<1> QED BY <1>3, <1>4, <1>5, <1>6

LEMMA StepKeeps ==
  ASSUME Types, MailInv, NumbersInv, [Next]_vars
  PROVE  Kept
<1>1. CASE UNCHANGED vars
  <2>1. UNCHANGED <<members, stage, up, down, st, asks, shown, known, voice, pc, early, chain,
                    replay, job, gens, stray>>
    BY <1>1 DEF vars
  <2>2. Types' /\ MailInv' /\ NumbersInv'
    BY <2>1 DEF Types, MailInv, NumbersInv, Has, Fits, SignalsOf, RequestsOf, NoticesOf, MailsOf
  <2> QED BY <2>2 DEF Kept
<1>2. CASE Next
  BY <1>2, ServeKeeps, WireKeeps, EnterKeeps, DeliverKeeps, SignalKeeps, EngineKeeps
     DEF Next, Machine, Engine
<1> QED BY <1>1, <1>2

----------------------------------------------------------------------------
(* Voices. *)

\* A worker that comes to rest belongs to somebody with a voice.
LEMMA VoiceStays ==
  ASSUME Types, VoiceInv, UNCHANGED <<st, shown, voice, early, chain, replay, stray>>,
         \A p \in Pairs : Has(p)' => p[1] \in voice /\ pc'[p].mic,
         \A p \in Pairs, w \in Workers :
           p[1] \notin voice /\ job[<<p, w>>] # None => job'[<<p, w>>] # None
  PROVE  VoiceInv'
<1>1. ASSUME NEW u \in Users
      PROVE  /\ u \in shown' => st'[u] = "in"
             /\ st'[u] = "in" => u \in voice' /\ early'[u] = <<>>
             /\ u \in voice' => st'[u] = "in" \/ u \in stray'
  BY DEF VoiceInv
<1>2. ASSUME NEW p \in Pairs
      PROVE  /\ Has(p)' => p[1] \in voice' /\ pc'[p].mic
             /\ p[1] \notin voice' /\ chain'[p] # <<>> => job'[<<p, "chain">>] # None
  BY DEF VoiceInv, Workers
<1>3. ASSUME NEW u \in Users, u \notin voice', replay'[u] # <<>>
      PROVE  \E p \in Pairs : p[1] = u /\ job'[<<p, "join">>] # None
  <2>1. PICK p \in Pairs : p[1] = u /\ job[<<p, "join">>] # None
    BY <1>3 DEF VoiceInv
  <2> QED BY <1>3, <2>1 DEF Workers
<1> QED BY <1>1, <1>2, <1>3 DEF VoiceInv

LEMMA EngineVoices ==
  ASSUME Types, MailInv, NumbersInv, VoiceInv, NEW p \in Pairs,
         \/ Negotiate(p) \/ Offered(p) \/ IceUp(p) \/ IceLost(p) \/ Timers(p) \/ IceFails(p)
         \/ \E w \in Workers : AddCandidate(p, w) \/ SetOffer(p, w) \/ Reply(p, w) \/ SetAnswer(p, w)
  PROVE  /\ UNCHANGED <<members, stage, down, known, st, shown, voice, early, chain, replay, stray>>
         /\ Retuned
         /\ \A q \in Pairs, w \in Workers :
              job'[<<q, w>>] # job[<<q, w>>] => q = p /\ Has(p)
         /\ VoiceInv'
<1>1. UNCHANGED <<members, stage, down, known, st, shown, voice, early, chain, replay, stray>>
  <2>1. CASE Negotiate(p) \/ Offered(p)
    BY <2>1 DEF Negotiate, Offered, wireVars, rest
  <2>2. CASE IceUp(p) \/ IceLost(p) \/ IceFails(p)
    BY <2>2 DEF IceUp, IceLost, IceFails, TimerVars, wireVars, rest
  <2>3. CASE Timers(p)
    BY <2>3 DEF Timers, StopWaiting, Reoffer, Restart, Due, TimerVars, wireVars, rest
  <2>4. CASE \E w \in Workers : AddCandidate(p, w) \/ SetOffer(p, w) \/ Reply(p, w) \/ SetAnswer(p, w)
    BY <2>4 DEF AddCandidate, SetOffer, Reply, SetAnswer, wireVars, rest
  <2> QED BY <2>1, <2>2, <2>3, <2>4
<1>2. Retuned
  BY EngineKeeps
<1>3. ASSUME NEW q \in Pairs, NEW v \in Workers, job'[<<q, v>>] # job[<<q, v>>]
      PROVE  q = p /\ Has(p)
  <2>1. CASE \E w \in Workers : AddCandidate(p, w) \/ SetOffer(p, w) \/ Reply(p, w) \/ SetAnswer(p, w)
    <3>1. PICK w \in Workers : AddCandidate(p, w) \/ SetOffer(p, w) \/ Reply(p, w) \/ SetAnswer(p, w)
      BY <2>1
    <3>2. Has(p) /\ \E a : job' = [job EXCEPT ![<<p, w>>] = a]
      BY <3>1 DEF AddCandidate, SetOffer, Reply, SetAnswer, Alive
    <3>3. PICK a : job' = [job EXCEPT ![<<p, w>>] = a]
      BY <3>2
    <3>4. PICK x \in Pairs \X Workers : x = <<p, w>>
      OBVIOUS
    <3>5. PICK y \in Pairs \X Workers : y = <<q, v>>
      OBVIOUS
    <3>6. x = y
      BY <1>3, <3>3, <3>4, <3>5 DEF Types
    <3> QED BY <3>2, <3>4, <3>5, <3>6
  <2>2. CASE Negotiate(p) \/ Offered(p) \/ IceUp(p) \/ IceLost(p) \/ Timers(p) \/ IceFails(p)
    <3>1. job' = job
      BY <2>2 DEF Negotiate, Offered, IceUp, IceLost, IceFails, Timers, StopWaiting, Reoffer,
                  Restart, TimerVars
    <3> QED BY <1>3, <3>1
  <2> QED BY <2>1, <2>2
<1>4. \A q \in Pairs : Has(q)' => q[1] \in voice /\ pc'[q].mic
  BY <1>2 DEF Retuned, VoiceInv
<1>5. \A q \in Pairs, w \in Workers :
        q[1] \notin voice /\ job[<<q, w>>] # None => job'[<<q, w>>] # None
  BY <1>3 DEF VoiceInv
<1>6. VoiceInv'
  BY <1>1, <1>4, <1>5, VoiceStays
<1> QED BY <1>1, <1>2, <1>3, <1>6

LEMMA BeginVoices ==
  ASSUME Types, MailInv, NumbersInv, VoiceInv, NEW p \in Pairs, NEW w \in Workers, Begin(p, w)
  PROVE  VoiceInv'
<1>1. /\ UNCHANGED <<st, shown, voice, early>> /\ stray \subseteq stray'
      /\ \A q \in Pairs : q # p => chain'[q] = chain[q]
      /\ \A u \in Users : u # p[1] => replay'[u] = replay[u]
      /\ p[1] \in Users
  BY PairIs DEF Begin, Types
<1>2. /\ \A q \in Pairs \ {p} : pc'[q] = pc[q]
      /\ Has(p) => pc'[p].mic = pc[p].mic
      /\ ~Has(p) => pc'[p].mic = (p[1] \in voice)
      /\ \A x \in Pairs \X Workers : x # <<p, w>> => job'[x] = job[x]
  BY BeginOpens
<1>3. p[1] \in voice
  <2>1. Ready(p, w) /\ job[<<p, w>>] = None
    BY ReadyIs DEF Begin
  <2>2. CASE w = "chain"
    BY <2>1, <2>2 DEF Ready, ChainReady, VoiceInv
  <2>3. CASE w # "chain"
    BY <1>1, <2>1, <2>3 DEF Ready, JoinReady, VoiceInv
  <2> QED BY <2>2, <2>3
<1>4. ASSUME NEW u \in Users
      PROVE  /\ u \in shown' => st'[u] = "in"
             /\ st'[u] = "in" => u \in voice' /\ early'[u] = <<>>
             /\ u \in voice' => st'[u] = "in" \/ u \in stray'
  BY <1>1 DEF VoiceInv
<1>5. ASSUME NEW q \in Pairs
      PROVE  /\ Has(q)' => q[1] \in voice' /\ pc'[q].mic
             /\ q[1] \notin voice' /\ chain'[q] # <<>> => job'[<<q, "chain">>] # None
  <2>1. CASE q = p
    BY <1>1, <1>2, <1>3, <2>1 DEF VoiceInv, Has
  <2>2. CASE q # p
    <3>1. pc'[q] = pc[q] /\ chain'[q] = chain[q] /\ job'[<<q, "chain">>] = job[<<q, "chain">>]
      BY <1>1, <1>2, <2>2 DEF Workers
    <3> QED BY <1>1, <3>1 DEF VoiceInv, Has
  <2> QED BY <2>1, <2>2
<1>6. ASSUME NEW u \in Users, u \notin voice', replay'[u] # <<>>
      PROVE  \E q \in Pairs : q[1] = u /\ job'[<<q, "join">>] # None
  <2>1. u # p[1]
    BY <1>1, <1>3, <1>6
  <2>2. PICK q \in Pairs : q[1] = u /\ job[<<q, "join">>] # None
    BY <1>1, <1>6, <2>1 DEF VoiceInv
  <2>3. job'[<<q, "join">>] = job[<<q, "join">>]
    BY <1>2, <2>1, <2>2 DEF Workers
  <2> QED BY <2>2, <2>3
<1> QED BY <1>4, <1>5, <1>6 DEF VoiceInv

LEMMA DeliverVoices ==
  ASSUME Types, MailInv, NumbersInv, VoiceInv, NEW u \in Users, Deliver(u)
  PROVE  VoiceInv'
<1>1. PICK m : m = Head(down[u])
  OBVIOUS
<1>2. UNCHANGED <<st, shown, voice, replay, job>> /\ m \in NoticesOf(u) /\ m \in Notices
  BY <1>1, DeliverIs
<1>3. CASE m.t # "signal"
  <2>1. /\ UNCHANGED <<early, chain>> /\ stray' = stray \ (shown \cap {u})
        /\ IF u \in shown THEN Follows(u, known'[u]) ELSE pc' = pc
    BY <1>1, <1>3, DeliverIs
  <2>2. \A p \in Pairs : Has(p)' => p[1] \in voice /\ pc'[p].mic
    <3>1. SUFFICES ASSUME NEW p \in Pairs, Has(p)' PROVE p[1] \in voice /\ pc'[p].mic
      OBVIOUS
    <3>2. CASE pc'[p] = pc[p]
      BY <3>1, <3>2 DEF Has, VoiceInv
    <3>3. CASE pc'[p] # pc[p]
      <4>1. u \in shown /\ p[1] = u /\ pc'[p].mic = (u \in voice)
        BY <2>1, <3>1, <3>3 DEF Follows, Has
      <4> QED BY <4>1 DEF VoiceInv
    <3> QED BY <3>2, <3>3
  <2>3. \A v \in Users : v \in voice' => st'[v] = "in" \/ v \in stray'
    BY <1>2, <2>1 DEF VoiceInv
  <2> QED BY <1>2, <2>1, <2>2, <2>3 DEF VoiceInv
<1>4. CASE m.t = "signal"
  <2>1. /\ UNCHANGED <<known, pc, gens, stray>>
        /\ IF st[u] = "in"
           THEN chain' = [chain EXCEPT ![<<u, m.peer>>] = Append(@, m.s)] /\ early' = early
           ELSE /\ early' = [early EXCEPT ![u] = Append(@, [peer |-> m.peer, s |-> m.s])]
                /\ chain' = chain
    BY <1>1, <1>4, DeliverIs
  <2>2. \A p \in Pairs : p[1] \notin voice => chain'[p] = chain[p]
    <3>1. CASE st[u] = "in"
      <4>1. u \in voice
        BY <3>1 DEF VoiceInv
      <4>2. ASSUME NEW p \in Pairs, p[1] \notin voice PROVE chain'[p] = chain[p]
        <5>1. PICK q : q = <<u, m.peer>>
          OBVIOUS
        <5>2. q # p
          <6>1. q[1] = u
            BY <5>1
          <6> QED BY <4>1, <4>2, <6>1
        <5> QED BY <2>1, <3>1, <5>1, <5>2 DEF Types
      <4> QED BY <4>2
    <3>2. CASE st[u] # "in"
      BY <2>1, <3>2
    <3> QED BY <3>1, <3>2
  <2>3. \A v \in Users : st[v] = "in" => early'[v] = early[v]
    BY <2>1 DEF Types
  <2>4. \A p \in Pairs : Has(p)' => p[1] \in voice' /\ pc'[p].mic
    BY <1>2, <2>1 DEF VoiceInv, Has
  <2> QED BY <1>2, <2>1, <2>2, <2>3, <2>4 DEF VoiceInv
<1> QED BY <1>3, <1>4

LEMMA EnterVoices ==
  ASSUME Types, MailInv, NumbersInv, VoiceInv, NEW u \in Users,
         Reopen(u) \/ PressJoin(u) \/ NoMicrophone(u) \/ Enter(u) \/ Render(u) \/ Leave(u) \/ ShareScreen(u)
  PROVE  VoiceInv'
<1>1. UNCHANGED <<chain, job>> /\ \A v \in Users \ {u} : replay'[v] = replay[v]
  BY DEF Reopen, PressJoin, NoMicrophone, Enter, Render, Leave, ShareScreen, Types
<1>2. CASE Reopen(u)
  <2>1. \A p \in Pairs : Has(p)' => pc'[p] = pc[p]
    BY <1>2, ClosedAllIs DEF Reopen, Has
  <2>2. UNCHANGED <<st, shown, voice, early, replay>>
    BY <1>2 DEF Reopen
  <2>3. \A v \in Users : v \in voice => st[v] = "in" \/ v \in stray'
    BY <1>2 DEF Reopen, VoiceInv
  <2>4. \A p \in Pairs : Has(p)' => p[1] \in voice' /\ pc'[p].mic
    BY <2>1, <2>2 DEF VoiceInv, Has
  <2> QED BY <1>1, <2>2, <2>3, <2>4 DEF VoiceInv
<1>3. CASE PressJoin(u)
  <2>1. UNCHANGED <<shown, voice, pc, early, replay, stray>> /\ st' = [st EXCEPT ![u] = "connecting"]
        /\ st[u] = "idle"
    BY <1>3 DEF PressJoin, rest
  <2>2. \A v \in Users : /\ v \in shown' => st'[v] = "in"
                         /\ st'[v] = "in" => v \in voice' /\ early'[v] = <<>>
                         /\ v \in voice' => st'[v] = "in" \/ v \in stray'
    BY <2>1 DEF VoiceInv, Types
  <2> QED BY <1>1, <2>1, <2>2 DEF VoiceInv, Has
<1>4. CASE NoMicrophone(u)
  <2>1. /\ UNCHANGED <<voice, pc, early, replay>> /\ st' = [st EXCEPT ![u] = "idle"]
        /\ shown' = shown \ {u} /\ stray' = IF st[u] = "in" THEN stray \cup {u} ELSE stray
    BY <1>4 DEF NoMicrophone
  <2>2. \A v \in Users : /\ v \in shown' => st'[v] = "in"
                         /\ st'[v] = "in" => v \in voice' /\ early'[v] = <<>>
                         /\ v \in voice' => st'[v] = "in" \/ v \in stray'
    BY <2>1 DEF VoiceInv, Types
  <2> QED BY <1>1, <2>1, <2>2 DEF VoiceInv, Has
<1>5. CASE Enter(u)
  <2>1. /\ UNCHANGED <<shown, pc, stray>> /\ st' = [st EXCEPT ![u] = "in"]
        /\ voice' = voice \cup {u} /\ early' = [early EXCEPT ![u] = <<>>]
    BY <1>5 DEF Enter, rest
  <2>2. \A v \in Users : /\ v \in shown' => st'[v] = "in"
                         /\ st'[v] = "in" => v \in voice' /\ early'[v] = <<>>
                         /\ v \in voice' => st'[v] = "in" \/ v \in stray'
    BY <2>1 DEF VoiceInv, Types
  <2> QED BY <1>1, <2>1, <2>2 DEF VoiceInv, Has
<1>6. CASE Render(u)
  <2>1. /\ UNCHANGED <<st, voice, early, replay>> /\ st[u] = "in" /\ shown' = shown \cup {u}
        /\ stray' = stray \ {u} /\ pc' = Compared(u, known[u])
        /\ gens' = [gens EXCEPT ![u] = IF \E p \in Pairs : pc'[p] # None /\ pc[p] = None THEN @ + 1 ELSE @]
    BY <1>6 DEF Render
  <2>2. Follows(u, known[u])
    BY <2>1, ComparedFollows
  <2>3. ASSUME NEW p \in Pairs, Has(p)' PROVE p[1] \in voice /\ pc'[p].mic
    <3>1. CASE pc'[p] = pc[p]
      BY <2>3, <3>1 DEF Has, VoiceInv
    <3>2. CASE pc'[p] # pc[p]
      <4>1. p[1] = u /\ pc'[p].mic = (u \in voice)
        BY <2>2, <2>3, <3>2 DEF Follows, Has
      <4> QED BY <2>1, <4>1 DEF VoiceInv
    <3> QED BY <3>1, <3>2
  <2>4. \A v \in Users : /\ v \in shown' => st'[v] = "in"
                         /\ st'[v] = "in" => v \in voice' /\ early'[v] = <<>>
                         /\ v \in voice' => st'[v] = "in" \/ v \in stray'
    BY <2>1 DEF VoiceInv
  <2> QED BY <1>1, <2>1, <2>3, <2>4 DEF VoiceInv
<1>7. CASE Leave(u)
  <2>1. /\ st' = [st EXCEPT ![u] = "idle"] /\ shown' = shown \ {u} /\ voice' = voice \ {u}
        /\ stray' = stray \ {u} /\ early' = [early EXCEPT ![u] = <<>>] /\ pc' = ClosedAll(u)
        /\ replay' = replay /\ Settled(u)
    BY <1>7 DEF Leave
  <2>2. \A v \in Users : /\ v \in shown' => st'[v] = "in"
                         /\ st'[v] = "in" => v \in voice' /\ early'[v] = <<>>
                         /\ v \in voice' => st'[v] = "in" \/ v \in stray'
    BY <2>1 DEF VoiceInv, Types
  <2>3. ASSUME NEW p \in Pairs
        PROVE  /\ Has(p)' => p[1] \in voice' /\ pc'[p].mic
               /\ p[1] \notin voice' /\ chain'[p] # <<>> => job'[<<p, "chain">>] # None
    <3>1. Has(p)' => p[1] # u /\ pc'[p] = pc[p]
      BY <2>1, ClosedAllIs DEF Has
    <3>2. p[1] = u => ~ChainReady(p)
      BY <2>1, SettledIs
    <3> QED BY <1>1, <2>1, <3>1, <3>2 DEF VoiceInv, Has, ChainReady
  <2>4. ASSUME NEW v \in Users, v \notin voice', replay'[v] # <<>>
        PROVE  \E p \in Pairs : p[1] = v /\ job'[<<p, "join">>] # None
    <3>1. CASE v = u
      BY <1>1, <2>1, <2>4, <3>1, SettledIs
    <3>2. CASE v # u
      BY <1>1, <2>1, <2>4, <3>2 DEF VoiceInv
    <3> QED BY <3>1, <3>2
  <2> QED BY <2>2, <2>3, <2>4 DEF VoiceInv
<1>8. CASE ShareScreen(u)
  <2>1. UNCHANGED <<st, shown, voice, early, replay, stray>> /\ Retuned
    BY <1>8, ScreenTunes DEF ShareScreen
  <2>2. \A p \in Pairs : Has(p)' => p[1] \in voice /\ pc'[p].mic
    BY <2>1 DEF Retuned, VoiceInv
  <2> QED BY <1>1, <2>1, <2>2, VoiceStays
<1> QED BY <1>2, <1>3, <1>4, <1>5, <1>6, <1>7, <1>8

LEMMA VoicesKept ==
  ASSUME Types, MailInv, NumbersInv, VoiceInv, [Next]_vars
  PROVE  VoiceInv'
<1>1. CASE UNCHANGED <<st, shown, voice, pc, early, chain, replay, job, stray>>
  BY <1>1 DEF VoiceInv, Has
<1>2. CASE UNCHANGED vars
  BY <1>1, <1>2 DEF vars
<1>3. ASSUME NEW u \in Users,
             Serve(u) \/ Attach(u) \/ Welcome(u) \/ Unheard(u) \/ Drop(u) \/ Evict(u)
      PROVE  VoiceInv'
  <2>1. UNCHANGED clientVars /\ stray' = stray
    BY <1>3 DEF Serve, Attach, Welcome, Unheard, Drop, Evict, rest
  <2> QED BY <1>1, <2>1 DEF clientVars
<1>4. CASE Next
  BY <1>3, <1>4, DeliverVoices, EnterVoices, BeginVoices, EngineVoices DEF Next, Machine, Engine
<1> QED BY <1>2, <1>4

----------------------------------------------------------------------------
(* The last word about a user. *)

\* A message more at the end of what is on its way.
LEMMA WordAtEnd ==
  ASSUME NEW s \in Seq(Notices), NEW m \in Notices, NEW K, NEW v, NEW t, t = Append(s, m)
  PROVE  /\ t \in Seq(Notices) /\ Len(t) = Len(s) + 1 /\ t[Len(t)] = m /\ Len(t) \in Nat
         /\ \A k \in 1..Len(s) : t[k] = s[k]
         /\ \A k \in 1..Len(s) : Announced(s, K, k, v) => Announced(t, K, k, v)
         /\ m.t = "state" => \A k \in 1..Len(s) : Announced(t, K, k, v)
         /\ ~About(m, v) /\ Announced(s, K, Len(s), v) => Announced(t, K, Len(t), v)
         /\ Says(m, v) => Announced(t, K, Len(t), v)
<1>1. /\ t \in Seq(Notices) /\ Len(t) = Len(s) + 1 /\ t[Len(t)] = m /\ Len(s) \in Nat
      /\ \A k \in 1..Len(s) : t[k] = s[k]
  BY AppendProperties, LenProperties
<1>2. ASSUME NEW k \in 1..Len(s), Announced(s, K, k, v)
      PROVE  Announced(t, K, k, v)
  <2>1. CASE \E n \in (k + 1)..Len(s) : s[n].t = "state"
    BY <1>1, <2>1 DEF Announced
  <2>2. CASE \E n \in 1..k : Says(s[n], v) /\ \A i \in (n + 1)..k : ~About(s[i], v)
    <3>1. PICK n \in 1..k : Says(s[n], v) /\ \A i \in (n + 1)..k : ~About(s[i], v)
      BY <2>2
    <3>2. t[n] = s[n] /\ \A i \in (n + 1)..k : t[i] = s[i]
      BY <1>1, <3>1
    <3> QED BY <3>1, <3>2 DEF Announced
  <2>3. CASE v \in K /\ \A i \in 1..k : ~About(s[i], v)
    <3>1. \A i \in 1..k : t[i] = s[i]
      BY <1>1
    <3> QED BY <2>3, <3>1 DEF Announced
  <2> QED BY <1>2, <2>1, <2>2, <2>3 DEF Announced
<1>3. ASSUME m.t = "state", NEW k \in 1..Len(s) PROVE Announced(t, K, k, v)
  <2>1. Len(t) \in (k + 1)..Len(t)
    BY <1>1
  <2> QED BY <1>1, <1>3, <2>1 DEF Announced
<1>4. ASSUME ~About(m, v), Announced(s, K, Len(s), v) PROVE Announced(t, K, Len(t), v)
  <2>1. (Len(s) + 1)..Len(s) = {}
    BY <1>1
  <2>2. CASE \E n \in 1..Len(s) : Says(s[n], v) /\ \A i \in (n + 1)..Len(s) : ~About(s[i], v)
    <3>1. PICK n \in 1..Len(s) : Says(s[n], v) /\ \A i \in (n + 1)..Len(s) : ~About(s[i], v)
      BY <2>2
    <3>2. n \in 1..Len(t) /\ t[n] = s[n]
      BY <1>1, <3>1
    <3>3. ASSUME NEW i \in (n + 1)..Len(t) PROVE ~About(t[i], v)
      <4>1. CASE i = Len(t)
        BY <1>1, <1>4, <4>1
      <4>2. CASE i # Len(t)
        <5>1. i \in (n + 1)..Len(s) /\ t[i] = s[i]
          BY <1>1, <3>1, <3>3, <4>2
        <5> QED BY <3>1, <5>1
      <4> QED BY <4>1, <4>2
    <3> QED BY <3>1, <3>2, <3>3 DEF Announced
  <2>3. CASE v \in K /\ \A i \in 1..Len(s) : ~About(s[i], v)
    <3>1. ASSUME NEW i \in 1..Len(t) PROVE ~About(t[i], v)
      <4>1. CASE i = Len(t)
        BY <1>1, <1>4, <4>1
      <4>2. CASE i # Len(t)
        <5>1. i \in 1..Len(s) /\ t[i] = s[i]
          BY <1>1, <3>1, <4>2
        <5> QED BY <2>3, <5>1
      <4> QED BY <4>1, <4>2
    <3> QED BY <2>3, <3>1 DEF Announced
  <2> QED BY <1>4, <2>1, <2>2, <2>3 DEF Announced
<1>5. ASSUME Says(m, v) PROVE Announced(t, K, Len(t), v)
  <2>1. Len(t) \in 1..Len(t) /\ (Len(t) + 1)..Len(t) = {}
    BY <1>1
  <2> QED BY <1>1, <1>5, <2>1 DEF Announced
<1> QED BY <1>1, <1>2, <1>3, <1>4, <1>5

\* The first message is read: what it says is known.
LEMMA WordAtHead ==
  ASSUME NEW s \in Seq(Notices), s # <<>>, NEW K, NEW K2, NEW v,
         v \in K2 <=> IF About(s[1], v) THEN Says(s[1], v) ELSE v \in K,
         NEW k \in 1..Len(s), Announced(s, K, k, v), NEW t, t = Tail(s)
  PROVE  Announced(t, K2, k - 1, v)
<1>1. /\ Len(s) \in Nat /\ Len(t) = Len(s) - 1 /\ \A n \in 1..Len(t) : t[n] = s[n + 1]
  BY HeadTailProperties, LenProperties
<1>2. CASE \E n \in (k + 1)..Len(s) : s[n].t = "state"
  <2>1. PICK n \in (k + 1)..Len(s) : s[n].t = "state"
    BY <1>2
  <2>2. PICK i \in ((k - 1) + 1)..Len(t) : i = n - 1 /\ t[i] = s[n]
    <3>1. n - 1 \in ((k - 1) + 1)..Len(t) /\ n - 1 \in 1..Len(t) /\ (n - 1) + 1 = n
      BY <1>1, <2>1
    <3> QED BY <1>1, <3>1
  <2> QED BY <2>1, <2>2 DEF Announced
<1>3. CASE \E n \in 1..k : Says(s[n], v) /\ \A i \in (n + 1)..k : ~About(s[i], v)
  <2>1. PICK n \in 1..k : Says(s[n], v) /\ \A i \in (n + 1)..k : ~About(s[i], v)
    BY <1>3
  <2>2. ASSUME NEW i \in n..(k - 1) PROVE ~About(t[i], v)
    <3>1. i + 1 \in (n + 1)..k /\ i \in 1..Len(t)
      BY <1>1, <2>1, <2>2
    <3> QED BY <1>1, <2>1, <3>1
  <2>3. CASE n = 1
    <3>1. About(s[1], v)
      BY <2>1, <2>3 DEF About, Says
    <3>2. v \in K2
      BY <2>1, <2>3, <3>1
    <3> QED BY <2>2, <2>3, <3>2 DEF Announced
  <2>4. CASE n # 1
    <3>1. PICK j \in 1..(k - 1) : j = n - 1 /\ t[j] = s[n] /\ j + 1 = n
      <4>1. n - 1 \in 1..(k - 1) /\ n - 1 \in 1..Len(t) /\ (n - 1) + 1 = n
        BY <1>1, <2>1, <2>4
      <4> QED BY <1>1, <4>1
    <3>2. \A i \in (j + 1)..(k - 1) : ~About(t[i], v)
      BY <2>2, <3>1
    <3> QED BY <2>1, <3>1, <3>2 DEF Announced
  <2> QED BY <2>3, <2>4
<1>4. CASE v \in K /\ \A i \in 1..k : ~About(s[i], v)
  <2>1. v \in K2
    BY <1>1, <1>4
  <2>2. ASSUME NEW i \in 1..(k - 1) PROVE ~About(t[i], v)
    <3>1. i + 1 \in 1..k /\ i \in 1..Len(t)
      BY <1>1, <2>2
    <3> QED BY <1>1, <1>4, <3>1
  <2> QED BY <2>1, <2>2 DEF Announced
<1> QED BY <1>2, <1>3, <1>4 DEF Announced

\* The word about u's members and the senders of the signals on their way.
WordOf(u) ==
  /\ \A v \in members : Announced(down[u], known[u], Len(down[u]), v)
  /\ \A k \in 1..Len(down[u]) :
       down[u][k].t = "signal" => Announced(down[u], known[u], k, down[u][k].peer)

LEMMA WordSame ==
  ASSUME NEW u \in Users, WordOf(u), members' \subseteq members, down'[u] = down[u], known'[u] = known[u]
  PROVE  WordOf(u)'
BY DEF WordOf

\* The server adds a message that is right about the members it has now.
LEMMA WordTold ==
  ASSUME Types, NEW u \in Users, NEW m \in Notices, WordOf(u) \/ m.t = "state",
         known'[u] = known[u], down'[u] = Append(down[u], m),
         \A v \in members' : Says(m, v) \/ (~About(m, v) /\ v \in members),
         m.t = "signal" => m.peer \in members
  PROVE  WordOf(u)'
<1>1. PICK s \in Seq(Notices) : s = down[u]
  BY DEF Types
<1>2. PICK t : t = Append(s, m)
  OBVIOUS
<1>3. PICK K : K = known[u]
  OBVIOUS
<1>4. /\ Len(t) = Len(s) + 1 /\ t[Len(t)] = m /\ Len(s) \in Nat
      /\ \A k \in 1..Len(s) : t[k] = s[k]
  BY <1>2, WordAtEnd, LenProperties
<1>5. ASSUME NEW v \in members' PROVE Announced(t, K, Len(t), v)
  <2>1. CASE Says(m, v)
    BY <1>2, <2>1, WordAtEnd
  <2>2. CASE ~Says(m, v)
    <3>1. ~About(m, v) /\ v \in members /\ m.t # "state"
      BY <1>5, <2>2 DEF About
    <3>2. Announced(s, K, Len(s), v)
      BY <1>1, <1>3, <3>1 DEF WordOf
    <3>3. ~About(m, v) /\ Announced(s, K, Len(s), v) => Announced(t, K, Len(t), v)
      BY <1>2, WordAtEnd
    <3> QED BY <3>1, <3>2, <3>3
  <2> QED BY <2>1, <2>2
<1>6. ASSUME NEW k \in 1..Len(t), t[k].t = "signal" PROVE Announced(t, K, k, t[k].peer)
  <2>1. CASE k = Len(t)
    <3>1. m.t = "signal" /\ m.t # "state" /\ t[k].peer = m.peer /\ m.peer \in members
      BY <1>4, <1>6, <2>1
    <3>2. Announced(s, K, Len(s), m.peer) /\ ~About(m, m.peer)
      BY <1>1, <1>3, <3>1 DEF WordOf, About
    <3>3. PICK v : v = m.peer
      OBVIOUS
    <3>4. Announced(t, K, Len(t), v)
      BY <1>2, <3>2, <3>3, WordAtEnd
    <3> QED BY <2>1, <3>1, <3>3, <3>4
  <2>2. CASE k # Len(t)
    <3>1. k \in 1..Len(s) /\ t[k] = s[k]
      BY <1>4, <2>2
    <3>2. PICK v : v = t[k].peer
      OBVIOUS
    <3>3. CASE m.t = "state"
      <4>1. Announced(t, K, k, v)
        BY <1>2, <3>1, <3>3, WordAtEnd
      <4> QED BY <3>2, <4>1
    <3>4. CASE m.t # "state"
      <4>1. Announced(s, K, k, v)
        BY <1>1, <1>3, <1>6, <3>1, <3>2, <3>4 DEF WordOf
      <4> QED BY <1>2, <3>1, <3>2, <4>1, WordAtEnd
    <3> QED BY <3>3, <3>4
  <2> QED BY <2>1, <2>2
<1>7. t = down'[u] /\ K = known'[u]
  BY <1>1, <1>2, <1>3
<1> QED BY <1>5, <1>6, <1>7 DEF WordOf

LEMMA WordRead ==
  ASSUME Types, MailInv, NumbersInv, NEW u \in Users, WordOf(u), Deliver(u)
  PROVE  WordOf(u)'
<1>1. PICK s \in Seq(Notices) : s = down[u]
  BY DEF Types
<1>2. PICK m : m = Head(s)
  OBVIOUS
<1>3. PICK t : t = Tail(s)
  OBVIOUS
<1>4. /\ s # <<>> /\ m \in Notices /\ down'[u] = t /\ UNCHANGED members
      /\ m.t # "signal" =>
           \A v \in Users : v \in known'[u] <=> IF About(m, v) THEN Says(m, v) ELSE v \in known[u]
      /\ m.t = "signal" => known' = known
  BY <1>1, <1>2, <1>3, DeliverIs
<1>5. /\ Len(s) \in Nat /\ Len(t) = Len(s) - 1 /\ Len(s) >= 1 /\ m = s[1]
      /\ \A n \in 1..Len(t) : t[n] = s[n + 1]
  BY <1>2, <1>3, <1>4, HeadTailProperties, LenProperties, EmptySeq
<1>6. PICK K, L : K = known[u] /\ L = known'[u]
  OBVIOUS
<1>7. \A v \in Users : v \in L <=> IF About(s[1], v) THEN Says(s[1], v) ELSE v \in K
  <2>1. CASE m.t # "signal"
    BY <1>4, <1>5, <1>6, <2>1
  <2>2. CASE m.t = "signal"
    BY <1>4, <1>5, <1>6, <2>2 DEF About
  <2> QED BY <2>1, <2>2
<1>8. ASSUME NEW v \in members' PROVE Announced(t, L, Len(t), v)
  <2>1. v \in Users /\ Announced(s, K, Len(s), v)
    BY <1>1, <1>4, <1>6, <1>8 DEF WordOf, Types
  <2>2. Len(s) \in 1..Len(s)
    BY <1>5
  <2>3. Announced(t, L, Len(s) - 1, v)
    BY <1>3, <1>4, <1>7, <2>1, <2>2, WordAtHead
  <2> QED BY <1>5, <2>3
<1>9. ASSUME NEW k \in 1..Len(t), t[k].t = "signal" PROVE Announced(t, L, k, t[k].peer)
  <2>1. PICK n \in 1..Len(s) : n = k + 1 /\ n - 1 = k /\ s[n] = t[k]
    <3>1. k + 1 \in 1..Len(s) /\ (k + 1) - 1 = k
      BY <1>5
    <3> QED BY <1>5, <3>1
  <2>2. PICK v : v = t[k].peer
    OBVIOUS
  <2>3. s[n] \in Notices
    BY <2>1, ElementOfSeq
  <2>4. v \in Users
    BY <1>9, <2>1, <2>2, <2>3, NoticeIs
  <2>5. Announced(s, K, n, v)
    BY <1>1, <1>6, <1>9, <2>1, <2>2 DEF WordOf
  <2>6. Announced(t, L, n - 1, v)
    BY <1>3, <1>4, <1>7, <2>4, <2>5, WordAtHead
  <2> QED BY <2>1, <2>2, <2>6
<1> QED BY <1>4, <1>6, <1>8, <1>9 DEF WordOf

LEMMA WordIs == WordInv <=> \A u \in Users : stage[u] = "open" => WordOf(u)
BY DEF WordInv, WordOf

LEMMA WordServed ==
  ASSUME Types, MailInv, NumbersInv, WordInv, NEW u \in Users, Serve(u)
  PROVE  WordInv'
<1>1. PICK m : m = Head(up[u])
  OBVIOUS
<1>2. up[u] # <<>> /\ UNCHANGED <<stage, known>> /\ m \in RequestsOf(u) /\ m \in Requests
  <2>1. up[u] # <<>> /\ UNCHANGED <<stage, known>>
    BY DEF Serve, clientVars
  <2>2. m \in RequestsOf(u)
    BY <1>1, <2>1, RestOf DEF MailInv
  <2> QED BY <2>1, <2>2, TypesOfSets
<1>3. members' \in SUBSET Users
  BY ServeKeeps DEF Kept, Types
<1>4. SUFFICES ASSUME NEW v \in Users, stage[v] = "open", WordOf(v) PROVE WordOf(v)'
  BY <1>2, WordIs DEF WordInv, WordOf
<1>5. Hears(v) /\ known'[v] = known[v]
  BY <1>2, <1>4 DEF Hears
<1>6. CASE m.t = "join"
  <2>1. members' = members \cup {u}
    BY <1>1, <1>6 DEF Serve
  <2>2. PICK x : x = Joined(u)
    OBVIOUS
  <2>3. PICK y : y = State(members')
    OBVIOUS
  <2>4. /\ x \in Notices /\ x.t = "joined" /\ x.u = u
        /\ y \in Notices /\ y.t = "state" /\ y.members = members'
    BY <1>3, <2>2, <2>3, NoticeIs
  <2>5. CASE v = u
    <3>1. down'[v] = Append(down[v], y)
      BY <1>1, <1>6, <2>3, <2>5 DEF Serve
    <3>2. \A z \in members' : Says(y, z)
      BY <2>4 DEF Says
    <3> QED BY <1>4, <1>5, <2>4, <3>1, <3>2, WordTold
  <2>6. CASE v # u
    <3>1. PICK T : T = Told(Users, x)
      OBVIOUS
    <3>2. T[v] = Append(down[v], x)
      BY <1>5, <2>4, <3>1, ToldIs
    <3>3. down'[v] = T[v]
      BY <1>1, <1>6, <2>2, <2>6, <3>1 DEF Serve
    <3>4. \A z \in members' : Says(x, z) \/ (~About(x, z) /\ z \in members)
      BY <2>1, <2>4 DEF Says, About
    <3> QED BY <1>4, <1>5, <2>4, <3>2, <3>3, <3>4, WordTold
  <2> QED BY <2>5, <2>6
<1>7. CASE m.t = "leave"
  <2>1. members' = members \ {u} /\ down' = IF u \in members THEN Told(Users, Left(u)) ELSE down
    BY <1>1, <1>7 DEF Serve
  <2>2. CASE u \notin members
    BY <1>4, <1>5, <2>1, <2>2, WordSame
  <2>3. CASE u \in members
    <3>1. PICK x : x = Left(u)
      OBVIOUS
    <3>2. x \in Notices /\ x.t = "left" /\ x.u = u
      BY <3>1, NoticeIs
    <3>3. PICK T : T = Told(Users, x)
      OBVIOUS
    <3>4. T[v] = Append(down[v], x)
      BY <1>5, <3>2, <3>3, ToldIs
    <3>5. down'[v] = T[v]
      BY <2>1, <2>3, <3>1, <3>3
    <3>6. \A z \in members' : ~About(x, z) /\ z \in members
      BY <2>1, <3>2 DEF About
    <3> QED BY <1>4, <1>5, <3>2, <3>4, <3>5, <3>6, WordTold
  <2> QED BY <2>2, <2>3
<1>8. CASE m.t = "signal"
  <2>1. /\ members' = members
        /\ down' = IF {u, m.peer} \subseteq members THEN Told({m.peer}, Signal(u, m.s)) ELSE down
    BY <1>1, <1>8 DEF Serve
  <2>2. CASE down'[v] = down[v]
    BY <1>4, <1>5, <2>1, <2>2, WordSame
  <2>3. CASE down'[v] # down[v]
    <3>1. PICK x : x = Signal(u, m.s)
      OBVIOUS
    <3>2. x \in Notices /\ x.t = "signal" /\ x.peer = u /\ u \in members
      BY <1>2, <1>8, <2>1, <2>3, <3>1, NoticeIs, RequestIs
    <3>3. PICK W : W = {m.peer}
      OBVIOUS
    <3>4. PICK T : T = Told(W, x)
      OBVIOUS
    <3>5. T[v] = down[v] \/ T[v] = Append(down[v], x)
      BY <3>2, <3>4, ToldSome
    <3>6. down'[v] = T[v]
      BY <2>1, <2>3, <3>1, <3>3, <3>4
    <3>7. \A z \in members' : ~About(x, z) /\ z \in members
      BY <2>1, <3>2 DEF About
    <3>8. down'[v] = Append(down[v], x)
      BY <2>3, <3>5, <3>6
    <3> QED BY <1>4, <1>5, <3>2, <3>7, <3>8, WordTold
  <2> QED BY <2>2, <2>3
<1> QED BY <1>2, <1>6, <1>7, <1>8, RequestIs

LEMMA WordKept ==
  ASSUME Types, MailInv, NumbersInv, VoiceInv, WordInv, [Next]_vars
  PROVE  WordInv'
<1>1. CASE UNCHANGED <<members, stage, down, known>>
  BY <1>1 DEF WordInv
<1>2. CASE UNCHANGED vars
  BY <1>1, <1>2 DEF vars
<1>3. ASSUME NEW u \in Users, Unheard(u) PROVE WordInv'
  BY <1>1, <1>3 DEF Unheard, clientVars
<1>4. ASSUME NEW u \in Users, stage'[u] # "open", known' = known, members' = members,
             \A v \in Users \ {u} : stage'[v] = stage[v] /\ down'[v] = down[v]
      PROVE  WordInv'
  <2>1. SUFFICES ASSUME NEW v \in Users, stage'[v] = "open" PROVE WordOf(v)'
    BY DEF WordInv, WordOf
  <2>2. v # u
    BY <1>4, <2>1
  <2>3. stage[v] = "open" /\ down'[v] = down[v] /\ known'[v] = known[v] /\ members' \subseteq members
    BY <1>4, <2>1, <2>2
  <2>4. WordOf(v)
    BY <2>3, WordIs
  <2> QED BY <2>3, <2>4, WordSame
<1>5. ASSUME NEW u \in Users, Drop(u) \/ Attach(u) PROVE WordInv'
  <2>1. /\ stage'[u] # "open" /\ known' = known /\ members' = members
        /\ \A v \in Users \ {u} : stage'[v] = stage[v] /\ down'[v] = down[v]
    BY <1>5 DEF Drop, Attach, clientVars, Types
  <2> QED BY <1>4, <2>1
<1>6. ASSUME NEW u \in Users,
             PressJoin(u) \/ NoMicrophone(u) \/ Enter(u) \/ Render(u) \/ Leave(u) \/ ShareScreen(u)
      PROVE  WordInv'
  <2>1. UNCHANGED <<members, stage, down, known>>
    BY <1>6 DEF PressJoin, NoMicrophone, Enter, Render, Leave, ShareScreen, wireVars
  <2> QED BY <1>1, <2>1
<1>7. ASSUME NEW u \in Users, Reopen(u) PROVE WordInv'
  <2>1. /\ stage'[u] # "open" /\ known' = known /\ members' = members
        /\ \A v \in Users \ {u} : stage'[v] = stage[v] /\ down'[v] = down[v]
    BY <1>7 DEF Reopen, Types
  <2> QED BY <1>4, <2>1
<1>8. ASSUME NEW p \in Pairs, Engine(p) \/ Timers(p) \/ IceFails(p) PROVE WordInv'
  <2>1. CASE \E w \in Workers : Begin(p, w)
    <3>1. UNCHANGED <<members, stage, down, known>>
      BY <2>1 DEF Begin, wireVars
    <3> QED BY <1>1, <3>1
  <2>2. CASE ~\E w \in Workers : Begin(p, w)
    <3>1. UNCHANGED <<members, stage, down, known>>
      BY <1>8, <2>2, EngineVoices DEF Engine
    <3> QED BY <1>1, <3>1
  <2> QED BY <2>1, <2>2
<1>9. ASSUME NEW u \in Users, Evict(u) PROVE WordInv'
  <2>1. /\ UNCHANGED <<stage, known>> /\ members' = members \ {u} /\ down' = Told(Users, Left(u))
    BY <1>9 DEF Evict, clientVars
  <2>2. PICK x : x = Left(u)
    OBVIOUS
  <2>3. x \in Notices /\ x.t = "left" /\ x.u = u
    BY <2>2, NoticeIs
  <2>4. PICK T : T = Told(Users, x)
    OBVIOUS
  <2>5. ASSUME NEW v \in Users, stage[v] = "open" PROVE WordOf(v)'
    <3>1. T[v] = Append(down[v], x)
      BY <2>3, <2>4, <2>5, ToldIs DEF Hears
    <3>2. down'[v] = T[v]
      BY <2>1, <2>2, <2>4
    <3>3. \A z \in members' : ~About(x, z) /\ z \in members
      BY <2>1, <2>3 DEF About
    <3>4. WordOf(v) /\ known'[v] = known[v]
      BY <2>1, <2>5, WordIs
    <3> QED BY <2>3, <3>1, <3>2, <3>3, <3>4, WordTold
  <2> QED BY <2>1, <2>5 DEF WordInv, WordOf
<1>10. ASSUME NEW u \in Users, Welcome(u) PROVE WordInv'
  <2>1. /\ UNCHANGED <<members, known>> /\ stage' = [stage EXCEPT ![u] = "open"]
        /\ down' = [down EXCEPT ![u] = Append(@, State(members))]
    BY <1>10 DEF Welcome, clientVars
  <2>2. PICK x : x = State(members)
    OBVIOUS
  <2>3. x \in Notices /\ x.t = "state" /\ x.members = members
    BY <2>2, NoticeIs DEF Types
  <2>4. ASSUME NEW v \in Users, stage'[v] = "open" PROVE WordOf(v)'
    <3>1. CASE v = u
      <4>1. down'[v] = Append(down[v], x)
        BY <2>1, <2>2, <3>1 DEF Types
      <4>2. \A z \in members' : Says(x, z)
        BY <2>1, <2>3 DEF Says
      <4>3. known'[v] = known[v]
        BY <2>1
      <4> QED BY <2>3, <4>1, <4>2, <4>3, WordTold
    <3>2. CASE v # u
      <4>1. stage[v] = "open" /\ down'[v] = down[v] /\ known'[v] = known[v] /\ members' \subseteq members
        BY <2>1, <2>4, <3>2 DEF Types
      <4>2. WordOf(v)
        BY <4>1, WordIs
      <4> QED BY <4>1, <4>2, WordSame
    <3> QED BY <3>1, <3>2
  <2> QED BY <2>4 DEF WordInv, WordOf
<1>11. ASSUME NEW u \in Users, Deliver(u) PROVE WordInv'
  <2>1. PICK m : m = Head(down[u])
    OBVIOUS
  <2>2. /\ UNCHANGED <<members, stage>> /\ \A v \in Users \ {u} : down'[v] = down[v] /\ known'[v] = known[v]
    BY <1>11, <2>1, DeliverIs
  <2>3. ASSUME NEW v \in Users, stage[v] = "open" PROVE WordOf(v)'
    <3>1. WordOf(v)
      BY <2>3, WordIs
    <3>2. CASE v = u
      BY <1>11, <3>1, <3>2, WordRead
    <3>3. CASE v # u
      <4>1. down'[v] = down[v] /\ known'[v] = known[v] /\ members' \subseteq members
        BY <2>2, <3>3
      <4> QED BY <3>1, <4>1, WordSame
    <3> QED BY <3>2, <3>3
  <2> QED BY <2>2, <2>3 DEF WordInv, WordOf
<1>12. CASE Next
  <2>1. ASSUME NEW u \in Users, Machine(u) PROVE WordInv'
    BY <1>5, <1>6, <1>7, <1>10, <1>11, <2>1, WordServed DEF Machine
  <2> QED BY <1>3, <1>5, <1>6, <1>8, <1>9, <1>12, <2>1 DEF Next
<1> QED BY <1>2, <1>12

----------------------------------------------------------------------------
(* Connections and who is there. *)

GhostOf(u) ==
  \A p \in Pairs : p[1] = u =>
    /\ Has(p) /\ u \in shown /\ u \notin stray => p[2] \in known[u] \/ StateComing(u)
    /\ ChainReady(p) => Has(p) \/ p[2] \in known[u] \/ StateComing(u)

LEMMA GhostIs == GhostInv <=> \A u \in Users : GhostOf(u)
BY PairIs DEF GhostInv, GhostOf

\* The list of members stays on its way while messages are added.
LEMMA StillComing ==
  ASSUME Types, NEW u \in Users, StateComing(u), stage'[u] = stage[u],
         \/ down'[u] = down[u]
         \/ \E m \in Notices : down'[u] = Append(down[u], m)
  PROVE  StateComing(u)'
<1>1. CASE stage[u] # "open" \/ down'[u] = down[u]
  BY <1>1 DEF StateComing
<1>2. CASE stage[u] = "open" /\ \E m \in Notices : down'[u] = Append(down[u], m)
  <2>1. PICK n \in 1..Len(down[u]) : down[u][n].t = "state"
    BY <1>2 DEF StateComing
  <2>2. PICK m \in Notices : down'[u] = Append(down[u], m)
    BY <1>2
  <2>3. PICK s \in Seq(Notices) : s = down[u]
    BY DEF Types
  <2>4. PICK t : t = Append(s, m)
    OBVIOUS
  <2>5. Len(t) = Len(s) + 1 /\ Len(s) \in Nat /\ \A k \in 1..Len(s) : t[k] = s[k]
    BY <2>4, AppendProperties, LenProperties
  <2>6. n \in 1..Len(t) /\ t[n].t = "state"
    BY <2>1, <2>3, <2>5
  <2>7. down'[u] = t
    BY <2>2, <2>3, <2>4
  <2> QED BY <2>6, <2>7 DEF StateComing
<1> QED BY <1>1, <1>2

\* Somebody about whose connections and members nothing changes.
LEMMA GhostSame ==
  ASSUME Types, NEW u \in Users, GhostOf(u), StateComing(u) => StateComing(u)',
         known'[u] = known[u], u \in shown' => u \in shown, u \in stray => u \in stray',
         \A p \in Pairs : p[1] = u =>
           /\ Has(p)' <=> Has(p)
           /\ chain'[p] = chain[p]
           /\ job'[<<p, "chain">>] = job[<<p, "chain">>] \/ Has(p)
  PROVE  GhostOf(u)'
<1>1. SUFFICES ASSUME NEW p \in Pairs, p[1] = u
               PROVE  /\ Has(p)' /\ u \in shown' /\ u \notin stray' => p[2] \in known'[u] \/ StateComing(u)'
                      /\ ChainReady(p)' => Has(p)' \/ p[2] \in known'[u] \/ StateComing(u)'
  BY DEF GhostOf
<1>2. Has(p)' /\ u \in shown' /\ u \notin stray' => p[2] \in known'[u] \/ StateComing(u)'
  BY <1>1 DEF GhostOf
<1>3. ChainReady(p)' => Has(p)' \/ p[2] \in known'[u] \/ StateComing(u)'
  <2>1. CASE Has(p)
    BY <1>1, <2>1
  <2>2. CASE ~Has(p)
    <3>1. ChainReady(p)' => ChainReady(p)
      BY <1>1, <2>2 DEF ChainReady
    <3> QED BY <1>1, <2>2, <3>1 DEF GhostOf
  <2> QED BY <2>1, <2>2
<1> QED BY <1>2, <1>3

LEMMA GhostsServed ==
  ASSUME Types, MailInv, NumbersInv, GhostInv, NEW u \in Users,
         Serve(u) \/ Attach(u) \/ Welcome(u) \/ Unheard(u) \/ Drop(u) \/ Evict(u)
  PROVE  GhostInv'
<1>1. UNCHANGED clientVars /\ stray' = stray
  BY DEF Serve, Attach, Welcome, Unheard, Drop, Evict, rest
<1>2. SUFFICES ASSUME NEW v \in Users PROVE StateComing(v) => StateComing(v)'
  <2>1. ASSUME NEW v \in Users PROVE GhostOf(v)'
    <3>1. GhostOf(v) /\ (StateComing(v) => StateComing(v)')
      BY <1>2, GhostIs
    <3> QED BY <1>1, <3>1, GhostSame DEF clientVars, Has
  <2> QED BY <2>1 DEF GhostInv, GhostOf, Pairs
<1>3. CASE stage' = stage /\ (down'[v] = down[v] \/ \E m \in Notices : down'[v] = Append(down[v], m))
  BY <1>3, StillComing
<1>4. CASE Unheard(u)
  BY <1>3, <1>4 DEF Unheard
<1>5. CASE Attach(u)
  BY <1>5 DEF Attach, StateComing, Types
<1>6. CASE Drop(u)
  BY <1>6 DEF Drop, StateComing, Types
<1>7. CASE Welcome(u)
  <2>1. CASE v # u
    BY <1>7, <2>1 DEF Welcome, StateComing, Types
  <2>2. CASE v = u
    <3>1. PICK m : m = State(members)
      OBVIOUS
    <3>2. PICK s \in Seq(Notices) : s = down[u]
      BY DEF Types
    <3>3. PICK t : t = Append(s, m)
      OBVIOUS
    <3>4. m \in Notices /\ m.t = "state"
      BY <3>1, NoticeIs DEF Types
    <3>5. Len(t) \in 1..Len(t) /\ t[Len(t)] = m
      BY <3>3, <3>4, AppendProperties, LenProperties
    <3>6. down'[u] = t
      BY <1>7, <3>1, <3>2, <3>3 DEF Welcome, Types
    <3> QED BY <2>2, <3>4, <3>5, <3>6 DEF StateComing
  <2> QED BY <2>1, <2>2
<1>8. CASE Evict(u)
  <2>1. PICK x, T : x = Left(u) /\ T = Told(Users, x)
    OBVIOUS
  <2>2. x \in Notices
    BY <2>1, NoticeIs
  <2>3. T[v] = down[v] \/ T[v] = Append(down[v], x)
    BY <2>1, <2>2, ToldSome
  <2>4. down'[v] = T[v] /\ stage' = stage
    BY <1>8, <2>1 DEF Evict
  <2> QED BY <1>3, <2>2, <2>3, <2>4
<1>9. CASE Serve(u)
  <2>1. PICK m : m = Head(up[u])
    OBVIOUS
  <2>2. up[u] # <<>> /\ stage' = stage
    BY <1>9 DEF Serve
  <2>3. m \in RequestsOf(u) /\ m \in Requests
    <3>1. m \in RequestsOf(u)
      BY <2>1, <2>2, RestOf DEF MailInv
    <3> QED BY <3>1, TypesOfSets
  <2>4. CASE m.t = "join"
    <3>1. PICK x : x = Joined(u)
      OBVIOUS
    <3>2. PICK y : y = State(members')
      OBVIOUS
    <3>3. x \in Notices
      BY <3>1, NoticeIs
    <3>4. y \in Notices
      <4>1. members' \in SUBSET Users
        BY <1>9, ServeKeeps DEF Kept, Types
      <4> QED BY <3>2, <4>1, NoticeIs
    <3>5. PICK T : T = Told(Users, x)
      OBVIOUS
    <3>6. T[v] = down[v] \/ T[v] = Append(down[v], x)
      BY <3>3, <3>5, ToldSome
    <3>7. down'[v] = IF v = u THEN Append(down[v], y) ELSE T[v]
      BY <1>9, <2>1, <2>4, <3>1, <3>2, <3>5 DEF Serve
    <3> QED BY <1>3, <2>2, <3>3, <3>4, <3>6, <3>7
  <2>5. CASE m.t = "leave"
    <3>1. PICK x : x = Left(u)
      OBVIOUS
    <3>2. x \in Notices
      BY <3>1, NoticeIs
    <3>3. PICK T : T = Told(Users, x)
      OBVIOUS
    <3>4. T[v] = down[v] \/ T[v] = Append(down[v], x)
      BY <3>2, <3>3, ToldSome
    <3>5. down'[v] = T[v] \/ down'[v] = down[v]
      BY <1>9, <2>1, <2>5, <3>1, <3>3 DEF Serve
    <3> QED BY <1>3, <2>2, <3>2, <3>4, <3>5
  <2>6. CASE m.t = "signal"
    <3>1. PICK x : x = Signal(u, m.s)
      OBVIOUS
    <3>2. x \in Notices
      BY <2>3, <2>6, <3>1, NoticeIs, RequestIs
    <3>3. PICK T : T = Told({m.peer}, x)
      OBVIOUS
    <3>4. T[v] = down[v] \/ T[v] = Append(down[v], x)
      BY <3>2, <3>3, ToldSome
    <3>5. down'[v] = T[v] \/ down'[v] = down[v]
      BY <1>9, <2>1, <2>6, <3>1, <3>3 DEF Serve
    <3> QED BY <1>3, <2>2, <3>2, <3>4, <3>5
  <2> QED BY <2>3, <2>4, <2>5, <2>6, RequestIs
<1> QED BY <1>4, <1>5, <1>6, <1>7, <1>8, <1>9

LEMMA GhostsEntering ==
  ASSUME Types, MailInv, NumbersInv, GhostInv, NEW u \in Users,
         Reopen(u) \/ PressJoin(u) \/ NoMicrophone(u) \/ Enter(u) \/ Render(u) \/ Leave(u) \/ ShareScreen(u)
  PROVE  GhostInv'
<1>1. /\ UNCHANGED <<members, down, known, chain, job>> /\ Settled(u)
      /\ shown \ {u} = shown' \ {u} /\ stray \ {u} = stray' \ {u}
      /\ \A v \in Users \ {u} : stage'[v] = stage[v]
  BY DEF Reopen, PressJoin, NoMicrophone, Enter, Render, Leave, ShareScreen, wireVars, rest, Types
<1>2. \A p \in Pairs : p[1] # u => (Has(p)' <=> Has(p))
  <2>1. CASE Render(u)
    <3>1. Follows(u, known[u])
      BY <2>1, ComparedFollows DEF Render
    <3> QED BY <3>1 DEF Follows, Has
  <2>2. CASE ShareScreen(u)
    BY <2>2, ScreenTunes DEF Retuned
  <2>3. CASE pc' = ClosedAll(u)
    BY <2>3, ClosedAllIs DEF Has
  <2>4. CASE pc' = pc
    BY <2>4 DEF Has
  <2> QED BY <2>1, <2>2, <2>3, <2>4 DEF Reopen, PressJoin, NoMicrophone, Enter, Leave
<1>3. ASSUME NEW v \in Users, v # u PROVE GhostOf(v)'
  <2>1. GhostOf(v)
    BY GhostIs
  <2>2. /\ StateComing(v) => StateComing(v)'
        /\ known'[v] = known[v] /\ (v \in shown' => v \in shown) /\ (v \in stray => v \in stray')
    BY <1>1, <1>3 DEF StateComing
  <2>3. \A p \in Pairs : p[1] = v =>
           /\ Has(p)' <=> Has(p)
           /\ chain'[p] = chain[p]
           /\ job'[<<p, "chain">>] = job[<<p, "chain">>] \/ Has(p)
    BY <1>1, <1>2, <1>3
  <2> QED BY <2>1, <2>2, <2>3, GhostSame
<1>4. ASSUME NEW p \in Pairs, p[1] = u PROVE ~ChainReady(p)'
  BY <1>1, <1>4, SettledIs DEF ChainReady
<1>5. ASSUME NEW p \in Pairs, p[1] = u, Has(p)', u \in shown', u \notin stray'
      PROVE  p[2] \in known'[u] \/ StateComing(u)'
  <2>1. CASE Render(u)
    <3>1. Follows(u, known[u])
      BY <2>1, ComparedFollows DEF Render
    <3> QED BY <1>1, <1>5, <3>1 DEF Follows
  <2>2. CASE Reopen(u)
    BY <2>2 DEF Reopen, StateComing, Types
  <2>3. CASE Leave(u)
    BY <1>5, <2>3 DEF Leave
  <2>4. CASE NoMicrophone(u)
    BY <1>5, <2>4 DEF NoMicrophone
  <2>5. CASE PressJoin(u) \/ Enter(u) \/ ShareScreen(u)
    <3>1. /\ UNCHANGED <<shown, stray, stage>> /\ (Has(p)' <=> Has(p))
      <4>1. CASE ShareScreen(u)
        BY <4>1, ScreenTunes DEF Retuned, ShareScreen, wireVars
      <4>2. CASE PressJoin(u) \/ Enter(u)
        BY <4>2 DEF PressJoin, Enter, wireVars, rest, Has
      <4> QED BY <2>5, <4>1, <4>2
    <3>2. p[2] \in known[u] \/ StateComing(u)
      BY <1>5, <3>1 DEF GhostInv
    <3> QED BY <1>1, <3>1, <3>2 DEF StateComing
  <2> QED BY <2>1, <2>2, <2>3, <2>4, <2>5
<1>6. GhostOf(u)'
  BY <1>4, <1>5 DEF GhostOf
<1>7. \A v \in Users : GhostOf(v)'
  BY <1>3, <1>6
<1> QED BY <1>7, PairIs DEF GhostInv, GhostOf

LEMMA GhostsOfEngine ==
  ASSUME Types, MailInv, NumbersInv, VoiceInv, GhostInv, NEW p \in Pairs,
         \/ Negotiate(p) \/ Offered(p) \/ IceUp(p) \/ IceLost(p) \/ Timers(p) \/ IceFails(p)
         \/ \E w \in Workers : AddCandidate(p, w) \/ SetOffer(p, w) \/ Reply(p, w) \/ SetAnswer(p, w)
  PROVE  GhostInv'
<1>1. /\ UNCHANGED <<members, stage, down, known, st, shown, voice, early, chain, replay, stray>>
      /\ Retuned
      /\ \A q \in Pairs, w \in Workers : job'[<<q, w>>] # job[<<q, w>>] => q = p /\ Has(p)
  BY EngineVoices
<1>2. ASSUME NEW v \in Users PROVE GhostOf(v)'
  <2>1. GhostOf(v) /\ (StateComing(v) => StateComing(v)')
    BY <1>1, GhostIs DEF StateComing
  <2>2. \A q \in Pairs : q[1] = v =>
           /\ Has(q)' <=> Has(q)
           /\ chain'[q] = chain[q]
           /\ job'[<<q, "chain">>] = job[<<q, "chain">>] \/ Has(q)
    BY <1>1 DEF Retuned, Workers
  <2> QED BY <1>1, <2>1, <2>2, GhostSame
<1> QED BY <1>2, PairIs DEF GhostInv, GhostOf

LEMMA GhostsBeginning ==
  ASSUME Types, MailInv, NumbersInv, GhostInv, NEW p \in Pairs, NEW w \in Workers, Begin(p, w)
  PROVE  GhostInv'
<1>1. /\ UNCHANGED <<stage, down, known, shown>> /\ stray \subseteq stray'
      /\ \A q \in Pairs : q # p => chain'[q] = chain[q]
  BY DEF Begin, wireVars, Types
<1>2. /\ \A q \in Pairs \ {p} : pc'[q] = pc[q]
      /\ Has(p)'
      /\ \A x \in Pairs \X Workers : x # <<p, w>> => job'[x] = job[x]
  BY BeginOpens
<1>3. \A v \in Users : StateComing(v)' = StateComing(v)
  BY <1>1 DEF StateComing
<1>4. ASSUME NEW q \in Pairs
      PROVE  /\ Has(q)' /\ q[1] \in shown' /\ q[1] \notin stray' => q[2] \in known'[q[1]] \/ StateComing(q[1])'
             /\ ChainReady(q)' => Has(q)' \/ q[2] \in known'[q[1]] \/ StateComing(q[1])'
  <2>1. CASE q # p
    <3>1. pc'[q] = pc[q] /\ chain'[q] = chain[q] /\ job'[<<q, "chain">>] = job[<<q, "chain">>]
      BY <1>1, <1>2, <2>1 DEF Workers
    <3>2. (Has(q)' <=> Has(q)) /\ (ChainReady(q)' <=> ChainReady(q)) /\ StateComing(q[1])' = StateComing(q[1])
      BY <1>3, <3>1, PairIs DEF Has, ChainReady
    <3> QED BY <1>1, <3>2 DEF GhostInv
  <2>2. CASE q = p
    <3>1. SUFFICES ASSUME p[1] \in shown, p[1] \notin stray'
                   PROVE  p[2] \in known[p[1]] \/ StateComing(p[1])
      BY <1>1, <1>2, <1>3, <2>2, PairIs
    <3>2. p[1] \notin stray
      BY <1>1, <3>1
    <3>3. CASE Has(p)
      BY <3>1, <3>2, <3>3 DEF GhostInv
    <3>4. CASE ~Has(p) /\ w = "chain"
      <4>1. ChainReady(p)
        BY <3>4 DEF Begin, Ready
      <4> QED BY <3>4, <4>1 DEF GhostInv
    <3>5. CASE ~Has(p) /\ w = "join"
      <4>1. p[1] \in Users
        BY PairIs
      <4> QED BY <3>1, <3>5, <4>1 DEF Begin
    <3> QED BY <3>3, <3>4, <3>5 DEF Workers
  <2> QED BY <2>1, <2>2
<1> QED BY <1>4 DEF GhostInv

LEMMA GhostsDelivered ==
  ASSUME Types, MailInv, NumbersInv, WordInv, GhostInv, NEW u \in Users, Deliver(u)
  PROVE  GhostInv'
<1>1. PICK s \in Seq(Notices) : s = down[u]
  BY DEF Types
<1>2. PICK m : m = Head(s)
  OBVIOUS
<1>3. PICK t : t = Tail(s)
  OBVIOUS
<1>4. /\ s # <<>> /\ m \in NoticesOf(u) /\ m \in Notices /\ down'[u] = t /\ Settled(u)
      /\ \A v \in Users \ {u} : down'[v] = down[v] /\ known'[v] = known[v]
      /\ UNCHANGED <<stage, st, shown, job>>
      /\ m.t # "signal" =>
           /\ UNCHANGED <<early, chain>> /\ stray' = stray \ (shown \cap {u})
           /\ IF u \in shown THEN Follows(u, known'[u]) ELSE pc' = pc
      /\ m.t = "signal" =>
           /\ UNCHANGED <<known, pc, stray>>
           /\ IF st[u] = "in"
              THEN chain' = [chain EXCEPT ![<<u, m.peer>>] = Append(@, m.s)] /\ early' = early
              ELSE /\ early' = [early EXCEPT ![u] = Append(@, [peer |-> m.peer, s |-> m.s])]
                   /\ chain' = chain
  BY <1>1, <1>2, <1>3, DeliverIs
<1>5. /\ Len(s) \in Nat /\ Len(t) = Len(s) - 1 /\ Len(s) >= 1 /\ m = s[1]
      /\ \A n \in 1..Len(t) : t[n] = s[n + 1]
  BY <1>2, <1>3, <1>4, HeadTailProperties, LenProperties, EmptySeq
<1>6. \A p \in Pairs : p[1] # u => (Has(p)' <=> Has(p)) /\ chain'[p] = chain[p]
  <2>1. CASE m.t # "signal"
    BY <1>4, <2>1 DEF Follows, Has
  <2>2. CASE m.t = "signal"
    <3>1. PICK q : q = <<u, m.peer>>
      OBVIOUS
    <3>2. q[1] = u
      BY <3>1
    <3>3. chain' = chain \/ chain' = [chain EXCEPT ![q] = Append(@, m.s)]
      BY <1>4, <2>2, <3>1
    <3> QED BY <1>4, <2>2, <3>2, <3>3 DEF Has, Types
  <2> QED BY <2>1, <2>2
<1>7. ASSUME NEW v \in Users, v # u PROVE GhostOf(v)'
  <2>1. GhostOf(v)
    BY GhostIs
  <2>2. /\ StateComing(v) => StateComing(v)'
        /\ known'[v] = known[v] /\ (v \in shown' => v \in shown) /\ (v \in stray => v \in stray')
    BY <1>4, <1>7 DEF StateComing
  <2>3. \A p \in Pairs : p[1] = v =>
           /\ Has(p)' <=> Has(p)
           /\ chain'[p] = chain[p]
           /\ job'[<<p, "chain">>] = job[<<p, "chain">>] \/ Has(p)
    BY <1>4, <1>6, <1>7
  <2> QED BY <2>1, <2>2, <2>3, GhostSame
<1>8. \A p \in Pairs : p[1] = u => ~ChainReady(p)
  BY <1>4, SettledIs
<1>9. CASE m.t # "signal"
  <2>1. ASSUME NEW p \in Pairs, p[1] = u
        PROVE  /\ Has(p)' /\ u \in shown' /\ u \notin stray' => p[2] \in known'[u] \/ StateComing(u)'
               /\ ChainReady(p)' => Has(p)' \/ p[2] \in known'[u] \/ StateComing(u)'
    <3>1. ~ChainReady(p)'
      BY <1>4, <1>8, <1>9, <2>1 DEF ChainReady
    <3>2. u \in shown' /\ Has(p)' => p[2] \in known'[u]
      BY <1>4, <1>9, <2>1 DEF Follows
    <3> QED BY <3>1, <3>2
  <2>2. \A v \in Users : GhostOf(v)'
    BY <1>7, <2>1 DEF GhostOf
  <2> QED BY <2>2, PairIs DEF GhostInv, GhostOf
<1>10. CASE m.t = "signal"
  <2>1. StateComing(u) => StateComing(u)'
    <3>1. SUFFICES ASSUME stage[u] = "open", StateComing(u) PROVE \E n \in 1..Len(t) : t[n].t = "state"
      BY <1>4 DEF StateComing
    <3>2. PICK n \in 1..Len(s) : s[n].t = "state"
      BY <1>1, <3>1 DEF StateComing
    <3>3. n # 1
      BY <1>5, <1>10, <3>2
    <3>4. n - 1 \in 1..Len(t) /\ (n - 1) + 1 = n
      BY <1>5, <3>3
    <3> QED BY <1>5, <3>2, <3>4
  <2>2. ASSUME NEW p \in Pairs, p[1] = u, Has(p)', u \in shown', u \notin stray'
        PROVE  p[2] \in known'[u] \/ StateComing(u)'
    BY <1>4, <1>10, <2>1, <2>2 DEF GhostInv, Has
  <2>3. ASSUME NEW p \in Pairs, p[1] = u, ChainReady(p)'
        PROVE  Has(p)' \/ p[2] \in known'[u] \/ StateComing(u)'
    <3>1. chain'[p] # chain[p]
      BY <1>4, <1>8, <2>3 DEF ChainReady
    <3>2. m.peer \in Users
      BY <1>4, <1>10, NoticeIs
    <3>3. PICK q : q = <<u, m.peer>>
      OBVIOUS
    <3>4. q[2] = m.peer
      BY <3>3
    <3>5. chain' = chain \/ chain' = [chain EXCEPT ![q] = Append(@, m.s)]
      BY <1>4, <1>10, <3>3
    <3>6. p = q
      BY <3>1, <3>5 DEF Types
    <3>7. CASE stage[u] # "open"
      BY <1>4, <3>7 DEF StateComing
    <3>8. CASE stage[u] = "open"
      <4>1. Announced(s, known[u], 1, m.peer)
        BY <1>1, <1>5, <1>10, <3>8 DEF WordInv
      <4>2. PICK K : K = known[u]
        OBVIOUS
      <4>3. PICK v : v = m.peer
        OBVIOUS
      <4>4. Announced(s, K, 1, v)
        BY <4>1, <4>2, <4>3
      <4>5. CASE \E n \in (1 + 1)..Len(s) : s[n].t = "state"
        <5>1. PICK n \in (1 + 1)..Len(s) : s[n].t = "state"
          BY <4>5
        <5>2. n - 1 \in 1..Len(t) /\ (n - 1) + 1 = n
          BY <1>5, <5>1
        <5>3. t[n - 1].t = "state"
          BY <1>5, <5>1, <5>2
        <5> QED BY <1>4, <5>2, <5>3 DEF StateComing
      <4>6. CASE ~\E n \in (1 + 1)..Len(s) : s[n].t = "state"
        <5>1. ~\E n \in 1..1 : Says(s[n], v)
          BY <1>5, <1>10 DEF Says
        <5>2. v \in K
          BY <4>4, <4>6, <5>1 DEF Announced
        <5> QED BY <1>4, <1>10, <3>4, <3>6, <4>2, <4>3, <5>2
      <4> QED BY <4>5, <4>6
    <3> QED BY <3>7, <3>8
  <2>4. GhostOf(u)'
    BY <2>2, <2>3 DEF GhostOf
  <2>5. \A v \in Users : GhostOf(v)'
    BY <1>7, <2>4
  <2> QED BY <2>5, PairIs DEF GhostInv, GhostOf
<1> QED BY <1>9, <1>10

LEMMA GhostsKept ==
  ASSUME Types, MailInv, NumbersInv, VoiceInv, WordInv, GhostInv, [Next]_vars
  PROVE  GhostInv'
<1>1. CASE UNCHANGED vars
  BY <1>1 DEF vars, GhostInv, Has, ChainReady, StateComing
<1>2. CASE Next
  BY <1>2, GhostsServed, GhostsEntering, GhostsOfEngine, GhostsBeginning, GhostsDelivered
     DEF Next, Machine, Engine
<1> QED BY <1>1, <1>2
----------------------------------------------------------------------------
(* Offers of the impolite side. *)

\* An own offer that a worker may take another for: none is out, or one is
\* excepted.
Free(r) == r.sig # "offer" \/ r.setting \/ r.implied

\* A worker of the impolite side that has an offer to set.
Clear(p, w) == Alive(p, w) /\ job[<<p, w>>].at = "offer" /\ ~Polite(p[1], p[2]) =>
                 ~pc[p].making /\ Free(pc[p])

\* A job is about a connection that exists or existed.
BornInv == \A p \in Pairs, w \in Workers : job[<<p, w>>] # None => job[<<p, w>>].born <= gens[p[1]]

OwnInv == BornInv /\ \A p \in Pairs, w \in Workers : Clear(p, w)

\* The step does not take another offer for the own one.
Stands(p) == /\ ~Polite(p[1], p[2]) /\ pc[p] # None /\ pc'[p] # None
             /\ pc[p].sig = "offer" /\ ~pc[p].setting /\ ~pc[p].implied
             => pc'[p].sig # "remote"

OwnKept == OwnInv' /\ \A p \in Pairs : Stands(p)

LEMMA BornKept ==
  ASSUME Types, Types', BornInv, Grow,
         \A p \in Pairs, w \in Workers : job'[<<p, w>>] # None =>
           \/ job[<<p, w>>] # None /\ job'[<<p, w>>].born = job[<<p, w>>].born
           \/ Has(p)' /\ Fits(pc[p], p)' /\ job'[<<p, w>>].born = pc'[p].born
  PROVE  BornInv'
<1>1. SUFFICES ASSUME NEW p \in Pairs, NEW w \in Workers, job'[<<p, w>>] # None
               PROVE  job'[<<p, w>>].born <= gens'[p[1]]
  BY DEF BornInv
<1>2. p[1] \in Users /\ gens[p[1]] \in Nat /\ gens'[p[1]] \in Nat /\ gens[p[1]] <= gens'[p[1]]
  BY PairIs DEF Types, Grow
<1>3. CASE job[<<p, w>>] # None /\ job'[<<p, w>>].born = job[<<p, w>>].born
  <2>1. job[<<p, w>>].born \in Nat /\ job[<<p, w>>].born <= gens[p[1]]
    BY <1>3 DEF Types, Awaited, BornInv
  <2> QED BY <1>2, <1>3, <2>1
<1>4. CASE Has(p)' /\ Fits(pc[p], p)' /\ job'[<<p, w>>].born = pc'[p].born
  <2>1. pc'[p].born <= pc'[p].gen /\ pc'[p].gen <= gens'[p[1]]
        /\ pc'[p].born \in Nat /\ pc'[p].gen \in Nat
    BY <1>4 DEF Fits, Peers
  <2> QED BY <1>2, <1>4, <2>1
<1> QED BY <1>1, <1>3, <1>4

\* Steps that leave the state of the offers alone, or close connections, or
\* open them.
LEMMA OwnStays ==
  ASSUME Types, Types', OwnInv, Grow, \A x \in Pairs \X Workers : job'[x] \in {job[x], None},
         \A p \in Pairs : Has(p)' =>
           \/ /\ Has(p) /\ pc'[p].born = pc[p].born /\ pc'[p].sig = pc[p].sig
              /\ pc'[p].making = pc[p].making /\ pc'[p].setting = pc[p].setting
              /\ pc'[p].implied = pc[p].implied
           \/ ~Has(p) /\ pc'[p].born > gens[p[1]]
  PROVE  OwnKept
<1>1. \A p \in Pairs, w \in Workers : job'[<<p, w>>] # None => job'[<<p, w>>] = job[<<p, w>>]
  OBVIOUS
<1>2. BornInv'
  BY <1>1, BornKept DEF OwnInv
<1>3. ASSUME NEW p \in Pairs, NEW w \in Workers, Alive(p, w)' PROVE Clear(p, w)'
  <2>1. job'[<<p, w>>] = job[<<p, w>>] /\ Has(p)' /\ job[<<p, w>>] # None /\ job[<<p, w>>].born = pc'[p].born
    BY <1>1, <1>3 DEF Alive
  <2>2. CASE ~Has(p)
    <3>1. pc'[p].born > gens[p[1]] /\ pc'[p].born <= gens[p[1]]
      BY <2>1, <2>2 DEF OwnInv, BornInv
    <3>2. gens[p[1]] \in Nat /\ pc'[p].born \in Nat
      BY <2>1, PairIs DEF Types, Awaited
    <3> QED BY <3>1, <3>2
  <2>3. CASE Has(p)
    <3>1. /\ pc'[p].born = pc[p].born /\ pc'[p].sig = pc[p].sig
          /\ pc'[p].making = pc[p].making /\ pc'[p].setting = pc[p].setting
          /\ pc'[p].implied = pc[p].implied
      BY <2>1, <2>3
    <3>2. Alive(p, w) /\ Clear(p, w)
      BY <2>1, <2>3, <3>1 DEF Alive, OwnInv
    <3> QED BY <2>1, <3>1, <3>2 DEF Clear, Free
  <2> QED BY <2>2, <2>3
<1>4. ASSUME NEW p \in Pairs PROVE Stands(p)
  <2>1. Has(p) /\ Has(p)' => pc'[p].sig = pc[p].sig
    OBVIOUS
  <2> QED BY <2>1 DEF Stands, Has
<1>5. \A p \in Pairs, w \in Workers : Clear(p, w)'
  BY <1>3 DEF Clear
<1> QED BY <1>2, <1>4, <1>5 DEF OwnKept, OwnInv

\* Steps of one connection and of one job at most.
LEMMA OwnOfOne ==
  ASSUME OwnInv, BornInv', NEW p \in Pairs,
         \A q \in Pairs \ {p} : /\ pc'[q] = pc[q]
                                /\ \A w \in Workers : job'[<<q, w>>] = job[<<q, w>>],
         \A w \in Workers : Clear(p, w)', Stands(p)
  PROVE  OwnKept
<1>1. ASSUME NEW q \in Pairs, NEW w \in Workers PROVE Clear(q, w)' /\ Stands(q)
  <2>1. CASE q = p
    BY <2>1
  <2>2. CASE q # p
    <3>1. pc'[q] = pc[q] /\ job'[<<q, w>>] = job[<<q, w>>] /\ Clear(q, w)
      BY <2>2 DEF OwnInv
    <3> QED BY <3>1 DEF Clear, Alive, Has, Stands
  <2> QED BY <2>1, <2>2
<1>2. \A q \in Pairs : Stands(q)
  BY <1>1 DEF Workers
<1> QED BY <1>1, <1>2 DEF OwnKept, OwnInv

LEMMA BeginsClear ==
  ASSUME Types, MailInv, NumbersInv, OwnInv, NEW p \in Pairs, NEW w \in Workers, Begin(p, w)
  PROVE  OwnKept
<1> DEFINE fresh == NewPeer(p[1], gens[p[1]] + 1)
<1>1. PICK s : s = NextOf(p, w)
  OBVIOUS
<1>2. s \in Signals /\ p[1] \in Users /\ gens[p[1]] \in Nat /\ gens[p[1]] + 1 \in Nat
  BY <1>1, ReadyIs, PairIs DEF Begin, SignalsOf, Types
<1>3. PICK r : r = IF Has(p) THEN pc[p] ELSE fresh
  OBVIOUS
<1>4. pc' = [pc EXCEPT ![p] = Begun(p, r, s)] /\ job' = [job EXCEPT ![<<p, w>>] = Awaits(p, r, s)]
  BY <1>1, <1>3 DEF Begin
<1>5. fresh \in Peers /\ fresh.born = gens[p[1]] + 1 /\ fresh.sig = "stable" /\ ~fresh.making
  BY <1>2, NewPeerIs
<1> HIDE DEF fresh
<1>6. r \in Peers
  BY <1>3, <1>5, HasIs
<1>7. PICK b : b = Begun(p, r, s)
  OBVIOUS
<1>8. PICK a : a = Awaits(p, r, s)
  OBVIOUS
<1>9. /\ b.born = r.born /\ b.sig = r.sig /\ b.making = r.making /\ b.implied = r.implied
      /\ r.setting => b.setting
      /\ b.born \in Nat
  <2>1. PICK h : h = r.held \cup {s.gen}
    OBVIOUS
  <2>2. PICK c : c = (r.cand \/ s.gen = r.remote)
    OBVIOUS
  <2>3. \/ b = [r EXCEPT !.setting = TRUE] \/ b = [r EXCEPT !.held = h]
        \/ b = [r EXCEPT !.cand = c] \/ b = r
    BY <1>7, <2>1, <2>2 DEF Begun
  <2> QED BY <1>6, <2>3 DEF Peers
<1>10. a # None => /\ a.born = b.born
                   /\ a.at = "offer" /\ ~Polite(p[1], p[2]) => ~b.making /\ Free(b)
  <2>1. SUFFICES ASSUME a # None
                 PROVE  /\ a.born = b.born
                        /\ a.at = "offer" /\ ~Polite(p[1], p[2]) => ~b.making /\ Free(b)
    OBVIOUS
  <2>2. /\ a = [at |-> s.kind, gen |-> s.gen, born |-> r.born]
        /\ ~(s.kind = "offer" /\ Collides(r) /\ ~Polite(p[1], p[2]))
    BY <1>8, <2>1 DEF Awaits
  <2>3. a.born = r.born /\ a.at = s.kind
    BY <2>2
  <2> QED BY <1>9, <2>2, <2>3 DEF Collides, Free
<1>11. /\ pc'[p] = b /\ \A q \in Pairs \ {p} : pc'[q] = pc[q]
       /\ job'[<<p, w>>] = a /\ \A x \in Pairs \X Workers : x # <<p, w>> => job'[x] = job[x]
  BY <1>4, <1>7, <1>8 DEF Types
<1>12. Has(p)' /\ Fits(pc[p], p)' /\ Grow /\ Types'
  BY BeginOpens, SignalKeeps DEF Kept
<1>13. BornInv'
  <2>1. ASSUME NEW q \in Pairs, NEW v \in Workers, job'[<<q, v>>] # None
        PROVE  \/ job[<<q, v>>] # None /\ job'[<<q, v>>].born = job[<<q, v>>].born
               \/ Has(q)' /\ Fits(pc[q], q)' /\ job'[<<q, v>>].born = pc'[q].born
    <3>1. CASE q = p /\ v = w
      BY <1>10, <1>11, <1>12, <2>1, <3>1
    <3>2. CASE ~(q = p /\ v = w)
      <4>1. job'[<<q, v>>] = job[<<q, v>>]
        BY <1>11, <3>2
      <4> QED BY <2>1, <4>1
    <3> QED BY <3>1, <3>2
  <2> QED BY <1>12, <2>1, BornKept DEF OwnInv
<1>14. ASSUME NEW v \in Workers, Alive(p, v)' PROVE Clear(p, v)'
  <2>1. CASE v = w
    BY <1>10, <1>11, <1>14, <2>1 DEF Clear, Alive
  <2>2. CASE v # w
    <3>1. job'[<<p, v>>] = job[<<p, v>>]
      BY <1>11, <2>2
    <3>2. job[<<p, v>>] # None /\ job[<<p, v>>].born = b.born /\ job[<<p, v>>].born <= gens[p[1]]
      BY <1>11, <1>14, <3>1 DEF Alive, OwnInv, BornInv
    <3>3. Has(p) /\ r = pc[p]
      BY <1>2, <1>3, <1>5, <1>9, <3>2
    <3>4. Alive(p, v) /\ Clear(p, v)
      BY <1>9, <3>2, <3>3 DEF Alive, OwnInv
    <3> QED BY <1>9, <1>11, <3>1, <3>3, <3>4 DEF Clear, Free
  <2> QED BY <2>1, <2>2
<1>15. Stands(p)
  BY <1>3, <1>9, <1>11 DEF Stands, Has
<1>16. \A v \in Workers : Clear(p, v)'
  BY <1>14 DEF Clear
<1>17. ASSUME NEW q \in Pairs \ {p}, NEW v \in Workers PROVE job'[<<q, v>>] = job[<<q, v>>]
  BY <1>11
<1> QED BY <1>11, <1>13, <1>15, <1>16, <1>17, OwnOfOne

\* The steps that follow a beginning.
LEMMA HandledClear ==
  ASSUME Types, MailInv, NumbersInv, OwnInv, NEW p \in Pairs, NEW w \in Workers,
         AddCandidate(p, w) \/ SetOffer(p, w) \/ Reply(p, w) \/ SetAnswer(p, w)
  PROVE  OwnKept
<1>1. Has(p) /\ job[<<p, w>>] # None /\ Alive(p, w)
  BY DEF AddCandidate, SetOffer, Reply, SetAnswer, Alive
<1>2. Types' /\ Retuned /\ Grow
  BY EngineKeeps DEF Kept, Retuned
<1>3. PICK o \in Peers : o = pc[p]
  BY <1>1, HasIs
<1>4. PICK r : /\ pc' = [pc EXCEPT ![p] = r] /\ r.born = o.born
               /\ \/ r.sig = o.sig /\ r.making = o.making /\ r.setting = o.setting /\ r.implied = o.implied
                  \/ r.sig = "remote" /\ r.making = o.making /\ SetOffer(p, w)
                  \/ r.sig = "stable" /\ r.making = o.making
                  \/ r.sig = "offer" /\ r.making = o.making /\ r.setting = o.setting
                     /\ (o.sig = "stable" \/ o.implied => r.implied) /\ o.sig # "remote"
  <2>1. CASE AddCandidate(p, w)
    <3>1. PICK c : c = (o.cand \/ job[<<p, w>>].gen = o.remote)
      OBVIOUS
    <3>2. PICK r : r = [o EXCEPT !.cand = c]
      OBVIOUS
    <3>3. pc' = [pc EXCEPT ![p] = r]
      BY <1>3, <2>1, <3>1, <3>2 DEF AddCandidate
    <3>4. r.born = o.born /\ r.sig = o.sig /\ r.making = o.making /\ r.setting = o.setting
          /\ r.implied = o.implied
      BY <3>2 DEF Peers
    <3> QED BY <3>3, <3>4
  <2>2. CASE SetOffer(p, w)
    <3>1. PICK g : g = job[<<p, w>>].gen
      OBVIOUS
    <3>2. PICK n : n = (o.need \/ o.sig = "offer")
      OBVIOUS
    <3>3. PICK k : k = IF o.remote \notin {Nothing, g} THEN gens[p[1]] + 1 ELSE o.gen
      OBVIOUS
    <3>4. PICK d : d = Described(o, g)
      OBVIOUS
    <3>5. PICK r : r = [d EXCEPT !.sig = "remote", !.need = n, !.gen = k]
      OBVIOUS
    <3>6. pc' = [pc EXCEPT ![p] = r]
      BY <1>3, <2>2, <3>1, <3>2, <3>3, <3>4, <3>5 DEF SetOffer
    <3>7. d.born = o.born /\ d.making = o.making /\ d \in Peers
      <4>1. g \in Nat
        BY <1>1, <3>1 DEF Types, Awaited
      <4>2. d.making = o.making
        BY <3>4 DEF Described, Peers
      <4> QED BY <3>4, <4>1, <4>2, DescribedIs
    <3>8. r.born = o.born /\ r.sig = "remote" /\ r.making = o.making
      BY <3>5, <3>7 DEF Peers
    <3> QED BY <2>2, <3>6, <3>8
  <2>3. CASE Reply(p, w)
    <3>1. PICK i \in BOOLEAN : i = (o.implied \/ o.sig = "stable")
      BY DEF Peers
    <3>2. PICK r : r = IF o.sig = "remote" THEN [o EXCEPT !.sig = "stable"]
                       ELSE [o EXCEPT !.sig = "offer", !.implied = i]
      OBVIOUS
    <3>3. pc' = [pc EXCEPT ![p] = r]
      BY <1>3, <2>3, <3>1, <3>2 DEF Reply
    <3>4. r.born = o.born /\ r.making = o.making
      BY <3>2 DEF Peers
    <3>5. \/ r.sig = "stable"
          \/ r.sig = "offer" /\ r.setting = o.setting /\ r.implied = i /\ o.sig # "remote"
      BY <3>2 DEF Peers
    <3> QED BY <3>1, <3>3, <3>4, <3>5
  <2>4. CASE SetAnswer(p, w)
    <3>1. CASE o.sig = "offer"
      <4>1. PICK g : g = job[<<p, w>>].gen
        OBVIOUS
      <4>2. PICK d : d = Described(o, g)
        OBVIOUS
      <4>3. PICK r : r = [d EXCEPT !.sig = "stable", !.setting = FALSE]
        OBVIOUS
      <4>4. pc' = [pc EXCEPT ![p] = r]
        BY <1>3, <2>4, <3>1, <4>1, <4>2, <4>3 DEF SetAnswer
      <4>5. d.born = o.born /\ d.making = o.making /\ d \in Peers
        <5>1. g \in Nat
          BY <1>1, <4>1 DEF Types, Awaited
        <5>2. d.making = o.making
          BY <4>2 DEF Described, Peers
        <5> QED BY <4>2, <5>1, <5>2, DescribedIs
      <4>6. r.born = o.born /\ r.sig = "stable" /\ r.making = o.making
        BY <4>3, <4>5 DEF Peers
      <4> QED BY <4>4, <4>6
    <3>2. CASE o.sig # "offer"
      <4>1. pc' = [pc EXCEPT ![p] = o]
        BY <1>3, <2>4, <3>2 DEF SetAnswer, Types
      <4> QED BY <4>1
    <3> QED BY <3>1, <3>2
  <2> QED BY <2>1, <2>2, <2>3, <2>4
<1>5. /\ pc'[p] = r /\ \A q \in Pairs \ {p} : pc'[q] = pc[q]
  BY <1>4 DEF Types
<1>6. /\ \A x \in Pairs \X Workers : x # <<p, w>> => job'[x] = job[x]
      /\ job'[<<p, w>>] # None => job'[<<p, w>>].at = "reply" /\ job'[<<p, w>>].born = job[<<p, w>>].born
  <2>1. CASE job' = [job EXCEPT ![<<p, w>>] = None]
    BY <2>1 DEF Types
  <2>2. CASE job' = [job EXCEPT ![<<p, w>>].at = "reply"]
    <3>1. PICK x \in Pairs \X Workers : x = <<p, w>>
      OBVIOUS
    <3>2. PICK a \in Awaited : a = job[x]
      BY <1>1, <3>1 DEF Types
    <3>3. PICK c : c = [a EXCEPT !.at = "reply"]
      OBVIOUS
    <3>4. c.at = "reply" /\ c.born = a.born
      BY <3>3 DEF Awaited
    <3>5. job' = [job EXCEPT ![x] = c]
      BY <2>2, <3>1, <3>2, <3>3
    <3> QED BY <3>1, <3>2, <3>4, <3>5 DEF Types
  <2> QED BY <2>1, <2>2 DEF AddCandidate, SetOffer, Reply, SetAnswer
<1>7. ASSUME NEW q \in Pairs, NEW v \in Workers
      PROVE  /\ ~(q = p /\ v = w) => job'[<<q, v>>] = job[<<q, v>>]
             /\ job'[<<q, v>>] # None => job[<<q, v>>] # None /\ job'[<<q, v>>].born = job[<<q, v>>].born
  <2>1. CASE q = p /\ v = w
    BY <1>1, <1>6, <2>1
  <2>2. CASE ~(q = p /\ v = w)
    BY <1>6, <2>2
  <2> QED BY <2>1, <2>2
<1>8. BornInv'
  BY <1>2, <1>7, BornKept DEF OwnInv
<1>9. ASSUME NEW v \in Workers, Alive(p, v)', job'[<<p, v>>].at = "offer", ~Polite(p[1], p[2])
      PROVE  ~pc'[p].making /\ Free(pc'[p])
  <2>1. v # w
    BY <1>6, <1>9 DEF Alive
  <2>2. job'[<<p, v>>] = job[<<p, v>>]
    BY <1>7, <2>1
  <2>3. Alive(p, v) /\ Clear(p, v)
    BY <1>1, <1>3, <1>4, <1>5, <1>9, <2>2 DEF Alive, OwnInv
  <2>4. ~o.making /\ Free(o)
    BY <1>3, <1>9, <2>2, <2>3 DEF Clear
  <2>5. o.sig \in {"stable", "offer", "remote"}
    BY DEF Peers
  <2> QED BY <1>4, <1>5, <2>4, <2>5 DEF Free
<1>10. Stands(p)
  <2>1. SUFFICES ASSUME ~Polite(p[1], p[2]), o.sig = "offer", ~o.setting, ~o.implied, r.sig = "remote"
                 PROVE  FALSE
    BY <1>3, <1>5 DEF Stands
  <2>2. SetOffer(p, w)
    BY <1>4, <2>1
  <2>3. job[<<p, w>>].at = "offer"
    BY <2>2 DEF SetOffer
  <2>4. Free(o)
    BY <1>1, <1>3, <2>1, <2>3 DEF OwnInv, Clear
  <2> QED BY <2>1, <2>4 DEF Free
<1>11. \A v \in Workers : Clear(p, v)'
  BY <1>9 DEF Clear
<1>12. ASSUME NEW q \in Pairs \ {p}, NEW v \in Workers PROVE job'[<<q, v>>] = job[<<q, v>>]
  BY <1>7
<1> QED BY <1>5, <1>8, <1>10, <1>11, <1>12, OwnOfOne

\* Offers are made, and timers fire, while no worker takes an offer up.
LEMMA IdleClear ==
  ASSUME Types, MailInv, NumbersInv, OwnInv, NEW p \in Pairs,
         Negotiate(p) \/ Offered(p) \/ Timers(p) \/ IceFails(p)
  PROVE  OwnKept
<1>1. Has(p) /\ job' = job
  BY DEF Negotiate, CanNegotiate, Offered, Timers, StopWaiting, Reoffer, Restart, IceFails, Due, TimerVars
<1>2. Types' /\ Retuned /\ Grow
  BY EngineKeeps DEF Kept, Retuned
<1>3. BornInv'
  BY <1>1, <1>2, BornKept DEF OwnInv
<1>4. PICK o \in Peers : o = pc[p]
  BY <1>1, HasIs
<1>5. ASSUME NEW w \in Workers, Alive(p, w), job[<<p, w>>].at = "offer" PROVE Polite(p[1], p[2])
  <2>1. CASE Offered(p)
    BY <1>5, <2>1 DEF Offered, OwnInv, Clear
  <2>2. CASE ~Offered(p)
    <3>1. ~Busy(p)
      BY <2>2 DEF Negotiate, CanNegotiate, Timers, StopWaiting, Reoffer, Restart, IceFails, Due
    <3> QED BY <1>5, <3>1 DEF Busy
  <2> QED BY <2>1, <2>2
<1>6. PICK r : pc' = [pc EXCEPT ![p] = r] /\ r.born = o.born /\ (r.sig = o.sig \/ r.sig \in {"offer", "stable"})
  <2>1. CASE Negotiate(p)
    <3>1. PICK r : r = IF Holds(p) THEN [o EXCEPT !.waiting = TRUE] ELSE [o EXCEPT !.making = TRUE, !.need = FALSE]
      OBVIOUS
    <3>2. pc' = [pc EXCEPT ![p] = r]
      BY <1>4, <2>1, <3>1 DEF Negotiate
    <3>3. r.born = o.born /\ r.sig = o.sig
      BY <3>1 DEF Peers
    <3> QED BY <3>2, <3>3
  <2>2. CASE Offered(p)
    <3>1. PICK g : g = IF o.fresh THEN gens[p[1]] + 1 ELSE o.gen
      OBVIOUS
    <3>2. PICK r : r = [o EXCEPT !.making = FALSE, !.fresh = FALSE, !.sig = "offer", !.gen = g, !.implied = FALSE]
      OBVIOUS
    <3>3. pc' = [pc EXCEPT ![p] = r]
      BY <1>4, <2>2, <3>1, <3>2 DEF Offered
    <3>4. r.born = o.born /\ r.sig = "offer"
      BY <3>2 DEF Peers
    <3> QED BY <3>3, <3>4
  <2>3. CASE Timers(p) \/ IceFails(p)
    <3>1. PICK n : n = o.reoffers + 1
      OBVIOUS
    <3>2. PICK k : k = o.restarts + 1
      OBVIOUS
    <3>3. PICK r : /\ pc' = [pc EXCEPT ![p] = r]
                   /\ \/ r = [o EXCEPT !.waiting = FALSE, !.may = TRUE, !.making = TRUE, !.need = FALSE]
                      \/ r = [o EXCEPT !.waiting = FALSE]
                      \/ r = [o EXCEPT !.sig = "stable", !.need = TRUE, !.fresh = TRUE, !.reoffers = n]
                      \/ r = [o EXCEPT !.need = TRUE, !.fresh = TRUE, !.restarts = k]
                      \/ r = [o EXCEPT !.need = TRUE, !.fresh = TRUE, !.failed = TRUE]
      <4>1. CASE StopWaiting(p)
        BY <1>4, <4>1 DEF StopWaiting
      <4>2. CASE Reoffer(p)
        BY <1>4, <3>1, <4>2 DEF Reoffer
      <4>3. CASE Restart(p)
        BY <1>4, <3>2, <4>3 DEF Restart
      <4>4. CASE IceFails(p)
        BY <1>4, <4>4 DEF IceFails
      <4> QED BY <2>3, <4>1, <4>2, <4>3, <4>4 DEF Timers
    <3>4. r.born = o.born /\ (r.sig = o.sig \/ r.sig \in {"offer", "stable"})
      BY <3>3 DEF Peers
    <3> QED BY <3>3, <3>4
  <2> QED BY <2>1, <2>2, <2>3
<1>7. pc'[p] = r /\ \A q \in Pairs \ {p} : pc'[q] = pc[q]
  BY <1>6 DEF Types
<1>8. ASSUME NEW w \in Workers, Alive(p, w)' PROVE Alive(p, w)
  BY <1>1, <1>4, <1>6, <1>7, <1>8 DEF Alive
<1>9. \A w \in Workers : Clear(p, w)'
  BY <1>1, <1>5, <1>8 DEF Clear
<1>10. Stands(p)
  BY <1>4, <1>6, <1>7 DEF Stands
<1> QED BY <1>1, <1>3, <1>7, <1>9, <1>10, OwnOfOne

\* The other steps.
LEMMA OthersClear ==
  ASSUME Types, MailInv, NumbersInv, OwnInv,
         \/ \E u \in Users : \/ Machine(u) \/ Unheard(u) \/ Drop(u) \/ Evict(u)
                             \/ PressJoin(u) \/ NoMicrophone(u) \/ Enter(u) \/ Leave(u) \/ ShareScreen(u)
         \/ \E p \in Pairs : IceUp(p) \/ IceLost(p)
         \/ UNCHANGED vars
  PROVE  OwnKept
<1>1. Types'
  BY StepKeeps DEF Next, Engine, Kept
<1>2. ASSUME pc' = pc, job' = job, Grow PROVE OwnKept
  <2>1. \A p \in Pairs : Has(p)' => Has(p)
    BY <1>2 DEF Has
  <2> QED BY <1>1, <1>2, <2>1, OwnStays
<1>3. ASSUME NEW u \in Users, NEW M, Follows(u, M), job' = job, Grow PROVE OwnKept
  <2>1. ASSUME NEW p \in Pairs, Has(p)'
        PROVE  \/ Has(p) /\ pc'[p] = pc[p]
               \/ ~Has(p) /\ pc'[p].born > gens[p[1]]
    BY <1>3, <2>1 DEF Follows, Has
  <2> QED BY <1>1, <1>3, <2>1, OwnStays
<1>4. ASSUME NEW u \in Users, pc' = ClosedAll(u), job' = job, Grow PROVE OwnKept
  <2>1. ASSUME NEW p \in Pairs, Has(p)' PROVE Has(p) /\ pc'[p] = pc[p]
    BY <1>4, <2>1, ClosedAllIs DEF Has
  <2> QED BY <1>1, <1>4, <2>1, OwnStays
<1>5. CASE UNCHANGED vars
  BY <1>2, <1>5, SameGrow DEF vars
<1>6. ASSUME NEW u \in Users, Serve(u) \/ Attach(u) \/ Welcome(u) \/ Unheard(u) \/ Drop(u) \/ Evict(u)
      PROVE  OwnKept
  <2>1. UNCHANGED clientVars
    BY <1>6 DEF Serve, Attach, Welcome, Unheard, Drop, Evict
  <2> QED BY <1>2, <2>1, SameGrow DEF clientVars
<1>7. ASSUME NEW u \in Users, PressJoin(u) \/ NoMicrophone(u) \/ Enter(u) PROVE OwnKept
  <2>1. UNCHANGED <<pc, job, gens>>
    BY <1>7 DEF PressJoin, NoMicrophone, Enter
  <2> QED BY <1>2, <2>1, SameGrow
<1>8. ASSUME NEW u \in Users, Reopen(u) \/ Leave(u) PROVE OwnKept
  <2>1. UNCHANGED <<job, gens>> /\ (pc' = ClosedAll(u) \/ pc' = pc)
    BY <1>8 DEF Reopen, Leave
  <2> QED BY <1>2, <1>4, <2>1, SameGrow
<1>9. ASSUME NEW u \in Users, Render(u) PROVE OwnKept
  <2>1. Follows(u, known[u]) /\ Grow /\ job' = job
    BY <1>9, ComparedFollows DEF Render
  <2> QED BY <1>3, <2>1
<1>10. ASSUME NEW u \in Users, Deliver(u) PROVE OwnKept
  <2>1. PICK m : m = Head(down[u])
    OBVIOUS
  <2>2. /\ job' = job /\ Grow
        /\ m.t # "signal" => IF u \in shown THEN Follows(u, known'[u]) ELSE pc' = pc
        /\ m.t = "signal" => pc' = pc
    BY <1>10, <2>1, DeliverIs
  <2> QED BY <1>2, <1>3, <2>2
<1>11. ASSUME NEW u \in Users, ShareScreen(u) PROVE OwnKept
  <2>1. job' = job /\ Grow /\ \A p \in Pairs : Has(p)' <=> Has(p)
    BY <1>11, ScreenTunes DEF ShareScreen, Retuned
  <2>2. ASSUME NEW p \in Pairs, Has(p)
        PROVE  /\ pc'[p].born = pc[p].born /\ pc'[p].sig = pc[p].sig
               /\ pc'[p].making = pc[p].making /\ pc'[p].setting = pc[p].setting
               /\ pc'[p].implied = pc[p].implied
    <3>1. PICK o \in Peers : o = pc[p]
      BY <2>2, HasIs
    <3>2. PICK r : r = pc'[p]
      OBVIOUS
    <3>3. r = o \/ r = [o EXCEPT !.need = TRUE]
      BY <1>11, <2>2, <3>1, <3>2 DEF ShareScreen
    <3>4. r.born = o.born /\ r.sig = o.sig /\ r.making = o.making /\ r.setting = o.setting
          /\ r.implied = o.implied
      BY <3>3 DEF Peers
    <3> QED BY <3>1, <3>2, <3>4
  <2> QED BY <1>1, <2>1, <2>2, OwnStays
<1>12. ASSUME NEW p \in Pairs, IceUp(p) \/ IceLost(p) PROVE OwnKept
  <2>1. job' = job /\ Grow /\ \A x \in Pairs : Has(x)' <=> Has(x)
    BY <1>12, IceTunes DEF IceUp, IceLost, Retuned
  <2>2. PICK q \in Pairs : q = Mirror(p)
    BY PairIs
  <2>3. ASSUME NEW x \in Pairs, Has(x)
        PROVE  /\ pc'[x].born = pc[x].born /\ pc'[x].sig = pc[x].sig
               /\ pc'[x].making = pc[x].making /\ pc'[x].setting = pc[x].setting
               /\ pc'[x].implied = pc[x].implied
    <3>1. PICK o \in Peers : o = pc[x]
      BY <2>3, HasIs
    <3>2. PICK r : r = pc'[x]
      OBVIOUS
    <3>3. r = o \/ r = [o EXCEPT !.ice = FALSE] \/ r = [o EXCEPT !.ice = TRUE, !.restarts = 0]
      <4>1. CASE IceLost(p)
        BY <3>1, <3>2, <4>1 DEF IceLost, Types
      <4>2. CASE IceUp(p)
        <5>1. p # q
          BY <2>2, PairIs DEF Mirror
        <5> QED BY <2>2, <3>1, <3>2, <4>2, <5>1 DEF IceUp, Types
      <4> QED BY <1>12, <4>1, <4>2
    <3>4. r.born = o.born /\ r.sig = o.sig /\ r.making = o.making /\ r.setting = o.setting
          /\ r.implied = o.implied
      BY <3>3 DEF Peers
    <3> QED BY <3>1, <3>2, <3>4
  <2> QED BY <1>1, <2>1, <2>3, OwnStays
<1> QED BY <1>5, <1>6, <1>7, <1>8, <1>9, <1>10, <1>11, <1>12 DEF Machine

LEMMA OwnStep ==
  ASSUME Types, MailInv, NumbersInv, OwnInv, [Next]_vars
  PROVE  OwnKept
<1>1. CASE \E p \in Pairs, w \in Workers : Begin(p, w)
  BY <1>1, BeginsClear
<1>2. CASE \E p \in Pairs, w \in Workers : AddCandidate(p, w) \/ SetOffer(p, w) \/ Reply(p, w) \/ SetAnswer(p, w)
  BY <1>2, HandledClear
<1>3. CASE \E p \in Pairs : Negotiate(p) \/ Offered(p) \/ Timers(p) \/ IceFails(p)
  BY <1>3, IdleClear
<1> QED BY <1>1, <1>2, <1>3, OthersClear DEF Next, Engine
----------------------------------------------------------------------------
(* The invariant, and what follows from it. *)

LEMMA Begins == Init => IInv
<1>1. SUFFICES ASSUME Init PROVE IInv
  OBVIOUS
<1>2. \A u \in Users : up[u] = <<>> /\ early[u] = <<>> /\ replay[u] = <<>> /\ st[u] = "idle"
  BY <1>1 DEF Init
<1>3. \A p \in Pairs : chain[p] = <<>> /\ ~Has(p) /\ \A w \in Workers : job[<<p, w>>] = None
  BY <1>1 DEF Init, Has
<1>4. PICK x : x = State(Users)
  OBVIOUS
<1>5. x \in Notices /\ x.t = "state" /\ x.members = Users
  BY <1>4, NoticeIs
<1>6. \A u \in Users : x \in NoticesOf(u)
  BY <1>5 DEF NoticesOf
<1>7. /\ members \in SUBSET Users
      /\ \/ members = {} /\ down = [u \in Users |-> <<>>]
         \/ members = Users /\ down = [u \in Users |-> <<x>>]
  BY <1>1, <1>4 DEF Init
<1>8. \A S : <<>> \in Seq(S)
  BY EmptySeq
<1>9. \A u \in Users : down[u] \in Seq(NoticesOf(u)) /\ down[u] \in Seq(Notices)
  BY <1>5, <1>6, <1>7, <1>8, TwoSignals
<1>10. Types
  <2>1. /\ shown \in SUBSET Users /\ voice \in SUBSET Users /\ stray \in SUBSET Users
        /\ stage \in [Users -> Stages] /\ st \in [Users -> {"idle", "connecting", "in"}]
        /\ asks \in [Users -> Nat] /\ gens \in [Users -> Nat] /\ known \in [Users -> SUBSET Users]
        /\ pc \in [Pairs -> Peers \cup {None}] /\ job \in [Pairs \X Workers -> Awaited \cup {None}]
    BY <1>1 DEF Init, Stages
  <2>2. /\ up \in [Users -> Seq(Requests)] /\ early \in [Users -> Seq(Mails)]
        /\ replay \in [Users -> Seq(Mails)] /\ chain \in [Pairs -> Seq(Signals)]
    BY <1>1, <1>8 DEF Init
  <2>3. down \in [Users -> Seq(Notices)]
    BY <1>7, <1>9
  <2> QED BY <1>7, <2>1, <2>2, <2>3 DEF Types
<1>11. MailInv
  BY <1>2, <1>3, <1>8, <1>9 DEF MailInv
<1>12. NumbersInv /\ VoiceInv
  BY <1>1, <1>2, <1>3 DEF NumbersInv, VoiceInv, Init
<1>13. WordInv
  <2>1. SUFFICES ASSUME NEW u \in Users PROVE WordOf(u)
    BY WordIs
  <2>2. CASE members = {} /\ down = [v \in Users |-> <<>>]
    BY <2>2 DEF WordOf
  <2>3. CASE members = Users /\ down = [v \in Users |-> <<x>>]
    <3>1. Len(down[u]) = 1 /\ down[u][1] = x
      BY <2>3
    <3>2. \A v \in Users : Announced(down[u], known[u], 1, v)
      BY <1>5, <3>1 DEF Announced, Says
    <3> QED BY <1>5, <2>3, <3>1, <3>2 DEF WordOf
  <2> QED BY <1>7, <2>2, <2>3
<1>14. GhostInv
  BY <1>3 DEF GhostInv, ChainReady
<1> QED BY <1>10, <1>11, <1>12, <1>13, <1>14 DEF IInv

\* Every step keeps what was set out above.
THEOREM CallHolds == Spec => []IInv
<1>1. IInv /\ [Next]_vars => IInv'
  BY StepKeeps, VoicesKept, WordKept, GhostsKept DEF IInv, Kept
<1> QED BY <1>1, Begins, PTL DEF Spec

\* Every variable of the call keeps its type, generations exist before they
\* are named, and signals wait only for a user who has not entered.
THEOREM CallTypes == Spec => []TypeOK
<1>1. IInv => TypeOK
  <2>1. SUFFICES ASSUME IInv PROVE TypeOK
    OBVIOUS
  <2>2. ASSUME NEW p \in Pairs, Has(p)
        PROVE  /\ pc[p].sig \in {"stable", "offer", "remote"}
               /\ pc[p].born <= pc[p].gen /\ pc[p].gen <= gens[p[1]] /\ pc[p].remote <= gens[p[2]]
    BY <2>1, <2>2 DEF IInv, NumbersInv, Fits, Peers
  <2>3. ASSUME NEW u \in Users
        PROVE  /\ stage[u] \in {"down", "opening", "attached", "open"}
               /\ st[u] \in {"idle", "connecting", "in"} /\ known[u] \subseteq Users
               /\ st[u] = "in" => early[u] = <<>>
    BY <2>1 DEF IInv, Types, Stages, VoiceInv
  <2> QED BY <2>1, <2>2, <2>3 DEF TypeOK, IInv, Types
<1> QED BY <1>1, CallHolds, PTL

\* When it is quiet nobody keeps a connection to somebody who is not there,
\* whatever the order of signals, members, renders and sockets was.
THEOREM NobodyIsHaunted == Spec => []NoGhost
<1>1. IInv => NoGhost
  <2>1. SUFFICES ASSUME IInv, NEW p \in Pairs, Quiet(p), Has(p), p[1] \notin stray
                 PROVE  p[1] \in shown /\ p[2] \in known[p[1]]
    BY DEF NoGhost
  <2>2. p[1] \in Users
    BY PairIs
  <2>3. stage[p[1]] = "open" /\ down[p[1]] = <<>> /\ (st[p[1]] = "in" => p[1] \in shown)
    BY <2>1 DEF Quiet
  <2>4. p[1] \in shown
    BY <2>1, <2>2, <2>3 DEF IInv, VoiceInv
  <2>5. ~StateComing(p[1])
    BY <2>3 DEF StateComing
  <2> QED BY <2>1, <2>4, <2>5 DEF IInv, GhostInv
<1> QED BY <1>1, CallHolds, PTL

\* Every connection carries the microphone of its owner, whether a signal or
\* the list of members opened it.
THEOREM VoiceIsCarried == Spec => []CarriesVoice
<1>1. IInv => CarriesVoice
  BY DEF IInv, VoiceInv, CarriesVoice
<1> QED BY <1>1, CallHolds, PTL

\* The impolite side never gives up its own offer for one of the other while
\* no refused answer misleads it and the offer is one it made.
THEOREM OffersAreKept == Spec => OfferKept
<1>1. Init => OwnInv
  BY DEF Init, OwnInv, BornInv, Clear, Alive
<1>2. IInv /\ OwnInv /\ [Next]_vars => OwnInv'
  BY OwnStep DEF IInv, OwnKept
<1>3. IInv /\ OwnInv /\ [Next]_vars =>
        [\A p \in Pairs :
           /\ ~Polite(p[1], p[2]) /\ pc[p] # None /\ pc'[p] # None
           /\ pc[p].sig = "offer" /\ ~pc[p].setting /\ ~pc[p].implied
           => pc'[p].sig # "remote"]_vars
  BY OwnStep DEF IInv, OwnKept, Stands
<1> QED BY <1>1, <1>2, <1>3, CallHolds, PTL DEF Spec, OfferKept
=============================================================================
