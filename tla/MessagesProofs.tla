---------------------------- MODULE MessagesProofs ----------------------------
(***************************************************************************)
(* Proofs about Messages for any tabs, messages and bounds: its types, that *)
(* a thread shows what its user may see, and that who watches has read.    *)
(***************************************************************************)
EXTENDS Messages, SequenceTheorems, TLAPS

Kinds == {"message", "echo", "error", "deleted"}
Pushes == [kind : Kinds, msg : Msgs]

----------------------------------------------------------------------------
(* The inductive invariant. *)

\* The pushes that carry a message.
Tellings == {"message", "echo"}

\* A push of one of these kinds about m is among pushes.
Comes(pushes, kinds, m) ==
  \E n \in 1..Len(pushes) : pushes[n].msg = m /\ pushes[n].kind \in kinds

\* Whatever pushes tell of m is deleted later among them.
Undone(pushes, m) ==
  \A n \in 1..Len(pushes) : (pushes[n].msg = m /\ pushes[n].kind \in Tellings) =>
    \E k \in 1..Len(pushes) : k > n /\ pushes[k].msg = m /\ pushes[k].kind = "deleted"

\* u may not see m any more, and never will.
Gone(u, m) == row[m] = "deleted" \/ u \in hidden[m]

\* A handler is about to tell u that m is deleted.
Erased(u, m) == \E d \in deleting : d.done /\ d.msg = m /\ (d.all \/ d.user = u)

\* What a thread holds, or will when the answer is there.
Held(t) == IF loaded[t] THEN ShownIn(t) ELSE answer[t]

\* A row is there from its creation on, and what is told to be deleted is.
RowsInv ==
  /\ \A m \in Msgs :
       /\ sending[m] \in {None, "asked"} => row[m] = None
       /\ sending[m] \in {"made", "told"} => row[m] # None
       /\ hidden[m] # {} => row[m] # None
  /\ \A u \in Users, m \in Msgs : Erased(u, m) => Gone(u, m)
  /\ \A t \in Tabs, m \in Msgs : Comes(chan[t], {"deleted"}, m) => Gone(Owner[t], m)

\* A tab that missed nothing is connected, and has the thread or waits for it.
WholeInv ==
  /\ \A t \in whole : up[t] /\ (loaded[t] \/ t \in loading)
  /\ \A t \in loading : ~loaded[t]

\* An optimistic entry waits for a handler or a push.
PendingInv == \A t \in whole, m \in Msgs : (loaded[t] /\ Has(t, m, {"pending"})) =>
  /\ Author[m] = t
  /\ sending[m] \in {"asked", "made"} \/ Comes(chan[t], {"echo", "error"}, m)

\* A visible message is there or on its way.
PresentInv == \A t \in whole : \A m \in Visible(Owner[t]) \ botched :
  m \in Held(t) \/ sending[m] = "made" \/ Comes(chan[t], Tellings, m)

\* A deletion is on its way to who was told of the message.
AbsentInv == \A t \in Tabs : \A m \in Msgs \ crossed :
  \/ m \in Visible(Owner[t]) \/ Erased(Owner[t], m)
  \/ /\ Undone(chan[t], m)
     /\ (t \in whole /\ m \in Held(t)) => Comes(chan[t], {"deleted"}, m)

\* Whoever watches has read a message, or a request to mark it is on its way,
\* or the message itself is.
ReadInv ==
  /\ \A t \in steady : up[t] /\ t \in watched
  /\ \A t \in steady : \A m \in Incoming(Owner[t]) \ botched : row[m] = "live" =>
       \/ m \in read \/ sending[m] = "made" \/ Comes(chan[t], {"message"}, m)
       \/ readers[Owner[t]] > 0 \/ \E r \in reads : m \in r.rows

IInv == TypeOK /\ RowsInv /\ WholeInv /\ PendingInv /\ PresentInv /\ AbsentInv /\ ReadInv

----------------------------------------------------------------------------
(* Sequences of pushes. *)

LEMMA Appended ==
  ASSUME NEW s \in Seq(Pushes), NEW p \in Pushes
  PROVE  /\ Append(s, p) \in Seq(Pushes)
         /\ \A kinds, m : Comes(Append(s, p), kinds, m) <=>
                            Comes(s, kinds, m) \/ (p.msg = m /\ p.kind \in kinds)
         /\ \A m : Undone(s, m) /\ ~(p.msg = m /\ p.kind \in Tellings) => Undone(Append(s, p), m)
         /\ \A m : p.msg = m /\ p.kind = "deleted" => Undone(Append(s, p), m)
<1> DEFINE new == Append(s, p)
<1>1. /\ new \in Seq(Pushes) /\ Len(s) \in Nat /\ Len(new) = Len(s) + 1
      /\ \A n \in 1..Len(s) : new[n] = s[n]
      /\ new[Len(s) + 1] = p
  BY AppendProperties, LenProperties
<1>2. /\ \A n \in 1..Len(new) : n \in 1..Len(s) \/ n = Len(s) + 1
      /\ \A n \in 1..Len(s) : n \in 1..Len(new) /\ n < Len(s) + 1
      /\ Len(s) + 1 \in 1..Len(new)
  BY <1>1
<1> HIDE DEF new
<1>3. ASSUME NEW kinds, NEW m
      PROVE  Comes(new, kinds, m) <=> Comes(s, kinds, m) \/ (p.msg = m /\ p.kind \in kinds)
  BY <1>1, <1>2 DEF Comes
<1>4. ASSUME NEW m, Undone(s, m), ~(p.msg = m /\ p.kind \in Tellings) PROVE Undone(new, m)
  BY <1>1, <1>2, <1>4 DEF Undone
<1>5. ASSUME NEW m, p.msg = m, p.kind = "deleted" PROVE Undone(new, m)
  <2>1. p.kind \notin Tellings
    BY <1>5 DEF Tellings
  <2> QED BY <1>1, <1>2, <1>5, <2>1 DEF Undone
<1> QED BY <1>1, <1>3, <1>4, <1>5 DEF new

LEMMA NothingComes ==
  \A kinds, m : ~Comes(<<>>, kinds, m) /\ Undone(<<>>, m)
<1>1. 1..Len(<<>>) = {}
  BY EmptySeq
<1> QED BY <1>1 DEF Comes, Undone

LEMMA Received ==
  ASSUME NEW s \in Seq(Pushes), s # <<>>, NEW p, p = Head(s), NEW rest, rest = Tail(s)
  PROVE  /\ p \in Pushes /\ rest \in Seq(Pushes)
         /\ \A kinds, m : Comes(s, kinds, m) <=>
                            Comes(rest, kinds, m) \/ (p.msg = m /\ p.kind \in kinds)
         /\ \A m : Undone(s, m) => Undone(rest, m)
         /\ \A m : Undone(s, m) /\ p.msg = m /\ p.kind \in Tellings =>
                     Comes(rest, {"deleted"}, m)
<1>1. /\ p \in Pushes /\ rest \in Seq(Pushes) /\ Len(rest) = Len(s) - 1
      /\ \A n \in 1..Len(rest) : rest[n] = s[n + 1]
  BY HeadTailProperties
<1>2. Len(s) \in Nat /\ Len(s) # 0 /\ p = s[1]
  BY EmptySeq
<1>3. /\ 1 \in 1..Len(s)
      /\ \A n \in 1..Len(s) : n = 1 \/ \E k \in 1..Len(rest) : n = k + 1
      /\ \A n \in 1..Len(rest) : n + 1 \in 1..Len(s) /\ n + 1 > 1
  <2>1. \A n \in 1..Len(s) : n = 1 \/ (n - 1 \in 1..Len(rest) /\ n = (n - 1) + 1)
    BY <1>1, <1>2
  <2> QED BY <1>1, <1>2, <2>1
<1>4. ASSUME NEW kinds, NEW m
      PROVE  Comes(s, kinds, m) <=> Comes(rest, kinds, m) \/ (p.msg = m /\ p.kind \in kinds)
  BY <1>1, <1>2, <1>3 DEF Comes
<1>5. ASSUME NEW m, Undone(s, m) PROVE Undone(rest, m)
  <2>1. SUFFICES ASSUME NEW n \in 1..Len(rest), rest[n].msg = m, rest[n].kind \in Tellings
        PROVE  \E k \in 1..Len(rest) : k > n /\ rest[k].msg = m /\ rest[k].kind = "deleted"
    BY DEF Undone
  <2>2. PICK k \in 1..Len(s) : k > n + 1 /\ s[k].msg = m /\ s[k].kind = "deleted"
    BY <1>1, <1>3, <1>5, <2>1 DEF Undone
  <2>3. PICK j \in 1..Len(rest) : k = j + 1
    BY <1>3, <2>2
  <2> QED BY <1>1, <2>2, <2>3
<1>6. ASSUME NEW m, Undone(s, m), p.msg = m, p.kind \in Tellings
      PROVE  Comes(rest, {"deleted"}, m)
  <2>1. PICK k \in 1..Len(s) : k > 1 /\ s[k].msg = m /\ s[k].kind = "deleted"
    BY <1>2, <1>3, <1>6 DEF Undone
  <2>2. PICK j \in 1..Len(rest) : k = j + 1
    BY <1>3, <2>1
  <2> QED BY <1>1, <2>1, <2>2 DEF Comes
<1> QED BY <1>1, <1>4, <1>5, <1>6

----------------------------------------------------------------------------
(* Types. *)

\* TypeOK with the sets of this module.
Types ==
  /\ row \in [Msgs -> {None, "live", "deleted"}] /\ hidden \in [Msgs -> SUBSET Users]
  /\ read \subseteq Msgs
  /\ sending \in [Msgs -> {None, "asked", "made", "told", "over"}]
  /\ readers \in [Users -> Nat] /\ reads \subseteq Readings /\ deleting \subseteq Deletions
  /\ up \in [Tabs -> BOOLEAN] /\ \A t \in Tabs : ~up[t] => chan[t] = <<>>
  /\ chan \in [Tabs -> Seq(Pushes)]
  /\ shown \in [Tabs -> SUBSET Entries] /\ loaded \in [Tabs -> BOOLEAN]
  /\ loading \subseteq Tabs /\ answer \in [Tabs -> SUBSET Msgs]
  /\ watched \subseteq Tabs /\ whole \subseteq Tabs /\ steady \subseteq watched
  /\ crossed \subseteq Msgs /\ botched \subseteq Msgs
  /\ loads \in 0..MaxLoads /\ deletes \in 0..MaxDeletes /\ troubles \in 0..MaxTroubles

LEMMA TypeParts == (TypeOK <=> Types) /\ (TypeOK' <=> Types')
BY DEF TypeOK, Types, Pushes, Kinds

LEMMA Marks ==
  /\ \A m \in Msgs, mark \in Nonced \cup Known :
       Entry(m, mark) \in Entries /\ Entry(m, mark).msg = m /\ Entry(m, mark).mark = mark
  /\ {"pending", "failed", "echoed", "blamed", "sent"} = Nonced \cup Known
  /\ \A e \in Entries : e.msg \in Msgs /\ e.mark \in Nonced \cup Known /\ e = Entry(e.msg, e.mark)
BY DEF Entry, Entries, Nonced, Known

LEMMA PushIs ==
  ASSUME NEW kind \in Kinds, NEW m \in Msgs
  PROVE  Push(kind, m) \in Pushes /\ Push(kind, m).kind = kind /\ Push(kind, m).msg = m
BY DEF Push, Pushes

LEMMA PushedTo ==
  ASSUME Types, NEW users, NEW p \in Pushes
  PROVE  /\ PushTo(users, p) \in [Tabs -> Seq(Pushes)]
         /\ \A t \in Tabs : PushTo(users, p)[t] =
              IF up[t] /\ Owner[t] \in users THEN Append(chan[t], p) ELSE chan[t]
<1>1. ASSUME NEW t \in Tabs PROVE chan[t] \in Seq(Pushes) /\ Append(chan[t], p) \in Seq(Pushes)
  BY AppendProperties DEF Types
<1> QED BY <1>1 DEF PushTo

\* What a handler pushes goes to open sockets only.
LEMMA PushedTypes ==
  ASSUME Types, NEW users, NEW p \in Pushes, chan' = PushTo(users, p), up' = up
  PROVE  chan' \in [Tabs -> Seq(Pushes)] /\ \A t \in Tabs : ~up'[t] => chan'[t] = <<>>
BY PushedTo DEF Types

LEMMA AskReadIs ==
  ASSUME Types, NEW t \in Tabs, AskRead(t)
  PROVE  /\ readers' \in [Users -> Nat]
         /\ \A u \in Users : readers'[u] >= readers[u]
         /\ up[t] => readers'[Owner[t]] > 0
<1>1. Owner[t] \in Users /\ \A u \in Users : readers[u] \in Nat
  BY WhoAssumption DEF Types
<1>2. PICK n \in Nat : n = IF up[t] THEN readers[Owner[t]] + 1 ELSE readers[Owner[t]]
  BY <1>1
<1>3. readers' = [readers EXCEPT ![Owner[t]] = n]
  BY <1>2 DEF AskRead
<1>4. readers' \in [Users -> Nat]
  BY <1>3 DEF Types
<1>5. readers'[Owner[t]] = n /\ \A u \in Users : u # Owner[t] => readers'[u] = readers[u]
  BY <1>1, <1>3 DEF Types
<1>6. n >= readers[Owner[t]] /\ (up[t] => n > 0)
  BY <1>1, <1>2
<1>7. \A u \in Users : readers'[u] >= readers[u]
  BY <1>1, <1>5, <1>6
<1> QED BY <1>4, <1>5, <1>6, <1>7

\* The new entries of a thread are entries.
LEMMA AfterTypes ==
  ASSUME NEW t \in Tabs, shown[t] \subseteq Entries, NEW p \in Pushes
  PROVE  After(t, p) \subseteq Entries
<1>1. p.msg \in Msgs /\ p.kind \in Kinds
  BY DEF Pushes
<1>2. Failed(t, p.msg) \subseteq Entries
  BY <1>1, Marks DEF Failed
<1>3. Without(t, p.msg) \subseteq Entries
  BY DEF Without
<1>4. Remark(t, p.msg, Nonced, "echoed") \subseteq Entries
  BY <1>1, Marks DEF Remark
<1>5. shown[t] \cup {Entry(p.msg, IF p.kind = "echo" THEN "echoed" ELSE "sent")} \subseteq Entries
  BY <1>1, Marks
<1> QED BY <1>2, <1>3, <1>4, <1>5 DEF After

LEMMA TypeInit == ASSUME Init PROVE TypeOK
<1>1. <<>> \in Seq(Pushes)
  BY EmptySeq
<1>2. Types
  BY <1>1, BoundAssumption DEF Init, Types
<1> QED BY <1>2, TypeParts

LEMMA TypeSends ==
  ASSUME Types, NEW m \in Msgs, Send(m) \/ Refuse(m) \/ Make(m) \/ Botch(m) \/ Tell(m)
  PROVE  Types'
<1> USE WhoAssumption, BoundAssumption
<1>1. CASE Send(m)
  <2>1. Author[m] \in Tabs /\ Entry(m, "pending") \in Entries
    BY Marks
  <2>2. shown' \in [Tabs -> SUBSET Entries]
    BY <1>1, <2>1 DEF Send, Types
  <2>3. sending' \in [Msgs -> {None, "asked", "made", "told", "over"}]
    BY <1>1 DEF Send, Types
  <2> QED BY <1>1, <2>2, <2>3 DEF Send, Types, dbVars, historyVars
<1>2. CASE Refuse(m)
  <2>1. Push("error", m) \in Pushes
    BY PushIs DEF Kinds
  <2>2. chan' \in [Tabs -> Seq(Pushes)] /\ \A t \in Tabs : ~up'[t] => chan'[t] = <<>>
    BY <1>2, <2>1, PushedTypes DEF Refuse
  <2>3. sending' \in [Msgs -> {None, "asked", "made", "told", "over"}]
    BY <1>2 DEF Refuse, Types
  <2> QED BY <1>2, <2>2, <2>3 DEF Refuse, Types, dbVars, screenVars, historyVars
<1>3. CASE Make(m)
  BY <1>3 DEF Make, Types, screenVars, historyVars
<1>4. CASE Botch(m)
  <2>1. Push("error", m) \in Pushes
    BY PushIs DEF Kinds
  <2>2. chan' \in [Tabs -> Seq(Pushes)] /\ \A t \in Tabs : ~up'[t] => chan'[t] = <<>>
    BY <1>4, <2>1, PushedTypes DEF Botch
  <2>3. sending' \in [Msgs -> {None, "asked", "made", "told", "over"}]
    BY <1>4 DEF Botch, Types
  <2>4. troubles' \in 0..MaxTroubles /\ botched' \subseteq Msgs
    BY <1>4 DEF Botch, Types
  <2> QED BY <1>4, <2>2, <2>3, <2>4 DEF Botch, Types, dbVars, screenVars
<1>5. CASE Tell(m)
  <2> DEFINE author == Owner[Author[m]]
             echoes == PushTo({author}, Push("echo", m))
             messages == PushTo(Users \ {author}, Push("message", m))
  <2>1. Push("echo", m) \in Pushes /\ Push("message", m) \in Pushes
    BY PushIs DEF Kinds
  <2>2. /\ echoes \in [Tabs -> Seq(Pushes)] /\ messages \in [Tabs -> Seq(Pushes)]
        /\ \A t \in Tabs : ~up[t] => echoes[t] = chan[t] /\ messages[t] = chan[t]
    BY <2>1, PushedTo
  <2>3. chan' = [t \in Tabs |-> IF Owner[t] = author THEN echoes[t] ELSE messages[t]]
    BY <1>5 DEF Tell
  <2> HIDE DEF author, echoes, messages
  <2>4. chan' \in [Tabs -> Seq(Pushes)] /\ \A t \in Tabs : ~up[t] => chan'[t] = <<>>
    BY <2>2, <2>3 DEF Types
  <2>5. sending' \in [Msgs -> {None, "asked", "made", "told", "over"}] /\ crossed' \subseteq Msgs
    BY <1>5 DEF Tell, Types
  <2> QED BY <1>5, <2>4, <2>5 DEF Tell, Types, dbVars, screenVars
<1> QED BY <1>1, <1>2, <1>3, <1>4, <1>5

LEMMA TypeReads ==
  ASSUME Types, \/ \E u \in Users : ReadBegins(u)
                \/ \E r \in Readings : ReadEnds(r)
  PROVE  Types'
<1>1. ASSUME NEW u \in Users, ReadBegins(u) PROVE Types'
  <2>1. readers[u] \in Nat /\ readers[u] > 0
    BY <1>1 DEF ReadBegins, Types
  <2>2. PICK n \in Nat : n = readers[u] - 1
    BY <2>1
  <2>3. readers' = [readers EXCEPT ![u] = n]
    BY <1>1, <2>2 DEF ReadBegins
  <2>4. readers' \in [Users -> Nat]
    BY <2>3 DEF Types
  <2>5. reads' \subseteq Readings
    BY <1>1 DEF ReadBegins, Types, Readings, Incoming
  <2> QED BY <1>1, <2>4, <2>5 DEF ReadBegins, Types, dbVars, screenVars, historyVars
<1>2. ASSUME NEW r \in Readings, ReadEnds(r) PROVE Types'
  BY <1>2 DEF ReadEnds, Types, Readings, screenVars, historyVars
<1> QED BY <1>1, <1>2

LEMMA TypeDeletes ==
  ASSUME Types, \/ \E u \in Users, m \in Msgs, all \in BOOLEAN : Delete(u, m, all)
                \/ \E d \in Deletions : Erase(d) \/ TellErased(d)
  PROVE  Types'
<1> USE WhoAssumption, BoundAssumption
<1>1. ASSUME NEW u \in Users, NEW m \in Msgs, NEW all \in BOOLEAN, Delete(u, m, all) PROVE Types'
  <2>1. deleting' \subseteq Deletions
    <3>1. [msg |-> m, user |-> u, all |-> all, done |-> FALSE] \in Deletions
      BY DEF Deletions
    <3> QED BY <1>1, <3>1 DEF Delete, Types
  <2>2. deletes' \in 0..MaxDeletes
    BY <1>1 DEF Delete, Types
  <2> QED BY <1>1, <2>1, <2>2 DEF Delete, Types, dbVars, screenVars
<1>2. ASSUME NEW d \in Deletions, Erase(d) PROVE Types'
  <2>1. deleting' \subseteq Deletions
    <3>1. [d EXCEPT !.done = TRUE] \in Deletions
      BY DEF Deletions
    <3> QED BY <1>2, <3>1 DEF Erase, Types
  <2>2. row' \in [Msgs -> {None, "live", "deleted"}] /\ hidden' \in [Msgs -> SUBSET Users]
    <3>1. PICK m \in Msgs, u \in Users : m = d.msg /\ u = d.user
      BY DEF Deletions
    <3>2. \/ row' = row /\ hidden' = hidden
          \/ row' = [row EXCEPT ![m] = "deleted"] /\ hidden' = hidden
          \/ row' = row /\ hidden' = [hidden EXCEPT ![m] = hidden[m] \cup {u}]
      BY <1>2, <3>1 DEF Erase
    <3>3. "deleted" \in {None, "live", "deleted"} /\ hidden[m] \cup {u} \in SUBSET Users
      BY DEF Types
    <3>4. CASE row' = row /\ hidden' = hidden
      BY <3>4 DEF Types
    <3>5. CASE row' = [row EXCEPT ![m] = "deleted"] /\ hidden' = hidden
      BY <3>3, <3>5 DEF Types
    <3>6. CASE row' = row /\ hidden' = [hidden EXCEPT ![m] = hidden[m] \cup {u}]
      <4>1. PICK h \in SUBSET Users : h = hidden[m] \cup {u}
        BY <3>3
      <4>2. hidden' = [hidden EXCEPT ![m] = h]
        BY <3>6, <4>1
      <4> QED BY <3>6, <4>2 DEF Types
    <3> QED BY <3>2, <3>4, <3>5, <3>6
  <2> QED BY <1>2, <2>1, <2>2 DEF Erase, Types, screenVars, historyVars
<1>3. ASSUME NEW d \in Deletions, TellErased(d) PROVE Types'
  <2>1. d.msg \in Msgs /\ Push("deleted", d.msg) \in Pushes
    BY PushIs DEF Kinds, Deletions
  <2>2. chan' \in [Tabs -> Seq(Pushes)] /\ \A t \in Tabs : ~up'[t] => chan'[t] = <<>>
    BY <1>3, <2>1, PushedTypes DEF TellErased
  <2> QED BY <1>3, <2>2 DEF TellErased, Types, dbVars, screenVars, historyVars
<1> QED BY <1>1, <1>2, <1>3

LEMMA TypeTabs ==
  ASSUME Types, NEW t \in Tabs,
         \/ Load(t) \/ Arrive(t) \/ LookAway(t) \/ LookBack(t)
         \/ Receive(t) \/ Drop(t) \/ Reconnect(t)
  PROVE  Types'
<1> USE WhoAssumption, BoundAssumption
<1>1. CASE Load(t)
  <2>1. answer' \in [Tabs -> SUBSET Msgs]
    BY <1>1 DEF Load, Types, Visible
  <2>2. loads' \in 0..MaxLoads
    BY <1>1 DEF Load, Types
  <2> QED BY <1>1, <2>1, <2>2 DEF Load, Types, dbVars, handlerVars
<1>2. CASE Arrive(t)
  <2>1. {Entry(m, "sent") : m \in answer[t]} \subseteq Entries
    BY Marks DEF Types
  <2>2. shown' \in [Tabs -> SUBSET Entries] /\ answer' \in [Tabs -> SUBSET Msgs]
    BY <1>2, <2>1 DEF Arrive, Types
  <2>3. readers' \in [Users -> Nat]
    BY <1>2, AskReadIs DEF Arrive
  <2> QED BY <1>2, <2>2, <2>3 DEF Arrive, Types, dbVars
<1>3. CASE LookAway(t)
  BY <1>3 DEF LookAway, Types, dbVars, handlerVars
<1>4. CASE LookBack(t)
  BY <1>4 DEF LookBack, Types, dbVars, handlerVars, historyVars
<1>5. CASE Receive(t)
  <2>1. PICK p : p = Head(chan[t])
    OBVIOUS
  <2>2. p \in Pushes /\ Tail(chan[t]) \in Seq(Pushes) /\ chan[t] # <<>>
    BY <1>5, <2>1, Received DEF Receive, Types
  <2>3. shown' \in [Tabs -> SUBSET Entries]
    <3>1. After(t, p) \subseteq Entries
      BY <2>2, AfterTypes DEF Types
    <3>2. shown' = IF loaded[t] THEN [shown EXCEPT ![t] = After(t, p)] ELSE shown
      BY <1>5, <2>1 DEF Receive
    <3> QED BY <3>1, <3>2 DEF Types
  <2>4. readers' \in [Users -> Nat]
    BY <1>5, AskReadIs DEF Receive, Types
  <2>5. chan' = [chan EXCEPT ![t] = Tail(chan[t])] /\ up' = up
    BY <1>5 DEF Receive
  <2>6. chan' \in [Tabs -> Seq(Pushes)] /\ \A s \in Tabs : ~up'[s] => chan'[s] = <<>>
    BY <2>2, <2>5 DEF Types
  <2> QED BY <1>5, <2>3, <2>4, <2>6 DEF Receive, Types, dbVars
<1>6. CASE Drop(t)
  <2>1. <<>> \in Seq(Pushes)
    BY EmptySeq
  <2>2. chan' \in [Tabs -> Seq(Pushes)] /\ up' \in [Tabs -> BOOLEAN]
        /\ \A s \in Tabs : ~up'[s] => chan'[s] = <<>>
    BY <1>6, <2>1 DEF Drop, Types
  <2>3. sending' \in [Msgs -> {None, "asked", "made", "told", "over"}]
    BY <1>6 DEF Drop, Types
  <2>4. readers' \in [Users -> Nat]
    BY <1>6 DEF Drop, Types
  <2>5. troubles' \in 0..MaxTroubles
    BY <1>6 DEF Drop, Types
  <2> QED BY <1>6, <2>2, <2>3, <2>4, <2>5 DEF Drop, Types, dbVars, screenVars
<1>7. CASE Reconnect(t)
  BY <1>7 DEF Reconnect, Types, dbVars, handlerVars, screenVars, historyVars
<1> QED BY <1>1, <1>2, <1>3, <1>4, <1>5, <1>6, <1>7

LEMMA TypeKept == ASSUME TypeOK, [Next]_vars PROVE TypeOK'
<1>1. Types
  BY TypeParts
<1>2. CASE UNCHANGED vars
  BY <1>1, <1>2, TypeParts DEF Types, vars
<1>3. CASE Next
  BY <1>1, <1>3, TypeSends, TypeReads, TypeDeletes, TypeTabs, TypeParts DEF Next
<1> QED BY <1>2, <1>3

----------------------------------------------------------------------------
(* What a step puts on the way to a tab. *)

LEMMA BlameReaches ==
  ASSUME Types, NEW m \in Msgs, Refuse(m) \/ Botch(m), NEW t \in Tabs
  PROVE  /\ Push("error", m) \in Pushes
         /\ chan'[t] = IF up[t] /\ Owner[t] = Owner[Author[m]]
                       THEN Append(chan[t], Push("error", m)) ELSE chan[t]
<1>1. Push("error", m) \in Pushes
  BY PushIs DEF Kinds
<1>2. chan' = PushTo({Owner[Author[m]]}, Push("error", m))
  BY DEF Refuse, Botch
<1> QED BY <1>1, <1>2, PushedTo

LEMMA TellReaches ==
  ASSUME Types, NEW m \in Msgs, Tell(m), NEW t \in Tabs
  PROVE  /\ Push("echo", m) \in Pushes /\ Push("message", m) \in Pushes
         /\ chan'[t] = IF ~up[t] THEN chan[t]
                       ELSE IF Owner[t] = Owner[Author[m]] THEN Append(chan[t], Push("echo", m))
                       ELSE Append(chan[t], Push("message", m))
<1> DEFINE author == Owner[Author[m]]
<1>1. Push("echo", m) \in Pushes /\ Push("message", m) \in Pushes
  BY PushIs DEF Kinds
<1>2. Owner[t] \in Users
  BY WhoAssumption
<1>3. chan'[t] = IF Owner[t] = author THEN PushTo({author}, Push("echo", m))[t]
                 ELSE PushTo(Users \ {author}, Push("message", m))[t]
  BY DEF Tell
<1>4. /\ PushTo({author}, Push("echo", m))[t] =
           IF up[t] /\ Owner[t] \in {author} THEN Append(chan[t], Push("echo", m)) ELSE chan[t]
      /\ PushTo(Users \ {author}, Push("message", m))[t] =
           IF up[t] /\ Owner[t] \in Users \ {author}
           THEN Append(chan[t], Push("message", m)) ELSE chan[t]
  BY <1>1, PushedTo
<1> QED BY <1>1, <1>2, <1>3, <1>4

LEMMA DeletionReaches ==
  ASSUME Types, NEW d \in Deletions, TellErased(d), NEW t \in Tabs
  PROVE  /\ Push("deleted", d.msg) \in Pushes
         /\ chan'[t] = IF up[t] /\ (d.all \/ d.user = Owner[t])
                       THEN Append(chan[t], Push("deleted", d.msg)) ELSE chan[t]
<1>1. Push("deleted", d.msg) \in Pushes
  BY PushIs DEF Kinds, Deletions
<1>2. Owner[t] \in Users
  BY WhoAssumption
<1>3. chan' = PushTo(IF d.all THEN Users ELSE {d.user}, Push("deleted", d.msg))
  BY DEF TellErased
<1>4. chan'[t] = IF up[t] /\ Owner[t] \in (IF d.all THEN Users ELSE {d.user})
                 THEN Append(chan[t], Push("deleted", d.msg)) ELSE chan[t]
  BY <1>1, <1>3, PushedTo
<1> QED BY <1>1, <1>2, <1>4

\* What reaches a tab that receives, and the others.
LEMMA ReceiveReaches ==
  ASSUME Types, NEW r \in Tabs, Receive(r)
  PROVE  /\ Head(chan[r]) \in Pushes
         /\ \A t \in Tabs : chan'[t] = IF t = r THEN Tail(chan[t]) ELSE chan[t]
         /\ \A kinds, m : Comes(chan[r], kinds, m) <=>
              Comes(chan'[r], kinds, m) \/ (Head(chan[r]).msg = m /\ Head(chan[r]).kind \in kinds)
         /\ \A m : Undone(chan[r], m) => Undone(chan'[r], m)
         /\ \A m : Undone(chan[r], m) /\ Head(chan[r]).msg = m /\ Head(chan[r]).kind \in Tellings =>
              Comes(chan'[r], {"deleted"}, m)
<1>1. chan[r] \in Seq(Pushes) /\ chan[r] # <<>> /\ chan' = [chan EXCEPT ![r] = Tail(chan[r])]
  BY DEF Types, Receive
<1>2. \A t \in Tabs : chan'[t] = IF t = r THEN Tail(chan[t]) ELSE chan[t]
  BY <1>1 DEF Types
<1>3. PICK p, rest : p = Head(chan[r]) /\ rest = Tail(chan[r])
  OBVIOUS
<1>4. /\ p \in Pushes
      /\ \A kinds, m : Comes(chan[r], kinds, m) <=>
                         Comes(rest, kinds, m) \/ (p.msg = m /\ p.kind \in kinds)
      /\ \A m : Undone(chan[r], m) => Undone(rest, m)
      /\ \A m : Undone(chan[r], m) /\ p.msg = m /\ p.kind \in Tellings =>
                  Comes(rest, {"deleted"}, m)
  BY <1>1, <1>3, Received
<1> QED BY <1>2, <1>3, <1>4

LEMMA DropReaches ==
  ASSUME Types, NEW r \in Tabs, Drop(r), NEW t \in Tabs
  PROVE  chan'[t] = IF t = r THEN <<>> ELSE chan[t]
BY DEF Types, Drop

\* A deletion that comes was on its way, or a handler was about to tell it.
LEMMA DeletionComes ==
  ASSUME Types, [Next]_vars, NEW t \in Tabs, NEW m \in Msgs, Comes(chan'[t], {"deleted"}, m)
  PROVE  Comes(chan[t], {"deleted"}, m) \/ Erased(Owner[t], m)
<1>0. chan[t] \in Seq(Pushes)
  BY DEF Types
<1>1. CASE chan'[t] = chan[t]
  BY <1>1
<1>2. ASSUME NEW x \in Msgs, Refuse(x) \/ Botch(x)
      PROVE  Comes(chan[t], {"deleted"}, m) \/ Erased(Owner[t], m)
  BY <1>0, <1>2, BlameReaches, Appended, PushIs DEF Kinds
<1>3. ASSUME NEW x \in Msgs, Tell(x)
      PROVE  Comes(chan[t], {"deleted"}, m) \/ Erased(Owner[t], m)
  BY <1>0, <1>3, TellReaches, Appended, PushIs DEF Kinds
<1>4. ASSUME NEW d \in Deletions, TellErased(d)
      PROVE  Comes(chan[t], {"deleted"}, m) \/ Erased(Owner[t], m)
  <2>1. d \in deleting /\ d.done /\ Push("deleted", d.msg).msg = d.msg
    BY <1>4, PushIs DEF TellErased, Deletions, Kinds
  <2> QED BY <1>0, <1>4, <2>1, DeletionReaches, Appended DEF Erased
<1>5. ASSUME NEW r \in Tabs, Receive(r)
      PROVE  Comes(chan[t], {"deleted"}, m) \/ Erased(Owner[t], m)
  BY <1>5, ReceiveReaches
<1>6. ASSUME NEW r \in Tabs, Drop(r)
      PROVE  Comes(chan[t], {"deleted"}, m) \/ Erased(Owner[t], m)
  BY <1>6, DropReaches, NothingComes
<1>7. ASSUME UNCHANGED chan PROVE Comes(chan[t], {"deleted"}, m) \/ Erased(Owner[t], m)
  BY <1>7
<1>8. CASE \/ UNCHANGED vars
           \/ \E x \in Msgs : Send(x) \/ Make(x)
           \/ \E u \in Users : \/ ReadBegins(u)
                               \/ \E x \in Msgs, all \in BOOLEAN : Delete(u, x, all)
           \/ \E r \in Readings : ReadEnds(r)
           \/ \E d \in Deletions : Erase(d)
           \/ \E r \in Tabs : \/ Load(r) \/ Arrive(r) \/ LookAway(r) \/ LookBack(r) \/ Reconnect(r)
  BY <1>7, <1>8 DEF vars, Send, Make, ReadBegins, Delete, ReadEnds, Erase, Load, Arrive, LookAway,
       LookBack, Reconnect
<1> QED BY <1>2, <1>3, <1>4, <1>5, <1>6, <1>8 DEF Next

----------------------------------------------------------------------------
(* The rows. *)

LEMMA RowsInit == ASSUME Init PROVE RowsInv
BY NothingComes DEF Init, RowsInv, Erased, None

\* What a step does to the row of a message and to the handler that sends it.
LEMMA RowSteps ==
  ASSUME Types, RowsInv, [Next]_vars, NEW m \in Msgs
  PROVE  /\ sending'[m] \in {None, "asked"} => row'[m] = None
         /\ sending'[m] \in {"made", "told"} => row'[m] # None
         /\ hidden'[m] # {} => row'[m] # None
         /\ \A u \in Users : Gone(u, m) => Gone(u, m)'
<1>0. /\ row[m] \in {None, "live", "deleted"}
      /\ sending[m] \in {None, "asked", "made", "told", "over"}
      /\ hidden[m] \subseteq Users
      /\ sending[m] \in {None, "asked"} => row[m] = None
      /\ sending[m] \in {"made", "told"} => row[m] # None
      /\ hidden[m] # {} => row[m] # None
  BY DEF Types, RowsInv
<1> USE <1>0 DEF None
<1>1. CASE UNCHANGED <<row, hidden, sending>>
  BY <1>1 DEF Gone
<1>2. ASSUME NEW x \in Msgs, Send(x) \/ Refuse(x) \/ Make(x) \/ Botch(x) \/ Tell(x)
      PROVE  /\ sending'[m] \in {None, "asked"} => row'[m] = None
             /\ sending'[m] \in {"made", "told"} => row'[m] # None
             /\ hidden'[m] # {} => row'[m] # None
             /\ \A u \in Users : Gone(u, m) => Gone(u, m)'
  <2>1. CASE x # m
    <3>1. sending'[m] = sending[m] /\ row'[m] = row[m] /\ hidden'[m] = hidden[m]
      BY <1>2, <2>1 DEF Send, Refuse, Make, Botch, Tell, dbVars, Types
    <3> QED BY <3>1 DEF Gone
  <2>2. CASE x = m
    BY <1>2, <2>2 DEF Send, Refuse, Make, Botch, Tell, dbVars, Types, Gone
  <2> QED BY <2>1, <2>2
<1>3. ASSUME NEW d \in Deletions, Erase(d)
      PROVE  /\ sending'[m] \in {None, "asked"} => row'[m] = None
             /\ sending'[m] \in {"made", "told"} => row'[m] # None
             /\ hidden'[m] # {} => row'[m] # None
             /\ \A u \in Users : Gone(u, m) => Gone(u, m)'
  <2>1. CASE d.msg \notin Visible(d.user)
    BY <1>3, <2>1 DEF Erase, Gone
  <2>2. CASE d.msg \in Visible(d.user)
    <3>1. /\ row[d.msg] = "live" /\ sending' = sending
          /\ \/ row' = [row EXCEPT ![d.msg] = "deleted"] /\ hidden' = hidden
             \/ row' = row /\ hidden' = [hidden EXCEPT ![d.msg] = hidden[d.msg] \cup {d.user}]
      BY <1>3, <2>2 DEF Erase, Visible
    <3> QED BY <3>1 DEF Types, Gone
  <2> QED BY <2>1, <2>2
<1>4. ASSUME NEW r \in Tabs, Drop(r)
      PROVE  /\ sending'[m] \in {None, "asked"} => row'[m] = None
             /\ sending'[m] \in {"made", "told"} => row'[m] # None
             /\ hidden'[m] # {} => row'[m] # None
             /\ \A u \in Users : Gone(u, m) => Gone(u, m)'
  <2>1. row' = row /\ hidden' = hidden /\ (sending'[m] = sending[m] \/ sending'[m] = "over")
    BY <1>4 DEF Drop, dbVars
  <2> QED BY <2>1 DEF Gone
<1>5. CASE \/ UNCHANGED vars
           \/ \E u \in Users : \/ ReadBegins(u)
                               \/ \E x \in Msgs, all \in BOOLEAN : Delete(u, x, all)
           \/ \E r \in Readings : ReadEnds(r)
           \/ \E d \in Deletions : TellErased(d)
           \/ \E r \in Tabs : \/ Load(r) \/ Arrive(r) \/ LookAway(r) \/ LookBack(r)
                              \/ Receive(r) \/ Reconnect(r)
  BY <1>1, <1>5 DEF vars, ReadBegins, Delete, ReadEnds, TellErased, Load, Arrive, LookAway,
       LookBack, Receive, Reconnect, dbVars, handlerVars
<1> QED BY <1>2, <1>3, <1>4, <1>5 DEF Next

\* A handler is about to tell only what it has deleted.
LEMMA ErasedSteps ==
  ASSUME Types, RowsInv, [Next]_vars, NEW u \in Users, NEW m \in Msgs, Erased(u, m)'
  PROVE  Gone(u, m)'
<1>0. Gone(u, m) => Gone(u, m)'
  BY RowSteps
<1>1. CASE Erased(u, m)
  BY <1>0, <1>1 DEF RowsInv
<1>2. PICK d \in deleting' : d.done /\ d.msg = m /\ (d.all \/ d.user = u)
  BY DEF Erased
<1>3. CASE d \in deleting
  BY <1>0, <1>2, <1>3 DEF RowsInv, Erased
<1>4. CASE d \notin deleting
  <2>1. ASSUME NEW e \in Deletions, Erase(e) PROVE Gone(u, m)'
    <3>1. e \in Deletions /\ e.msg \in Visible(e.user) /\ d = [e EXCEPT !.done = TRUE]
      BY <1>4, <2>1 DEF Erase
    <3>2. d.msg = e.msg /\ d.all = e.all /\ d.user = e.user
      BY <3>1 DEF Deletions
    <3>3. IF d.all THEN row' = [row EXCEPT ![m] = "deleted"]
          ELSE hidden' = [hidden EXCEPT ![m] = hidden[m] \cup {u}]
      BY <1>2, <2>1, <3>1, <3>2 DEF Erase
    <3> QED BY <3>3 DEF Gone, Types
  <2>2. ASSUME NEW v \in Users, NEW x \in Msgs, NEW all \in BOOLEAN, Delete(v, x, all)
        PROVE  FALSE
    BY <1>2, <1>4, <2>2 DEF Delete
  <2>3. ASSUME deleting' \subseteq deleting PROVE FALSE
    BY <1>4, <2>3
  <2>4. CASE \/ UNCHANGED vars
             \/ \E x \in Msgs : Send(x) \/ Refuse(x) \/ Make(x) \/ Botch(x) \/ Tell(x)
             \/ \E v \in Users : ReadBegins(v)
             \/ \E r \in Readings : ReadEnds(r)
             \/ \E e \in Deletions : TellErased(e)
             \/ \E r \in Tabs : \/ Load(r) \/ Arrive(r) \/ LookAway(r) \/ LookBack(r)
                                \/ Receive(r) \/ Drop(r) \/ Reconnect(r)
    BY <2>3, <2>4 DEF vars, Send, Refuse, Make, Botch, Tell, ReadBegins, ReadEnds, TellErased, Load,
         Arrive, LookAway, LookBack, Receive, Drop, Reconnect, handlerVars
  <2> QED BY <2>1, <2>2, <2>4 DEF Next
<1> QED BY <1>3, <1>4

LEMMA RowsKept == ASSUME TypeOK, RowsInv, [Next]_vars PROVE RowsInv'
<1>1. Types
  BY TypeParts
<1>2. ASSUME NEW t \in Tabs, NEW m \in Msgs, Comes(chan'[t], {"deleted"}, m)
      PROVE  Gone(Owner[t], m)'
  <2>1. Owner[t] \in Users
    BY WhoAssumption
  <2>2. Gone(Owner[t], m)
    BY <1>1, <1>2, <2>1, DeletionComes DEF RowsInv
  <2> QED BY <1>1, <2>1, <2>2, RowSteps
<1> QED BY <1>1, <1>2, RowSteps, ErasedSteps DEF RowsInv

----------------------------------------------------------------------------
(* The threads. *)

LEMMA WholeKept == ASSUME TypeOK, WholeInv, [Next]_vars PROVE WholeInv'
<1>1. Types
  BY TypeParts
<1>2. CASE UNCHANGED <<whole, up, loaded, loading>>
  BY <1>2 DEF WholeInv
<1>3. ASSUME NEW t \in Tabs, Load(t) \/ Arrive(t) \/ Receive(t) \/ Drop(t) \/ Reconnect(t)
      PROVE  WholeInv'
  <2>1. CASE Load(t)
    BY <1>1, <2>1 DEF WholeInv, Types, Load
  <2>2. CASE Arrive(t)
    BY <1>1, <2>2 DEF WholeInv, Types, Arrive
  <2>3. CASE Receive(t)
    <3>1. whole' \subseteq whole /\ UNCHANGED <<up, loaded, loading>>
      BY <2>3 DEF Receive
    <3> QED BY <3>1 DEF WholeInv
  <2>4. CASE Drop(t)
    BY <1>1, <2>4 DEF WholeInv, Types, Drop, screenVars
  <2>5. CASE Reconnect(t)
    BY <1>1, <2>5 DEF WholeInv, Types, Reconnect, screenVars, historyVars
  <2> QED BY <1>3, <2>1, <2>2, <2>3, <2>4, <2>5
<1>4. CASE \/ UNCHANGED vars
           \/ \E x \in Msgs : Send(x) \/ Refuse(x) \/ Make(x) \/ Botch(x) \/ Tell(x)
           \/ \E u \in Users : \/ ReadBegins(u)
                               \/ \E x \in Msgs, all \in BOOLEAN : Delete(u, x, all)
           \/ \E r \in Readings : ReadEnds(r)
           \/ \E d \in Deletions : Erase(d) \/ TellErased(d)
           \/ \E r \in Tabs : LookAway(r) \/ LookBack(r)
  BY <1>2, <1>4 DEF vars, Send, Refuse, Make, Botch, Tell, ReadBegins, Delete, ReadEnds, Erase,
       TellErased, LookAway, LookBack, screenVars, historyVars
<1> QED BY <1>3, <1>4 DEF Next

\* A push that is shown: its message is known unless it is deleted, an
\* optimistic entry does not outlive its echo or its error, the rest stays.
LEMMA AfterIs ==
  ASSUME NEW t \in Tabs, shown[t] \subseteq Entries, NEW p \in Pushes, NEW m \in Msgs,
         NEW new, new = After(t, p)
  PROVE  /\ (\E e \in new : e.msg = m /\ e.mark = "pending") =>
              Has(t, m, {"pending"}) /\ ~(p.msg = m /\ p.kind \in {"echo", "error"})
         /\ (\E e \in new : e.msg = m /\ e.mark \in Known) <=>
              IF p.msg = m THEN p.kind \in Tellings \/ (Has(t, m, Known) /\ p.kind # "deleted")
              ELSE Has(t, m, Known)
<1>0. /\ p.msg \in Msgs /\ p.kind \in Kinds
      /\ \A e \in shown[t] : e.msg \in Msgs /\ e.mark \in Nonced \cup Known
      /\ \A mark \in Nonced \cup Known :
           Entry(p.msg, mark).msg = p.msg /\ Entry(p.msg, mark).mark = mark
  BY Marks DEF Pushes
<1> USE DEF Has, Nonced, Known, Tellings, Kinds
<1>1. CASE p.kind = "error"
  <2>1. new = {IF e.msg = p.msg /\ e.mark = "echoed" THEN Entry(p.msg, "blamed")
               ELSE IF e.msg = p.msg /\ e.mark = "pending" THEN Entry(p.msg, "failed")
               ELSE e : e \in shown[t]}
    BY <1>1 DEF After, Failed
  <2>2. (\E e \in new : e.msg = m /\ e.mark = "pending") =>
          Has(t, m, {"pending"}) /\ p.msg # m
    BY <1>0, <2>1
  <2>3. (\E e \in new : e.msg = m /\ e.mark \in Known) <=> Has(t, m, Known)
    BY <1>0, <2>1
  <2> QED BY <1>1, <2>2, <2>3
<1>2. CASE p.kind = "deleted"
  <2>1. new = {e \in shown[t] : e.msg = p.msg => e.mark \notin Known}
    BY <1>2 DEF After, Without
  <2> QED BY <1>0, <1>2, <2>1
<1>3. CASE p.kind = "echo" /\ Has(t, p.msg, Nonced)
  <2>1. new = {IF e.msg = p.msg /\ e.mark \in Nonced THEN Entry(p.msg, "echoed")
               ELSE e : e \in shown[t]}
    BY <1>3 DEF After, Remark
  <2>2. (\E e \in new : e.msg = m /\ e.mark = "pending") =>
          Has(t, m, {"pending"}) /\ p.msg # m
    BY <1>0, <2>1
  <2>3. p.msg # m => ((\E e \in new : e.msg = m /\ e.mark \in Known) <=> Has(t, m, Known))
    BY <1>0, <2>1
  <2>4. p.msg = m => \E e \in new : e.msg = m /\ e.mark \in Known
    BY <1>0, <1>3, <2>1
  <2> QED BY <1>3, <2>2, <2>3, <2>4
<1>4. CASE p.kind \in Tellings /\ ~(p.kind = "echo" /\ Has(t, p.msg, Nonced))
  <2>1. new = IF Has(t, p.msg, Known) THEN shown[t]
              ELSE shown[t] \cup {Entry(p.msg, IF p.kind = "echo" THEN "echoed" ELSE "sent")}
    BY <1>4 DEF After
  <2>2. p.kind = "echo" => ~Has(t, p.msg, {"pending"})
    BY <1>4
  <2> QED BY <1>0, <1>4, <2>1, <2>2
<1> QED BY <1>0, <1>1, <1>2, <1>3, <1>4

\* What a tab holds after a push.
LEMMA ReceiveShows ==
  ASSUME Types, NEW r \in Tabs, Receive(r), NEW m \in Msgs
  PROVE  /\ loaded' = loaded
         /\ \A t \in Tabs \ {r} : shown'[t] = shown[t]
         /\ (loaded[r] /\ Has(r, m, {"pending"})') =>
              Has(r, m, {"pending"}) /\ ~(Head(chan[r]).msg = m /\ Head(chan[r]).kind \in {"echo", "error"})
         /\ loaded[r] =>
              (Has(r, m, Known)' <=>
                 IF Head(chan[r]).msg = m
                 THEN \/ Head(chan[r]).kind \in Tellings
                      \/ Has(r, m, Known) /\ Head(chan[r]).kind # "deleted"
                 ELSE Has(r, m, Known))
<1>1. PICK p \in Pushes : p = Head(chan[r])
  BY ReceiveReaches
<1>2. /\ loaded' = loaded
      /\ shown' = IF loaded[r] THEN [shown EXCEPT ![r] = After(r, p)] ELSE shown
  BY <1>1 DEF Receive
<1>3. PICK new : new = After(r, p)
  OBVIOUS
<1>4. shown \in [Tabs -> SUBSET Entries] /\ shown[r] \subseteq Entries
  BY DEF Types
<1>5. loaded[r] => shown'[r] = new
  BY <1>2, <1>3, <1>4
<1>6. \A t \in Tabs \ {r} : shown'[t] = shown[t]
  BY <1>2, <1>4
<1>7. /\ (\E e \in new : e.msg = m /\ e.mark = "pending") =>
           Has(r, m, {"pending"}) /\ ~(p.msg = m /\ p.kind \in {"echo", "error"})
      /\ (\E e \in new : e.msg = m /\ e.mark \in Known) <=>
           IF p.msg = m THEN p.kind \in Tellings \/ (Has(r, m, Known) /\ p.kind # "deleted")
           ELSE Has(r, m, Known)
  BY <1>3, <1>4, AfterIs
<1>8. loaded[r] => /\ Has(r, m, {"pending"})' <=> \E e \in new : e.msg = m /\ e.mark = "pending"
                   /\ Has(r, m, Known)' <=> \E e \in new : e.msg = m /\ e.mark \in Known
  BY <1>5 DEF Has
<1> QED BY <1>1, <1>2, <1>6, <1>7, <1>8

LEMMA PendingKept ==
  ASSUME TypeOK, WholeInv, PendingInv, [Next]_vars PROVE PendingInv'
<1>1. Types
  BY TypeParts
<1>2. SUFFICES ASSUME NEW t \in whole', NEW m \in Msgs, loaded'[t], Has(t, m, {"pending"})'
      PROVE  /\ Author[m] = t
             /\ sending'[m] \in {"asked", "made"} \/ Comes(chan'[t], {"echo", "error"}, m)
  BY DEF PendingInv
<1> DEFINE Waits == /\ Author[m] = t
                    /\ sending'[m] \in {"asked", "made"} \/ Comes(chan'[t], {"echo", "error"}, m)
<1>3. ASSUME t \in whole, loaded[t], Has(t, m, {"pending"})
      PROVE  /\ Author[m] = t /\ t \in Tabs /\ up[t] /\ chan[t] \in Seq(Pushes)
             /\ sending[m] \in {"asked", "made"} \/ Comes(chan[t], {"echo", "error"}, m)
  BY <1>1, <1>3 DEF PendingInv, WholeInv, Types
<1>4. ASSUME t \in whole, loaded[t], Has(t, m, {"pending"}), sending'[m] = sending[m],
             chan'[t] = chan[t]
      PROVE  Waits
  BY <1>3, <1>4
<1>5. ASSUME NEW x \in Msgs, Send(x) PROVE Waits
  <2>1. t \in Tabs /\ loaded[t] /\ t \in whole /\ chan'[t] = chan[t] /\ up[t]
    BY <1>1, <1>2, <1>5 DEF Send, Types, historyVars, WholeInv
  <2>2. CASE Has(t, m, {"pending"}) /\ x # m
    <3>1. sending'[m] = sending[m]
      BY <1>1, <1>5, <2>2 DEF Send, Types
    <3> QED BY <1>4, <2>1, <2>2, <3>1
  <2>3. CASE x = m /\ Author[m] = t
    BY <1>1, <1>5, <2>1, <2>3 DEF Send, Types
  <2>4. Has(t, m, {"pending"}) \/ (x = m /\ Author[m] = t)
    <3>1. shown'[t] = IF t = Author[x] THEN shown[t] \cup {Entry(x, "pending")} ELSE shown[t]
      BY <1>1, <1>5, <2>1 DEF Send, Types
    <3>2. Entry(x, "pending").msg = x
      BY DEF Entry
    <3> QED BY <1>2, <3>1, <3>2 DEF Has
  <2>5. CASE Has(t, m, {"pending"}) /\ x = m
    BY <1>3, <2>1, <2>3, <2>5
  <2> QED BY <2>2, <2>3, <2>4, <2>5
<1>6. ASSUME NEW x \in Msgs, Refuse(x) \/ Make(x) \/ Botch(x) \/ Tell(x) PROVE Waits
  <2>1. t \in whole /\ loaded[t] /\ Has(t, m, {"pending"})
    BY <1>2, <1>6 DEF Refuse, Make, Botch, Tell, screenVars, historyVars, Has
  <2>2. CASE x # m
    <3>1. sending'[m] = sending[m]
      BY <1>1, <1>6, <2>2 DEF Refuse, Make, Botch, Tell, Types
    <3>2. Comes(chan[t], {"echo", "error"}, m) => Comes(chan'[t], {"echo", "error"}, m)
      BY <1>1, <1>3, <1>6, <2>1, BlameReaches, TellReaches, Appended DEF Make
    <3> QED BY <1>3, <2>1, <3>1, <3>2
  <2>3. CASE x = m
    <3>1. CASE Make(m)
      BY <1>1, <1>3, <2>1, <3>1 DEF Make, Types
    <3>2. CASE Refuse(m) \/ Botch(m)
      <4>1. chan'[t] = Append(chan[t], Push("error", m)) /\ Push("error", m) \in Pushes
        BY <1>1, <1>3, <2>1, <3>2, BlameReaches
      <4> QED BY <1>3, <2>1, <4>1, Appended, PushIs DEF Kinds
    <3>3. CASE Tell(m)
      <4>1. chan'[t] = Append(chan[t], Push("echo", m)) /\ Push("echo", m) \in Pushes
        BY <1>1, <1>3, <2>1, <3>3, TellReaches
      <4> QED BY <1>3, <2>1, <4>1, Appended, PushIs DEF Kinds
    <3> QED BY <1>6, <2>3, <3>1, <3>2, <3>3
  <2> QED BY <2>2, <2>3
<1>7. ASSUME NEW d \in Deletions, TellErased(d) PROVE Waits
  <2>1. t \in whole /\ loaded[t] /\ Has(t, m, {"pending"}) /\ sending' = sending
    BY <1>2, <1>7 DEF TellErased, screenVars, historyVars, Has
  <2>2. Comes(chan[t], {"echo", "error"}, m) => Comes(chan'[t], {"echo", "error"}, m)
    BY <1>1, <1>3, <1>7, <2>1, DeletionReaches, Appended
  <2> QED BY <1>3, <2>1, <2>2
<1>8. ASSUME NEW r \in Tabs, Load(r) PROVE Waits
  <2>1. t # r /\ t \in whole /\ loaded[t]
    BY <1>1, <1>2, <1>8 DEF Load, Types
  <2>2. Has(t, m, {"pending"}) /\ sending' = sending /\ chan' = chan
    BY <1>2, <1>8 DEF Load, Has, handlerVars
  <2> QED BY <1>4, <2>1, <2>2
<1>9. ASSUME NEW r \in Tabs, Arrive(r) PROVE Waits
  <2>1. t \in whole /\ sending' = sending /\ chan' = chan /\ t \in Tabs
    BY <1>1, <1>9 DEF Arrive, Types
  <2>2. CASE t = r
    <3>1. shown'[t] = {Entry(x, "sent") : x \in answer[t]}
      BY <1>1, <1>9, <2>1, <2>2 DEF Arrive, Types
    <3>2. \A e \in shown'[t] : e.mark = "sent"
      BY <3>1 DEF Entry
    <3> QED BY <1>2, <3>2 DEF Has
  <2>3. CASE t # r
    <3>1. loaded[t] /\ Has(t, m, {"pending"})
      BY <1>1, <1>2, <1>9, <2>1, <2>3 DEF Arrive, Types, Has
    <3> QED BY <1>4, <2>1, <3>1
  <2> QED BY <2>2, <2>3
<1>10. ASSUME NEW r \in Tabs, Receive(r) PROVE Waits
  <2>1. t \in whole /\ sending' = sending /\ t \in Tabs
    BY <1>1, <1>10 DEF Receive, Types
  <2>2. CASE t = r
    <3>1. /\ loaded[r] /\ Has(r, m, {"pending"})
          /\ ~(Head(chan[r]).msg = m /\ Head(chan[r]).kind \in {"echo", "error"})
      BY <1>1, <1>2, <1>10, <2>2, ReceiveShows
    <3>2. Comes(chan[r], {"echo", "error"}, m) => Comes(chan'[r], {"echo", "error"}, m)
      BY <1>1, <1>10, <3>1, ReceiveReaches
    <3> QED BY <1>3, <2>1, <2>2, <3>1, <3>2
  <2>3. CASE t # r
    <3>1. chan'[t] = chan[t] /\ loaded[t] /\ shown'[t] = shown[t]
      BY <1>1, <1>2, <1>10, <2>1, <2>3, ReceiveReaches, ReceiveShows
    <3>2. Has(t, m, {"pending"})
      BY <1>2, <3>1 DEF Has
    <3> QED BY <1>4, <2>1, <3>1, <3>2
  <2> QED BY <2>2, <2>3
<1>11. ASSUME NEW r \in Tabs, Drop(r) PROVE Waits
  <2>1. t \in whole /\ t # r /\ loaded[t] /\ Has(t, m, {"pending"}) /\ t \in Tabs
    BY <1>1, <1>2, <1>11 DEF Drop, screenVars, Has, Types
  <2>2. sending'[m] = sending[m]
    BY <1>1, <1>3, <1>11, <2>1 DEF Drop, Types
  <2>3. chan'[t] = chan[t]
    BY <1>1, <1>11, <2>1, DropReaches
  <2> QED BY <1>4, <2>1, <2>2, <2>3
<1>12. ASSUME UNCHANGED <<whole, loaded, shown, sending, chan>> PROVE Waits
  <2>1. t \in whole /\ loaded[t] /\ Has(t, m, {"pending"})
    BY <1>2, <1>12 DEF Has
  <2> QED BY <1>4, <1>12, <2>1
<1>13. CASE \/ UNCHANGED vars
            \/ \E u \in Users : \/ ReadBegins(u)
                                \/ \E x \in Msgs, all \in BOOLEAN : Delete(u, x, all)
            \/ \E r \in Readings : ReadEnds(r)
            \/ \E d \in Deletions : Erase(d)
            \/ \E r \in Tabs : LookAway(r) \/ LookBack(r) \/ Reconnect(r)
  BY <1>12, <1>13 DEF vars, ReadBegins, Delete, ReadEnds, Erase, LookAway, LookBack, Reconnect,
       screenVars, historyVars, handlerVars
<1> QED BY <1>5, <1>6, <1>7, <1>8, <1>9, <1>10, <1>11, <1>13 DEF Next

\* What a tab holds changes only with its thread and with what it receives.
LEMMA HeldKept ==
  ASSUME NEW t, UNCHANGED <<shown, loaded, answer>>
  PROVE  Held(t)' = Held(t)
BY DEF Held, ShownIn, Has

\* An optimistic entry is not of a message that is known.
LEMMA HeldBySend ==
  ASSUME Types, NEW x \in Msgs, Send(x), NEW t \in Tabs PROVE Held(t)' = Held(t)
<1>1. /\ loaded' = loaded /\ answer' = answer
      /\ shown'[t] = IF t = Author[x] THEN shown[t] \cup {Entry(x, "pending")} ELSE shown[t]
  BY DEF Types, Send
<1>2. Entry(x, "pending").mark \notin Known
  BY DEF Entry, Known
<1>3. \A m \in Msgs : Has(t, m, Known)' <=> Has(t, m, Known)
  BY <1>1, <1>2 DEF Has
<1> QED BY <1>1, <1>3 DEF Held, ShownIn

\* The thread that is opened holds what is visible then.
LEMMA HeldByLoad ==
  ASSUME Types, NEW r \in Tabs, Load(r), NEW t \in Tabs
  PROVE  Held(t)' = IF t = r THEN Visible(Owner[t]) ELSE Held(t)
BY DEF Types, Load, Held, ShownIn, Has

LEMMA HeldByArrive ==
  ASSUME Types, WholeInv, NEW r \in Tabs, Arrive(r), NEW t \in Tabs PROVE Held(t)' = Held(t)
<1>1. CASE t = r
  <2>1. shown'[t] = {Entry(m, "sent") : m \in answer[t]} /\ loaded'[t] /\ ~loaded[t]
    BY <1>1 DEF Types, Arrive, WholeInv
  <2>2. \A m \in Msgs : Has(t, m, Known)' <=> m \in answer[t]
    <3>1. \A m : Entry(m, "sent").msg = m /\ Entry(m, "sent").mark \in Known
      BY DEF Entry, Known
    <3> QED BY <2>1, <3>1 DEF Has
  <2>3. answer[t] \subseteq Msgs
    BY DEF Types
  <2>4. ShownIn(t)' = answer[t]
    BY <2>2, <2>3 DEF ShownIn
  <2> QED BY <2>1, <2>4 DEF Held
<1>2. CASE t # r
  BY <1>2 DEF Types, Arrive, Held, ShownIn, Has
<1> QED BY <1>1, <1>2

\* A tab that still misses nothing holds what it was told, and no more of what
\* was deleted.
LEMMA HeldByReceive ==
  ASSUME Types, WholeInv, NEW r \in Tabs, Receive(r), NEW t \in whole', NEW m \in Msgs
  PROVE  /\ t \in whole
         /\ m \in Held(t)' =>
              \/ m \in Held(t) /\ ~(t = r /\ Head(chan[r]).msg = m /\ Head(chan[r]).kind = "deleted")
              \/ t = r /\ Head(chan[r]).msg = m /\ Head(chan[r]).kind \in Tellings
         /\ m \in Held(t) =>
              m \in Held(t)' \/ (t = r /\ Head(chan[r]).msg = m /\ Head(chan[r]).kind = "deleted")
         /\ (t = r /\ Head(chan[r]).msg = m /\ Head(chan[r]).kind \in Tellings) => m \in Held(t)'
<1> DEFINE p == Head(chan[r])
<1>1. /\ t \in whole /\ t \in Tabs /\ answer' = answer /\ loaded' = loaded /\ loading' = loading
      /\ t = r => ~Overtakes(r, p)
  BY DEF Receive, Types
<1>2. CASE t # r
  <2>1. shown'[t] = shown[t]
    BY <1>1, <1>2, ReceiveShows
  <2>2. Held(t)' = Held(t)
    BY <1>1, <2>1 DEF Held, ShownIn, Has
  <2> QED BY <1>1, <1>2, <2>2
<1>3. CASE t = r /\ ~loaded[r]
  <2>1. r \in loading /\ Held(t) = answer[r] /\ Held(t)' = answer[r]
    BY <1>1, <1>3 DEF WholeInv, Held
  <2>2. ~(p.kind \in Tellings /\ p.msg \notin answer[r]) /\ ~(p.kind = "deleted" /\ p.msg \in answer[r])
    BY <1>1, <1>3, <2>1 DEF Overtakes, Tellings
  <2> QED BY <1>1, <1>3, <2>1, <2>2
<1>4. CASE t = r /\ loaded[r]
  <2>1. /\ m \in Held(t) <=> Has(r, m, Known)
        /\ m \in Held(t)' <=> Has(r, m, Known)'
    BY <1>1, <1>4 DEF Held, ShownIn
  <2>2. Has(r, m, Known)' <=>
          IF p.msg = m THEN p.kind \in Tellings \/ (Has(r, m, Known) /\ p.kind # "deleted")
          ELSE Has(r, m, Known)
    BY <1>4, ReceiveShows
  <2>3. p.kind = "deleted" => p.kind \notin Tellings
    BY DEF Tellings
  <2> QED BY <1>1, <1>4, <2>1, <2>2, <2>3
<1> QED BY <1>2, <1>3, <1>4

----------------------------------------------------------------------------
(* What the users may see. *)

\* A message becomes visible by the creation of its row only.
LEMMA VisibleSteps ==
  ASSUME Types, [Next]_vars, NEW u \in Users, NEW m \in Msgs, m \in Visible(u)'
  PROVE  m \in Visible(u) \/ Make(m)
<1>0. row'[m] = "live" /\ u \notin hidden'[m]
  BY DEF Visible
<1>1. ASSUME UNCHANGED <<row, hidden>> PROVE m \in Visible(u)
  BY <1>0, <1>1 DEF Visible
<1>2. ASSUME NEW x \in Msgs, Make(x) PROVE m \in Visible(u) \/ Make(m)
  BY <1>0, <1>2 DEF Make, Types, Visible
<1>3. ASSUME NEW d \in Deletions, Erase(d) PROVE m \in Visible(u)
  <2>1. CASE d.msg \notin Visible(d.user)
    BY <1>1, <1>3, <2>1 DEF Erase
  <2>2. CASE d.msg \in Visible(d.user)
    <3>1. \/ row' = [row EXCEPT ![d.msg] = "deleted"] /\ hidden' = hidden
          \/ row' = row /\ hidden' = [hidden EXCEPT ![d.msg] = hidden[d.msg] \cup {d.user}]
      BY <1>3, <2>2 DEF Erase
    <3> QED BY <1>0, <3>1 DEF Types, Visible
  <2> QED BY <2>1, <2>2
<1>4. CASE \/ UNCHANGED vars
           \/ \E x \in Msgs : Send(x) \/ Refuse(x) \/ Botch(x) \/ Tell(x)
           \/ \E v \in Users : \/ ReadBegins(v)
                               \/ \E x \in Msgs, all \in BOOLEAN : Delete(v, x, all)
           \/ \E r \in Readings : ReadEnds(r)
           \/ \E d \in Deletions : TellErased(d)
           \/ \E r \in Tabs : \/ Load(r) \/ Arrive(r) \/ LookAway(r) \/ LookBack(r)
                              \/ Receive(r) \/ Drop(r) \/ Reconnect(r)
  BY <1>1, <1>4 DEF vars, Send, Refuse, Botch, Tell, ReadBegins, Delete, ReadEnds, TellErased, Load,
       Arrive, LookAway, LookBack, Receive, Drop, Reconnect, dbVars
<1> QED BY <1>2, <1>3, <1>4 DEF Next

\* And it is lost by a deletion that is told.
LEMMA VisibleLost ==
  ASSUME Types, RowsInv, [Next]_vars, NEW u \in Users, NEW m \in Msgs, m \in Visible(u)
  PROVE  m \in Visible(u)' \/ Erased(u, m)'
<1>0. row[m] = "live" /\ u \notin hidden[m]
  BY DEF Visible
<1>1. ASSUME UNCHANGED <<row, hidden>> PROVE m \in Visible(u)'
  BY <1>0, <1>1 DEF Visible
<1>2. ASSUME NEW x \in Msgs, Make(x) PROVE m \in Visible(u)'
  <2>1. x # m
    BY <1>0, <1>2 DEF Make, RowsInv, None
  <2> QED BY <1>0, <1>2, <2>1 DEF Make, Types, Visible
<1>3. ASSUME NEW d \in Deletions, Erase(d) PROVE m \in Visible(u)' \/ Erased(u, m)'
  <2>1. CASE d.msg \notin Visible(d.user)
    BY <1>1, <1>3, <2>1 DEF Erase
  <2>2. CASE d.msg \in Visible(d.user)
    <3>1. PICK e : e = [d EXCEPT !.done = TRUE]
      OBVIOUS
    <3>2. /\ e \in deleting'
          /\ e.done /\ e.msg = d.msg /\ e.all = d.all /\ e.user = d.user /\ d.all \in BOOLEAN
          /\ IF d.all THEN row' = [row EXCEPT ![d.msg] = "deleted"] /\ hidden' = hidden
             ELSE hidden' = [hidden EXCEPT ![d.msg] = hidden[d.msg] \cup {d.user}] /\ row' = row
      BY <1>3, <2>2, <3>1 DEF Erase, Deletions
    <3>3. CASE d.msg = m /\ (d.all \/ d.user = u)
      BY <3>2, <3>3 DEF Erased
    <3>4. CASE ~(d.msg = m /\ (d.all \/ d.user = u))
      BY <1>0, <3>2, <3>4 DEF Types, Visible
    <3> QED BY <3>3, <3>4
  <2> QED BY <2>1, <2>2
<1>4. CASE \/ UNCHANGED vars
           \/ \E x \in Msgs : Send(x) \/ Refuse(x) \/ Botch(x) \/ Tell(x)
           \/ \E v \in Users : \/ ReadBegins(v)
                               \/ \E x \in Msgs, all \in BOOLEAN : Delete(v, x, all)
           \/ \E r \in Readings : ReadEnds(r)
           \/ \E d \in Deletions : TellErased(d)
           \/ \E r \in Tabs : \/ Load(r) \/ Arrive(r) \/ LookAway(r) \/ LookBack(r)
                              \/ Receive(r) \/ Drop(r) \/ Reconnect(r)
  BY <1>1, <1>4 DEF vars, Send, Refuse, Botch, Tell, ReadBegins, Delete, ReadEnds, TellErased, Load,
       Arrive, LookAway, LookBack, Receive, Drop, Reconnect, dbVars
<1> QED BY <1>2, <1>3, <1>4 DEF Next

\* A handler that is about to tell a deletion stays so until it does.
LEMMA ErasedTold ==
  ASSUME Types, [Next]_vars, NEW u \in Users, NEW m \in Msgs, Erased(u, m)
  PROVE  \/ Erased(u, m)'
         \/ \E d \in Deletions : TellErased(d) /\ d.msg = m /\ (d.all \/ d.user = u)
<1>1. PICK d \in deleting : d.done /\ d.msg = m /\ (d.all \/ d.user = u)
  BY DEF Erased
<1>2. ASSUME d \in deleting' PROVE Erased(u, m)'
  BY <1>1, <1>2 DEF Erased
<1>3. ASSUME NEW e \in Deletions, Erase(e) PROVE d \in deleting'
  BY <1>1, <1>3 DEF Erase
<1>4. ASSUME NEW e \in Deletions, TellErased(e) PROVE d \in deleting' \/ d = e
  BY <1>1, <1>4 DEF TellErased
<1>5. ASSUME NEW v \in Users, NEW x \in Msgs, NEW all \in BOOLEAN, Delete(v, x, all)
      PROVE  d \in deleting'
  BY <1>1, <1>5 DEF Delete
<1>6. CASE \/ UNCHANGED vars
           \/ \E x \in Msgs : Send(x) \/ Refuse(x) \/ Make(x) \/ Botch(x) \/ Tell(x)
           \/ \E v \in Users : ReadBegins(v)
           \/ \E r \in Readings : ReadEnds(r)
           \/ \E r \in Tabs : \/ Load(r) \/ Arrive(r) \/ LookAway(r) \/ LookBack(r)
                              \/ Receive(r) \/ Drop(r) \/ Reconnect(r)
  <2>1. deleting' = deleting
    BY <1>6 DEF vars, Send, Refuse, Make, Botch, Tell, ReadBegins, ReadEnds, Load,
         Arrive, LookAway, LookBack, Receive, Drop, Reconnect, handlerVars
  <2> QED BY <1>1, <1>2, <2>1
<1> QED BY <1>1, <1>2, <1>3, <1>4, <1>5, <1>6 DEF Next

----------------------------------------------------------------------------
(* Nothing visible is missing. *)

LEMMA PresentKept ==
  ASSUME TypeOK, RowsInv, WholeInv, PresentInv, [Next]_vars PROVE PresentInv'
<1>1. Types
  BY TypeParts
<1>2. SUFFICES ASSUME NEW t \in whole', NEW m \in Msgs, m \in Visible(Owner[t])', m \notin botched'
      PROVE  m \in Held(t)' \/ sending'[m] = "made" \/ Comes(chan'[t], Tellings, m)
  BY DEF PresentInv, Visible
<1> DEFINE There == m \in Held(t)' \/ sending'[m] = "made" \/ Comes(chan'[t], Tellings, m)
<1>3. CASE Make(m)
  BY <1>1, <1>3 DEF Make, Types
<1>4. CASE ~Make(m)
  <2>1. t \in Tabs /\ Owner[t] \in Users
    <3>1. whole' \subseteq Tabs
      BY TypeKept, TypeParts DEF Types
    <3> QED BY <3>1, WhoAssumption
  <2>2. m \in Visible(Owner[t])
    BY <1>1, <1>2, <1>4, <2>1, VisibleSteps
  <2>3. chan[t] \in Seq(Pushes)
    BY <1>1, <2>1 DEF Types
  <2>4. ASSUME t \in whole, m \notin botched
        PROVE  m \in Held(t) \/ sending[m] = "made" \/ Comes(chan[t], Tellings, m)
    BY <2>2, <2>4 DEF PresentInv
  <2>5. ASSUME t \in whole, m \notin botched, Held(t)' = Held(t), sending'[m] = sending[m],
               Comes(chan[t], Tellings, m) => Comes(chan'[t], Tellings, m)
        PROVE  There
    BY <2>4, <2>5
  <2>6. ASSUME NEW x \in Msgs, Send(x) PROVE There
    <3>1. t \in whole /\ m \notin botched /\ chan' = chan
      BY <1>2, <2>6 DEF Send, historyVars
    <3>2. sending'[m] = sending[m] \/ sending[m] # "made"
      BY <1>1, <2>6 DEF Send, Types, None
    <3> QED BY <1>1, <2>1, <2>4, <2>6, <3>1, <3>2, HeldBySend
  <2>7. ASSUME NEW x \in Msgs, Make(x) PROVE There
    <3>1. x # m
      BY <1>4, <2>7
    <3>2. /\ t \in whole /\ m \notin botched /\ chan' = chan /\ sending'[m] = sending[m]
          /\ UNCHANGED <<shown, loaded, answer>>
      BY <1>1, <1>2, <2>7, <3>1 DEF Make, Types, screenVars, historyVars
    <3> QED BY <2>5, <3>2, HeldKept
  <2>8. ASSUME NEW x \in Msgs, Refuse(x) \/ Botch(x) PROVE There
    <3>1. /\ t \in whole /\ m \notin botched /\ UNCHANGED <<shown, loaded, answer>>
          /\ sending'[m] = sending[m] \/ sending[m] # "made"
      BY <1>1, <1>2, <2>8 DEF Refuse, Botch, Types, screenVars, historyVars
    <3>2. Comes(chan[t], Tellings, m) => Comes(chan'[t], Tellings, m)
      BY <1>1, <2>1, <2>3, <2>8, BlameReaches, Appended
    <3> QED BY <2>4, <3>1, <3>2, HeldKept
  <2>9. ASSUME NEW x \in Msgs, Tell(x) PROVE There
    <3>1. /\ t \in whole /\ m \notin botched /\ UNCHANGED <<shown, loaded, answer>> /\ up[t]
      BY <1>2, <2>9 DEF Tell, screenVars, WholeInv
    <3>2. Comes(chan[t], Tellings, m) => Comes(chan'[t], Tellings, m)
      BY <1>1, <2>1, <2>3, <2>9, TellReaches, Appended
    <3>3. CASE x = m
      <4>1. \E kind \in Tellings :
              Push(kind, m) \in Pushes /\ chan'[t] = Append(chan[t], Push(kind, m))
        BY <1>1, <2>1, <2>9, <3>1, <3>3, TellReaches DEF Tellings
      <4>2. PICK kind \in Tellings :
              Push(kind, m) \in Pushes /\ chan'[t] = Append(chan[t], Push(kind, m))
        BY <4>1
      <4>3. Push(kind, m).msg = m /\ Push(kind, m).kind = kind
        BY DEF Push
      <4> QED BY <2>3, <4>2, <4>3, Appended
    <3>4. CASE x # m
      <4>1. sending'[m] = sending[m]
        BY <1>1, <2>9, <3>4 DEF Tell, Types
      <4> QED BY <2>5, <3>1, <3>2, <4>1, HeldKept
    <3> QED BY <3>3, <3>4
  <2>10. ASSUME NEW d \in Deletions, TellErased(d) PROVE There
    <3>1. t \in whole /\ m \notin botched /\ UNCHANGED <<shown, loaded, answer>> /\ sending' = sending
      BY <1>2, <2>10 DEF TellErased, screenVars, historyVars
    <3>2. Comes(chan[t], Tellings, m) => Comes(chan'[t], Tellings, m)
      BY <1>1, <2>1, <2>3, <2>10, DeletionReaches, Appended
    <3> QED BY <2>5, <3>1, <3>2, HeldKept
  <2>11. ASSUME NEW r \in Tabs, Load(r) PROVE There
    <3>1. CASE t = r
      BY <1>1, <2>1, <2>2, <2>11, <3>1, HeldByLoad
    <3>2. CASE t # r
      <4>1. t \in whole /\ m \notin botched /\ sending' = sending /\ chan' = chan
        BY <1>2, <2>11, <3>2 DEF Load, handlerVars
      <4> QED BY <1>1, <2>1, <2>5, <2>11, <3>2, <4>1, HeldByLoad
    <3> QED BY <3>1, <3>2
  <2>12. ASSUME NEW r \in Tabs, Arrive(r) PROVE There
    <3>1. t \in whole /\ m \notin botched /\ sending' = sending /\ chan' = chan
      BY <1>2, <2>12 DEF Arrive
    <3> QED BY <1>1, <2>1, <2>5, <2>12, <3>1, HeldByArrive
  <2>13. ASSUME NEW r \in Tabs, Receive(r) PROVE There
    <3>1. m \notin botched /\ sending' = sending
      BY <1>2, <2>13 DEF Receive
    <3>2. t \in whole
      BY <1>1, <2>13, HeldByReceive
    <3>3. CASE m \in Held(t)
      <4>1. ~(t = r /\ Head(chan[r]).msg = m /\ Head(chan[r]).kind = "deleted")
        <5>1. SUFFICES ASSUME Comes(chan[t], {"deleted"}, m) PROVE FALSE
          BY <1>1, <2>13, ReceiveReaches
        <5>2. Gone(Owner[t], m)
          BY <2>1, <5>1 DEF RowsInv
        <5> QED BY <2>2, <5>2 DEF Visible, Gone
      <4> QED BY <1>1, <2>13, <3>3, <4>1, HeldByReceive
    <3>4. CASE Comes(chan[t], Tellings, m)
      <4>1. Comes(chan'[t], Tellings, m)
              \/ (t = r /\ Head(chan[r]).msg = m /\ Head(chan[r]).kind \in Tellings)
        BY <1>1, <2>1, <2>13, <3>4, ReceiveReaches
      <4> QED BY <1>1, <2>13, <4>1, HeldByReceive
    <3> QED BY <2>4, <3>1, <3>2, <3>3, <3>4
  <2>14. ASSUME NEW r \in Tabs, Drop(r) PROVE There
    <3>1. /\ t \in whole /\ t # r /\ m \notin botched /\ UNCHANGED <<shown, loaded, answer>>
          /\ sending'[m] = sending[m] \/ sending[m] # "made"
      BY <1>1, <1>2, <2>14 DEF Drop, Types, screenVars
    <3>2. chan'[t] = chan[t]
      BY <1>1, <2>1, <2>14, <3>1, DropReaches
    <3> QED BY <2>4, <3>1, <3>2, HeldKept
  <2>15. ASSUME UNCHANGED <<whole, botched, shown, loaded, answer, sending, chan>> PROVE There
    BY <1>2, <2>5, <2>15, HeldKept
  <2>16. CASE \/ UNCHANGED vars
              \/ \E u \in Users : \/ ReadBegins(u)
                                  \/ \E x \in Msgs, all \in BOOLEAN : Delete(u, x, all)
              \/ \E r \in Readings : ReadEnds(r)
              \/ \E d \in Deletions : Erase(d)
              \/ \E r \in Tabs : LookAway(r) \/ LookBack(r) \/ Reconnect(r)
    BY <2>15, <2>16 DEF vars, ReadBegins, Delete, ReadEnds, Erase, LookAway, LookBack, Reconnect,
         screenVars, historyVars, handlerVars
  <2> QED BY <2>6, <2>7, <2>8, <2>9, <2>10, <2>11, <2>12, <2>13, <2>14, <2>16 DEF Next
<1> QED BY <1>3, <1>4

----------------------------------------------------------------------------
(* Nothing deleted is kept. *)

\* What AbsentInv says of a tab and of a message that is neither visible nor
\* about to be told deleted.
Absent(t, m) ==
  /\ Undone(chan[t], m)
  /\ (t \in whole /\ m \in Held(t)) => Comes(chan[t], {"deleted"}, m)

LEMMA AbsentSteps ==
  ASSUME TypeOK, RowsInv, WholeInv, [Next]_vars, NEW t \in Tabs, NEW m \in Msgs,
         m \notin crossed', Absent(t, m), m \notin Visible(Owner[t]), m \notin Visible(Owner[t])'
  PROVE  Absent(t, m)'
<1>1. Types /\ chan[t] \in Seq(Pushes) /\ Owner[t] \in Users
  BY TypeParts, WhoAssumption DEF Types
<1>2. Undone(chan[t], m) /\ ((t \in whole /\ m \in Held(t)) => Comes(chan[t], {"deleted"}, m))
  BY DEF Absent
<1>3. ASSUME Undone(chan'[t], m), t \in whole' => t \in whole, Held(t)' = Held(t),
             Comes(chan[t], {"deleted"}, m) => Comes(chan'[t], {"deleted"}, m)
      PROVE  Absent(t, m)'
  BY <1>2, <1>3 DEF Absent
<1>4. ASSUME chan'[t] = chan[t], t \in whole' => t \in whole, Held(t)' = Held(t)
      PROVE  Absent(t, m)'
  BY <1>2, <1>3, <1>4
<1>5. ASSUME NEW p \in Pushes, chan'[t] = chan[t] \/ chan'[t] = Append(chan[t], p),
             ~(p.msg = m /\ p.kind \in Tellings),
             t \in whole' => t \in whole, UNCHANGED <<shown, loaded, answer>>
      PROVE  Absent(t, m)'
  <2>1. Held(t)' = Held(t)
    BY <1>5, HeldKept
  <2>2. CASE chan'[t] = chan[t]
    BY <1>4, <1>5, <2>1, <2>2
  <2>3. CASE chan'[t] = Append(chan[t], p)
    <3>1. Undone(chan'[t], m)
      BY <1>1, <1>2, <1>5, <2>3, Appended
    <3>2. Comes(chan[t], {"deleted"}, m) => Comes(chan'[t], {"deleted"}, m)
      BY <1>1, <1>5, <2>3, Appended
    <3> QED BY <1>3, <1>5, <2>1, <3>1, <3>2
  <2> QED BY <1>5, <2>2, <2>3
<1>6. ASSUME NEW x \in Msgs, Send(x) PROVE Absent(t, m)'
  <2>1. chan' = chan /\ whole' = whole
    BY <1>6 DEF Send, historyVars
  <2> QED BY <1>1, <1>4, <1>6, <2>1, HeldBySend
<1>7. ASSUME NEW x \in Msgs, Refuse(x) \/ Botch(x) PROVE Absent(t, m)'
  <2>1. whole' = whole /\ UNCHANGED <<shown, loaded, answer>>
    BY <1>7 DEF Refuse, Botch, screenVars, historyVars
  <2>2. /\ Push("error", x) \in Pushes
        /\ chan'[t] = chan[t] \/ chan'[t] = Append(chan[t], Push("error", x))
    BY <1>1, <1>7, BlameReaches
  <2>3. Push("error", x).kind \notin Tellings
    BY DEF Push, Tellings
  <2> QED BY <1>5, <2>1, <2>2, <2>3
<1>8. ASSUME NEW x \in Msgs, Tell(x) PROVE Absent(t, m)'
  <2>1. whole' = whole /\ UNCHANGED <<shown, loaded, answer>>
    BY <1>8 DEF Tell, screenVars
  <2>2. CASE x = m
    <3>1. row[m] # "deleted" /\ hidden[m] = {} /\ sending[m] = "made"
      BY <1>8, <2>2 DEF Tell
    <3>2. row[m] = "live"
      BY <1>1, <3>1 DEF RowsInv, Types
    <3> QED BY <3>1, <3>2 DEF Visible
  <2>3. CASE x # m
    <3>1. \E p \in Pushes : p.msg = x /\ (chan'[t] = chan[t] \/ chan'[t] = Append(chan[t], p))
      <4>1. Push("echo", x).msg = x /\ Push("message", x).msg = x
        BY DEF Push
      <4> QED BY <1>1, <1>8, <4>1, TellReaches
    <3> QED BY <1>5, <2>1, <2>3, <3>1
  <2> QED BY <2>2, <2>3
<1>9. ASSUME NEW d \in Deletions, TellErased(d) PROVE Absent(t, m)'
  <2>1. whole' = whole /\ UNCHANGED <<shown, loaded, answer>>
    BY <1>9 DEF TellErased, screenVars, historyVars
  <2>2. /\ Push("deleted", d.msg) \in Pushes
        /\ chan'[t] = chan[t] \/ chan'[t] = Append(chan[t], Push("deleted", d.msg))
    BY <1>1, <1>9, DeletionReaches
  <2>3. Push("deleted", d.msg).kind \notin Tellings
    BY DEF Push, Tellings
  <2> QED BY <1>5, <2>1, <2>2, <2>3
<1>10. ASSUME NEW r \in Tabs, Load(r) PROVE Absent(t, m)'
  <2>1. chan' = chan
    BY <1>10 DEF Load
  <2>2. CASE t = r
    <3>1. m \notin Held(t)'
      BY <1>1, <1>10, <2>2, HeldByLoad
    <3> QED BY <1>2, <2>1, <3>1 DEF Absent
  <2>3. CASE t # r
    <3>1. t \in whole' => t \in whole
      BY <1>10, <2>3 DEF Load
    <3> QED BY <1>1, <1>4, <1>10, <2>1, <2>3, <3>1, HeldByLoad
  <2> QED BY <2>2, <2>3
<1>11. ASSUME NEW r \in Tabs, Arrive(r) PROVE Absent(t, m)'
  <2>1. chan' = chan /\ whole' = whole
    BY <1>11 DEF Arrive
  <2> QED BY <1>1, <1>4, <1>11, <2>1, HeldByArrive
<1>12. ASSUME NEW r \in Tabs, Receive(r) PROVE Absent(t, m)'
  <2>1. CASE t # r
    <3>1. chan'[t] = chan[t]
      BY <1>1, <1>12, <2>1, ReceiveReaches
    <3>2. ASSUME t \in whole', m \in Held(t)' PROVE t \in whole /\ m \in Held(t)
      BY <1>1, <1>12, <2>1, <3>2, HeldByReceive
    <3> QED BY <1>2, <3>1, <3>2 DEF Absent
  <2>2. CASE t = r
    <3>1. Undone(chan'[t], m)
      BY <1>1, <1>2, <1>12, <2>2, ReceiveReaches
    <3>2. ASSUME t \in whole', m \in Held(t)' PROVE Comes(chan'[t], {"deleted"}, m)
      <4>1. t \in whole
        BY <1>1, <1>12, <3>2, HeldByReceive
      <4>2. \/ m \in Held(t) /\ ~(Head(chan[t]).msg = m /\ Head(chan[t]).kind = "deleted")
            \/ Head(chan[t]).msg = m /\ Head(chan[t]).kind \in Tellings
        BY <1>1, <1>12, <2>2, <3>2, HeldByReceive
      <4> QED BY <1>1, <1>2, <1>12, <2>2, <4>1, <4>2, ReceiveReaches
    <3> QED BY <3>1, <3>2 DEF Absent
  <2> QED BY <2>1, <2>2
<1>13. ASSUME NEW r \in Tabs, Drop(r) PROVE Absent(t, m)'
  <2>1. CASE t = r
    <3>1. chan'[t] = <<>>
      BY <1>1, <1>13, <2>1, DropReaches
    <3>2. t \notin whole'
      BY <1>13, <2>1 DEF Drop
    <3> QED BY <3>1, <3>2, NothingComes DEF Absent
  <2>2. CASE t # r
    <3>1. chan'[t] = chan[t]
      BY <1>1, <1>13, <2>2, DropReaches
    <3>2. (t \in whole' => t \in whole) /\ UNCHANGED <<shown, loaded, answer>>
      BY <1>13 DEF Drop, screenVars
    <3> QED BY <1>4, <3>1, <3>2, HeldKept
  <2> QED BY <2>1, <2>2
<1>14. ASSUME UNCHANGED <<whole, shown, loaded, answer, chan>> PROVE Absent(t, m)'
  BY <1>4, <1>14, HeldKept
<1>15. CASE \/ UNCHANGED vars
            \/ \E x \in Msgs : Make(x)
            \/ \E u \in Users : \/ ReadBegins(u)
                                \/ \E x \in Msgs, all \in BOOLEAN : Delete(u, x, all)
            \/ \E r \in Readings : ReadEnds(r)
            \/ \E d \in Deletions : Erase(d)
            \/ \E r \in Tabs : LookAway(r) \/ LookBack(r) \/ Reconnect(r)
  BY <1>14, <1>15 DEF vars, Make, ReadBegins, Delete, ReadEnds, Erase, LookAway, LookBack, Reconnect,
       screenVars, historyVars
<1> QED BY <1>6, <1>7, <1>8, <1>9, <1>10, <1>11, <1>12, <1>13, <1>15 DEF Next

LEMMA AbsentKept ==
  ASSUME TypeOK, RowsInv, WholeInv, AbsentInv, [Next]_vars PROVE AbsentInv'
<1>1. Types
  BY TypeParts
<1>2. crossed \subseteq crossed'
  BY DEF Next, vars, Send, Refuse, Make, Botch, Tell, ReadBegins, Delete, ReadEnds, Erase, TellErased,
     Load, Arrive, LookAway, LookBack, Receive, Drop, Reconnect, historyVars
<1>3. SUFFICES ASSUME NEW t \in Tabs, NEW m \in Msgs, m \notin crossed',
                      m \notin Visible(Owner[t])', ~Erased(Owner[t], m)'
      PROVE  Absent(t, m)'
  BY DEF AbsentInv, Absent
<1>4. Owner[t] \in Users /\ chan[t] \in Seq(Pushes)
  BY <1>1, WhoAssumption DEF Types
<1>5. m \notin Visible(Owner[t])
  BY <1>1, <1>3, <1>4, VisibleLost
<1>6. CASE Erased(Owner[t], m)
  <2>1. PICK d \in Deletions : TellErased(d) /\ d.msg = m /\ (d.all \/ d.user = Owner[t])
    BY <1>1, <1>3, <1>4, <1>6, ErasedTold
  <2>2. /\ Push("deleted", m) \in Pushes
        /\ chan'[t] = IF up[t] THEN Append(chan[t], Push("deleted", m)) ELSE chan[t]
    BY <1>1, <2>1, DeletionReaches
  <2>3. CASE up[t]
    <3>1. Push("deleted", m).msg = m /\ Push("deleted", m).kind = "deleted"
      BY DEF Push
    <3>2. Undone(chan'[t], m) /\ Comes(chan'[t], {"deleted"}, m)
      BY <1>4, <2>2, <2>3, <3>1, Appended
    <3> QED BY <3>2 DEF Absent
  <2>4. CASE ~up[t]
    <3>1. chan'[t] = <<>> /\ t \notin whole
      BY <1>1, <2>2, <2>4 DEF Types, WholeInv
    <3>2. whole' = whole
      BY <2>1 DEF TellErased, historyVars
    <3> QED BY <3>1, <3>2, NothingComes DEF Absent
  <2> QED BY <2>3, <2>4
<1>7. CASE ~Erased(Owner[t], m)
  <2>1. Absent(t, m)
    BY <1>2, <1>3, <1>5, <1>7 DEF AbsentInv, Absent
  <2> QED BY <1>3, <1>5, <2>1, AbsentSteps
<1> QED BY <1>6, <1>7

----------------------------------------------------------------------------
(* Who watches has read. *)

LEMMA ReadKept ==
  ASSUME TypeOK, RowsInv, ReadInv, [Next]_vars PROVE ReadInv'
<1>1. Types
  BY TypeParts
<1>2. Types'
  BY TypeKept, TypeParts
<1>3. ASSUME NEW t \in steady' PROVE up'[t] /\ t \in watched'
  <2>1. t \in watched' /\ t \in Tabs
    BY <1>2 DEF Types
  <2>2. up'[t]
    <3>1. CASE UNCHANGED <<steady, up>>
      BY <3>1 DEF ReadInv
    <3>2. ASSUME NEW r \in Tabs, Load(r) \/ Arrive(r) \/ LookAway(r) PROVE up'[t]
      BY <1>1, <3>2 DEF ReadInv, Types, Load, Arrive, LookAway
    <3>3. ASSUME NEW r \in Tabs, Drop(r) \/ Reconnect(r) PROVE up'[t]
      BY <1>1, <2>1, <3>3 DEF ReadInv, Types, Drop, Reconnect, historyVars
    <3>4. CASE \/ UNCHANGED vars
               \/ \E x \in Msgs : Send(x) \/ Refuse(x) \/ Make(x) \/ Botch(x) \/ Tell(x)
               \/ \E u \in Users : \/ ReadBegins(u)
                                   \/ \E x \in Msgs, all \in BOOLEAN : Delete(u, x, all)
               \/ \E r \in Readings : ReadEnds(r)
               \/ \E d \in Deletions : Erase(d) \/ TellErased(d)
               \/ \E r \in Tabs : LookBack(r) \/ Receive(r)
      BY <3>1, <3>4 DEF vars, Send, Refuse, Make, Botch, Tell, ReadBegins, Delete, ReadEnds, Erase,
           TellErased, LookBack, Receive, historyVars
    <3> QED BY <3>2, <3>3, <3>4 DEF Next
  <2> QED BY <2>1, <2>2
<1>4. ASSUME NEW t \in steady', NEW m \in Msgs, Owner[Author[m]] # Owner[t],
             m \notin botched', row'[m] = "live"
      PROVE  \/ m \in read' \/ sending'[m] = "made" \/ Comes(chan'[t], {"message"}, m)
             \/ readers'[Owner[t]] > 0 \/ \E r \in reads' : m \in r.rows
  <2> DEFINE Reads == \/ m \in read' \/ sending'[m] = "made" \/ Comes(chan'[t], {"message"}, m)
                      \/ readers'[Owner[t]] > 0 \/ \E r \in reads' : m \in r.rows
  <2>1. t \in Tabs /\ Owner[t] \in Users /\ chan[t] \in Seq(Pushes)
    BY <1>1, <1>2, WhoAssumption DEF Types
  <2>2. ASSUME t \in steady, row[m] = "live", m \notin botched
        PROVE  /\ up[t] /\ t \in watched
               /\ \/ m \in read \/ sending[m] = "made" \/ Comes(chan[t], {"message"}, m)
                  \/ readers[Owner[t]] > 0 \/ \E r \in reads : m \in r.rows
    BY <1>4, <2>2 DEF ReadInv, Incoming
  <2>3. ASSUME t \in steady, row[m] = "live", m \notin botched, UNCHANGED <<read, readers, reads>>,
               sending'[m] = sending[m] \/ sending[m] # "made",
               Comes(chan[t], {"message"}, m) => Comes(chan'[t], {"message"}, m)
        PROVE  Reads
    BY <2>2, <2>3
  <2>4. ASSUME NEW x \in Msgs, Send(x) PROVE Reads
    <3>1. /\ t \in steady /\ row[m] = "live" /\ m \notin botched /\ chan' = chan
          /\ UNCHANGED <<read, readers, reads>>
      BY <1>4, <2>4 DEF Send, dbVars, historyVars
    <3>2. sending'[m] = sending[m] \/ sending[m] # "made"
      BY <1>1, <2>4 DEF Send, Types, None
    <3> QED BY <2>3, <3>1, <3>2
  <2>5. ASSUME NEW x \in Msgs, Refuse(x) \/ Botch(x) PROVE Reads
    <3>1. /\ t \in steady /\ row[m] = "live" /\ m \notin botched
          /\ UNCHANGED <<read, readers, reads>>
          /\ sending'[m] = sending[m] \/ sending[m] # "made"
      BY <1>1, <1>4, <2>5 DEF Refuse, Botch, Types, dbVars, historyVars
    <3>2. Comes(chan[t], {"message"}, m) => Comes(chan'[t], {"message"}, m)
      BY <1>1, <2>1, <2>5, BlameReaches, Appended
    <3> QED BY <2>3, <3>1, <3>2
  <2>6. ASSUME NEW x \in Msgs, Make(x) PROVE Reads
    <3>1. CASE x = m
      BY <1>1, <2>6, <3>1 DEF Make, Types
    <3>2. CASE x # m
      <4>1. /\ t \in steady /\ row[m] = "live" /\ m \notin botched /\ chan' = chan
            /\ UNCHANGED <<read, readers, reads>> /\ sending'[m] = sending[m]
        BY <1>1, <1>4, <2>6, <3>2 DEF Make, Types, historyVars
      <4> QED BY <2>3, <4>1
    <3> QED BY <3>1, <3>2
  <2>7. ASSUME NEW x \in Msgs, Tell(x) PROVE Reads
    <3>1. /\ t \in steady /\ row[m] = "live" /\ m \notin botched
          /\ UNCHANGED <<read, readers, reads>>
      BY <1>4, <2>7 DEF Tell, dbVars
    <3>2. CASE x = m
      <4>1. /\ Push("message", m) \in Pushes
            /\ chan'[t] = Append(chan[t], Push("message", m))
        BY <1>1, <1>4, <2>1, <2>2, <2>7, <3>1, <3>2, TellReaches
      <4>2. Push("message", m).msg = m /\ Push("message", m).kind = "message"
        BY DEF Push
      <4> QED BY <2>1, <4>1, <4>2, Appended
    <3>3. CASE x # m
      <4>1. sending'[m] = sending[m]
        BY <1>1, <2>7, <3>3 DEF Tell, Types
      <4>2. Comes(chan[t], {"message"}, m) => Comes(chan'[t], {"message"}, m)
        BY <1>1, <2>1, <2>7, TellReaches, Appended
      <4> QED BY <2>3, <3>1, <4>1, <4>2
    <3> QED BY <3>2, <3>3
  <2>8. ASSUME NEW u \in Users, ReadBegins(u) PROVE Reads
    <3>1. /\ t \in steady /\ row[m] = "live" /\ m \notin botched /\ chan' = chan /\ sending' = sending
          /\ read' = read /\ reads \subseteq reads'
      BY <1>4, <2>8 DEF ReadBegins, dbVars, historyVars
    <3>2. CASE u = Owner[t]
      <4>1. PICK r : r = [user |-> u, rows |-> {x \in Incoming(u) : row[x] = "live"}]
        OBVIOUS
      <4>2. r \in reads'
        BY <2>8, <4>1 DEF ReadBegins
      <4>3. r.rows = {x \in Incoming(u) : row[x] = "live"}
        BY <4>1
      <4>4. m \in r.rows
        BY <1>4, <2>1, <3>1, <3>2, <4>3 DEF Incoming
      <4> QED BY <4>2, <4>4
    <3>3. CASE u # Owner[t]
      <4>1. readers'[Owner[t]] = readers[Owner[t]]
        BY <1>1, <2>1, <2>8, <3>3 DEF ReadBegins, Types
      <4> QED BY <2>2, <3>1, <4>1
    <3> QED BY <3>2, <3>3
  <2>9. ASSUME NEW r \in Readings, ReadEnds(r) PROVE Reads
    <3>1. /\ t \in steady /\ row[m] = "live" /\ m \notin botched /\ chan' = chan /\ sending' = sending
          /\ readers' = readers /\ reads' = reads \ {r}
          /\ read' = read \cup {x \in r.rows : row[x] = "live"}
      BY <1>4, <2>9 DEF ReadEnds, historyVars
    <3> QED BY <2>2, <3>1
  <2>10. ASSUME NEW d \in Deletions, Erase(d) PROVE Reads
    <3>1. row[m] = "live"
      BY <1>1, <1>4, <2>10 DEF Erase, Types
    <3>2. /\ t \in steady /\ m \notin botched /\ chan' = chan /\ sending' = sending
          /\ UNCHANGED <<read, readers, reads>>
      BY <1>4, <2>10 DEF Erase, historyVars
    <3> QED BY <2>3, <3>1, <3>2
  <2>11. ASSUME NEW d \in Deletions, TellErased(d) PROVE Reads
    <3>1. /\ t \in steady /\ row[m] = "live" /\ m \notin botched /\ sending' = sending
          /\ UNCHANGED <<read, readers, reads>>
      BY <1>4, <2>11 DEF TellErased, dbVars, historyVars
    <3>2. Comes(chan[t], {"message"}, m) => Comes(chan'[t], {"message"}, m)
      BY <1>1, <2>1, <2>11, DeletionReaches, Appended
    <3> QED BY <2>3, <3>1, <3>2
  <2>12. ASSUME NEW r \in Tabs, Arrive(r) PROVE Reads
    <3>1. AskRead(r)
      BY <2>12 DEF Arrive
    <3>2. CASE t = r
      <4>1. up[t]
        BY <1>3, <2>12 DEF Arrive
      <4> QED BY <1>1, <3>1, <3>2, <4>1, AskReadIs
    <3>3. CASE t # r
      <4>1. /\ t \in steady /\ row[m] = "live" /\ m \notin botched /\ chan' = chan
            /\ UNCHANGED <<sending, read, reads>>
        BY <1>4, <2>12, <3>3 DEF Arrive, dbVars
      <4>2. readers'[Owner[t]] >= readers[Owner[t]] /\ readers[Owner[t]] \in Nat
            /\ readers'[Owner[t]] \in Nat
        BY <1>1, <2>1, <3>1, AskReadIs DEF Types
      <4> QED BY <2>2, <4>1, <4>2
    <3> QED BY <3>2, <3>3
  <2>13. ASSUME NEW r \in Tabs, Receive(r) PROVE Reads
    <3>1. /\ t \in steady /\ row[m] = "live" /\ m \notin botched
          /\ UNCHANGED <<sending, read, reads>>
          /\ IF Head(chan[r]).kind = "message" /\ r \in watched THEN AskRead(r) ELSE readers' = readers
      BY <1>4, <2>13 DEF Receive, dbVars
    <3>2. readers'[Owner[t]] >= readers[Owner[t]] /\ readers[Owner[t]] \in Nat
          /\ readers'[Owner[t]] \in Nat
      BY <1>1, <1>2, <2>1, <3>1, AskReadIs DEF Types
    <3>3. CASE Comes(chan[t], {"message"}, m) /\ ~Comes(chan'[t], {"message"}, m)
      <4>1. t = r /\ Head(chan[r]).kind = "message"
        BY <1>1, <2>1, <2>13, <3>3, ReceiveReaches
      <4>2. AskRead(t) /\ up[t]
        BY <2>2, <3>1, <4>1
      <4> QED BY <1>1, <2>1, <4>2, AskReadIs
    <3>4. CASE Comes(chan[t], {"message"}, m) => Comes(chan'[t], {"message"}, m)
      BY <2>2, <3>1, <3>2, <3>4
    <3> QED BY <3>3, <3>4
  <2>14. ASSUME NEW r \in Tabs, Drop(r) PROVE Reads
    <3>1. /\ t \in steady /\ Owner[t] # Owner[r] /\ t # r /\ row[m] = "live" /\ m \notin botched
          /\ UNCHANGED <<read, reads>>
          /\ sending'[m] = sending[m] \/ sending[m] # "made"
      BY <1>1, <1>4, <2>14 DEF Drop, dbVars, Types
    <3>2. chan'[t] = chan[t]
      BY <1>1, <2>1, <2>14, <3>1, DropReaches
    <3>3. readers'[Owner[t]] = readers[Owner[t]]
      BY <1>1, <2>1, <2>14, <3>1 DEF Drop, Types
    <3> QED BY <2>2, <3>1, <3>2, <3>3
  <2>15. CASE \/ UNCHANGED vars
              \/ \E u \in Users, x \in Msgs, all \in BOOLEAN : Delete(u, x, all)
              \/ \E r \in Tabs : Load(r) \/ LookAway(r) \/ LookBack(r) \/ Reconnect(r)
    <3>1. /\ t \in steady /\ row[m] = "live" /\ m \notin botched /\ chan' = chan /\ sending' = sending
          /\ UNCHANGED <<read, readers, reads>>
      BY <1>4, <2>15 DEF vars, Delete, Load, LookAway, LookBack, Reconnect, dbVars, handlerVars,
           historyVars
    <3> QED BY <2>3, <3>1
  <2> QED BY <2>4, <2>5, <2>6, <2>7, <2>8, <2>9, <2>10, <2>11, <2>12, <2>13, <2>14, <2>15 DEF Next
<1> QED BY <1>3, <1>4 DEF ReadInv, Incoming

----------------------------------------------------------------------------
(* The theorems. *)

LEMMA InvInit == ASSUME Init PROVE IInv
<1>1. TypeOK /\ RowsInv
  BY TypeInit, RowsInit
<1>2. WholeInv /\ PendingInv /\ PresentInv /\ ReadInv
  BY DEF Init, WholeInv, PendingInv, PresentInv, ReadInv
<1>3. AbsentInv
  BY NothingComes DEF Init, AbsentInv
<1> QED BY <1>1, <1>2, <1>3 DEF IInv

LEMMA Invariant == Spec => []IInv
<1>1. Init => IInv
  BY InvInit
<1>2. IInv /\ [Next]_vars => IInv'
  BY TypeKept, RowsKept, WholeKept, PendingKept, PresentKept, AbsentKept, ReadKept DEF IInv
<1> QED BY <1>1, <1>2, PTL DEF Spec

\* The types, and that nothing is on its way to a socket that is closed.
THEOREM MessageTypes == Spec => []TypeOK
<1>1. IInv => TypeOK
  BY DEF IInv
<1> QED BY <1>1, Invariant, PTL

\* For any number of tabs and messages, the thread of a tab that missed no push
\* shows exactly what its user may see once nothing is on its way, but for the
\* messages told after their deletion and the rows of handlers that failed.
THEOREM ThreadsShow == Spec => []ShownExact
<1>1. ASSUME IInv PROVE ShownExact
  <2>1. SUFFICES ASSUME Quiet, NEW t \in whole, loaded[t]
        PROVE  /\ ~\E m \in Msgs : Has(t, m, {"pending"})
               /\ Visible(Owner[t]) \ botched \subseteq ShownIn(t)
               /\ ShownIn(t) \ crossed \subseteq Visible(Owner[t])
    BY DEF ShownExact
  <2>2. /\ t \in Tabs /\ chan[t] = <<>> /\ deleting = {} /\ Held(t) = ShownIn(t)
        /\ \A m \in Msgs : sending[m] \notin {"asked", "made"}
    BY <1>1, <2>1, TypeParts DEF IInv, Types, Quiet, Held, None
  <2>3. \A kinds, m : ~Comes(chan[t], kinds, m)
    BY <2>2, NothingComes
  <2>4. ~\E m \in Msgs : Has(t, m, {"pending"})
    BY <1>1, <2>1, <2>2, <2>3 DEF IInv, PendingInv
  <2>5. Visible(Owner[t]) \ botched \subseteq ShownIn(t)
    BY <1>1, <2>2, <2>3 DEF IInv, PresentInv, Visible
  <2>6. ShownIn(t) \ crossed \subseteq Visible(Owner[t])
    BY <1>1, <2>2, <2>3 DEF IInv, AbsentInv, Erased, ShownIn
  <2> QED BY <2>4, <2>5, <2>6
<1> QED BY <1>1, Invariant, PTL

\* And whoever watches it has read every message of the others.
THEOREM WatchersRead == Spec => []WatcherHasRead
<1>1. ASSUME IInv PROVE WatcherHasRead
  <2>1. SUFFICES ASSUME Quiet, reads = {}, NEW t \in steady, readers[Owner[t]] = 0,
                        NEW m \in Incoming(Owner[t]), row[m] = "live", m \notin botched
        PROVE  m \in read
    BY DEF WatcherHasRead
  <2>2. t \in Tabs /\ m \in Msgs
    BY <1>1, <2>1, TypeParts DEF IInv, Types, Incoming
  <2>3. chan[t] = <<>> /\ sending[m] # "made"
    BY <2>1, <2>2 DEF Quiet, None
  <2>4. ~Comes(chan[t], {"message"}, m)
    BY <2>3, NothingComes
  <2> QED BY <1>1, <2>1, <2>3, <2>4 DEF IInv, ReadInv
<1> QED BY <1>1, Invariant, PTL
=============================================================================
