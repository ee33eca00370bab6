--------------------------- MODULE RoomVideoProofs ---------------------------
(***************************************************************************)
(* Proofs about RoomVideo for any viewers, links, playlist, positions and  *)
(* bounds: its types and limits, the queue, the numbers of the video state *)
(* and that who has read everything sees what the room watches.            *)
(***************************************************************************)
EXTENDS RoomVideo, SequenceTheorems, TLAPS

Statuses == {"playing", "paused"}
Video == [url : Urls \cup {NoUrl}, status : Statuses, at : Places, seq : Nat,
          waiting : BOOLEAN, auto : BOOLEAN]
Msg == [full : BOOLEAN, url : Urls \cup {NoUrl}, at : Places, status : Statuses, seq : Nat]
Store == [url : Urls \cup {NoUrl}, status : Statuses \cup {"none"}, at : Places, seq : Nat]
Task == [stage : {"resolving", "writing"}, url : Urls, push : BOOLEAN, play : BOOLEAN]

----------------------------------------------------------------------------
(* What the changes of the video state may lead to. *)

LEMMA Waiting ==
  ASSUME NEW v \in Video, NEW b \in BOOLEAN, NEW w, w = [v EXCEPT !.waiting = b]
  PROVE  w \in Video /\ w.url = v.url /\ w.status = v.status /\ w.at = v.at /\ w.seq = v.seq
BY DEF Video

LEMMA MovedIs ==
  ASSUME NEW v \in Video, NEW status \in Statuses, NEW at \in Places,
         NEW w, w = Moved(v, status, at)
  PROVE  w \in Video /\ w.url = v.url /\ w.seq = v.seq + 1 /\ w.status = status /\ w.at = at
<1>1. PICK n \in Nat : n = v.seq + 1
  BY DEF Video
<1>2. w = [v EXCEPT !.status = status, !.at = at, !.seq = n]
  BY <1>1 DEF Moved
<1>3. w \in Video /\ w.url = v.url /\ w.seq = n /\ w.status = status /\ w.at = at
  BY <1>2 DEF Video
<1> QED BY <1>1, <1>3

\* Everything but a change of link is one numbered change, or none.
OneChange(v, w) ==
  /\ w \in Video /\ w.url = v.url
  /\ \/ w.seq = v.seq + 1
     \/ w.seq = v.seq /\ w.status = v.status /\ w.at = v.at

LEMMA PulseIs ==
  ASSUME NEW v \in Video, NEW w \in Pulse(v)
  PROVE  OneChange(v, w) /\ w.seq = v.seq + 1
<1>1. PICK p \in Places : w = Moved(v, v.status, p)
  BY DEF Pulse
<1>2. v.status \in Statuses
  BY DEF Video
<1> QED BY <1>1, <1>2, MovedIs DEF OneChange

LEMMA EnterWaitIs ==
  ASSUME NEW v \in Video, NEW w \in EnterWait(v)
  PROVE  OneChange(v, w) /\ w.seq = v.seq + 1
<1>1. PICK p \in Places : w = [Moved(v, "paused", p) EXCEPT !.waiting = TRUE]
  BY DEF EnterWait
<1>2. "paused" \in Statuses
  BY DEF Statuses
<1>3. PICK x : x = Moved(v, "paused", p)
  OBVIOUS
<1>4. x \in Video /\ x.url = v.url /\ x.seq = v.seq + 1
  BY <1>2, <1>3, MovedIs
<1>5. w = [x EXCEPT !.waiting = TRUE]
  BY <1>1, <1>3
<1>6. w \in Video /\ w.url = x.url /\ w.seq = x.seq
  BY <1>4, <1>5, Waiting
<1> QED BY <1>4, <1>6 DEF OneChange

LEMMA ExitWaitIs ==
  ASSUME NEW v \in Video, NEW w \in ExitWait(v)
  PROVE  OneChange(v, w) /\ w.seq = v.seq + 1
<1>1. PICK p \in Places : w = [Moved(v, "playing", p) EXCEPT !.waiting = FALSE]
  BY DEF ExitWait, Video
<1>2. "playing" \in Statuses
  BY DEF Statuses
<1>3. PICK x : x = Moved(v, "playing", p)
  OBVIOUS
<1>4. x \in Video /\ x.url = v.url /\ x.seq = v.seq + 1
  BY <1>2, <1>3, MovedIs
<1>5. w = [x EXCEPT !.waiting = FALSE]
  BY <1>1, <1>3
<1>6. w \in Video /\ w.url = x.url /\ w.seq = x.seq
  BY <1>4, <1>5, Waiting
<1> QED BY <1>4, <1>6 DEF OneChange

LEMMA EvaluateIs ==
  ASSUME NEW v \in Video, NEW w \in Evaluate(v)
  PROVE  OneChange(v, w)
<1>1. CASE w = v
  BY <1>1 DEF OneChange
<1>2. CASE w = [v EXCEPT !.waiting = FALSE]
  BY <1>2, Waiting DEF OneChange
<1>3. CASE w \in ExitWait(v) \cup EnterWait(v) \cup Pulse(v)
  BY <1>3, ExitWaitIs, EnterWaitIs, PulseIs
<1> QED BY <1>1, <1>2, <1>3 DEF Evaluate

----------------------------------------------------------------------------
(* Messages. *)

LEMMA MessageTypes ==
  ASSUME NEW v \in Video
  PROVE  /\ Patch(v) \in Msg /\ ~Patch(v).full /\ Snapshot(v) \in Msg /\ Snapshot(v).full
         /\ Snapshot(v).url = v.url
         /\ Patch(v).seq = v.seq /\ Patch(v).status = v.status /\ Patch(v).at = v.at
         /\ Snapshot(v).seq = v.seq /\ Snapshot(v).status = v.status /\ Snapshot(v).at = v.at
BY VideoAssumption DEF Patch, Snapshot, Video, Msg

LEMMA OneMessage ==
  ASSUME NEW m \in Msg
  PROVE  <<m>> \in Seq(Msg) /\ Len(<<m>>) = 1 /\ <<m>>[1] = m /\ <<m>> # <<>>
OBVIOUS

LEMMA TwoMessages ==
  ASSUME NEW m \in Msg, NEW n \in Msg
  PROVE  /\ <<m, n>> \in Seq(Msg) /\ Len(<<m, n>>) = 2 /\ <<m, n>> # <<>>
         /\ <<m, n>>[1] = m /\ <<m, n>>[2] = n
         /\ <<m>> \o <<n>> = <<m, n>>
<1>1. /\ <<m, n>> \in Seq(Msg) /\ Len(<<m, n>>) = 2 /\ <<m, n>> # <<>>
      /\ <<m, n>>[1] = m /\ <<m, n>>[2] = n
  OBVIOUS
<1>2. /\ <<m>> \in Seq(Msg) /\ <<n>> \in Seq(Msg) /\ Len(<<m>>) = 1 /\ Len(<<n>>) = 1
      /\ <<m>>[1] = m /\ <<n>>[1] = n
  BY OneMessage
<1>3. /\ <<m>> \o <<n>> \in Seq(Msg) /\ Len(<<m>> \o <<n>>) = 2
      /\ \A i \in 1..2 : (<<m>> \o <<n>>)[i] = IF i <= 1 THEN <<m>>[i] ELSE <<n>>[i - 1]
  BY <1>2, ConcatProperties
<1>4. (<<m>> \o <<n>>)[1] = m /\ (<<m>> \o <<n>>)[2] = n
  BY <1>2, <1>3
<1>5. \A i \in 1..2 : i = 1 \/ i = 2
  OBVIOUS
<1>6. \A i \in 1..2 : (<<m>> \o <<n>>)[i] = <<m, n>>[i]
  BY <1>1, <1>4, <1>5
<1> QED BY <1>1, <1>3, <1>6, SeqEqual

\* The messages msgs tell the viewers that the video state becomes w: patches,
\* the last of them w itself, or nothing at all if nothing numbered changed.
Announces(w, msgs) ==
  /\ w \in Video /\ w.url = video.url /\ msgs \in Seq(Msg)
  /\ \A n \in 1..Len(msgs) :
       /\ ~msgs[n].full /\ msgs[n].seq <= w.seq
       /\ msgs[n].seq = w.seq => msgs[n].status = w.status /\ msgs[n].at = w.at
  /\ IF msgs = <<>> THEN w.seq = video.seq /\ w.status = video.status /\ w.at = video.at
     ELSE w.seq > video.seq /\ msgs[Len(msgs)] = Patch(w)

\* One patch says it.
LEMMA PatchAnnounces ==
  ASSUME video \in Video, NEW w, OneChange(video, w), w.seq = video.seq + 1
  PROVE  Announces(w, <<Patch(w)>>)
<1>1. w \in Video /\ video.seq \in Nat /\ w.url = video.url
  BY DEF OneChange, Video
<1>2. Patch(w) \in Msg /\ ~Patch(w).full /\ Patch(w).seq = w.seq
      /\ Patch(w).status = w.status /\ Patch(w).at = w.at
  BY <1>1, MessageTypes
<1>3. <<Patch(w)>> \in Seq(Msg) /\ Len(<<Patch(w)>>) = 1 /\ <<Patch(w)>>[1] = Patch(w)
      /\ <<Patch(w)>> # <<>>
  BY <1>2, OneMessage
<1> QED BY <1>1, <1>2, <1>3 DEF Announces, Video

\* So does what the timer broadcasts.
LEMMA ToldAnnounces ==
  ASSUME video \in Video, NEW v \in Video, NEW w, OneChange(v, w), v.url = video.url,
         v.seq = video.seq, v.status = video.status, v.at = video.at
  PROVE  Announces(w, Told(v, w))
<1>0. video.seq \in Nat /\ v.seq \in Nat /\ w \in Video /\ w.seq \in Nat
  BY DEF Video, OneChange
<1>1. CASE w.seq = v.seq
  <2>1. Told(v, w) = <<>> /\ <<>> \in Seq(Msg) /\ Len(<<>>) = 0
    BY <1>1 DEF Told
  <2> QED BY <1>0, <1>1, <2>1 DEF Announces, OneChange
<1>2. CASE w.seq # v.seq
  <2>1. w.seq = video.seq + 1 /\ OneChange(video, w)
    BY <1>0, <1>2 DEF OneChange
  <2>2. Told(v, w) = <<Patch(w)>>
    BY <1>2 DEF Told
  <2> QED BY <2>1, <2>2, PatchAnnounces
<1> QED BY <1>1, <1>2

\* And the correction of everybody's position followed by an evaluation.
LEMMA PulseAnnounces ==
  ASSUME video \in Video, NEW v \in Pulse(video), NEW w, OneChange(v, w)
  PROVE  Announces(w, <<Patch(v)>> \o Told(v, w))
<1>0. /\ v \in Video /\ v.url = video.url /\ v.seq = video.seq + 1
      /\ video.seq \in Nat /\ w \in Video /\ w.url = video.url /\ w.seq \in Nat
  BY PulseIs DEF Video, OneChange
<1>1. Patch(v) \in Msg /\ Patch(w) \in Msg
  BY <1>0, MessageTypes
<1>2. CASE w.seq = v.seq
  <2>1. <<Patch(v)>> \o Told(v, w) = <<Patch(w)>>
    <3>1. w.status = v.status /\ w.at = v.at
      BY <1>0, <1>2 DEF OneChange
    <3>2. Patch(v) = Patch(w)
      BY <1>2, <3>1 DEF Patch
    <3>3. Told(v, w) = <<>>
      BY <1>2 DEF Told
    <3>4. <<Patch(v)>> \in Seq(Msg)
      BY <1>1, OneMessage
    <3> QED BY <3>2, <3>3, <3>4, ConcatEmptySeq
  <2>2. OneChange(video, w) /\ w.seq = video.seq + 1
    BY <1>0, <1>2 DEF OneChange
  <2> QED BY <2>1, <2>2, PatchAnnounces
<1>3. CASE w.seq # v.seq
  <2>1. <<Patch(v)>> \o Told(v, w) = <<Patch(v), Patch(w)>>
    <3>1. Told(v, w) = <<Patch(w)>>
      BY <1>3 DEF Told
    <3> QED BY <1>1, <3>1, TwoMessages
  <2>2. /\ <<Patch(v), Patch(w)>> \in Seq(Msg) /\ Len(<<Patch(v), Patch(w)>>) = 2
        /\ <<Patch(v), Patch(w)>> # <<>>
        /\ <<Patch(v), Patch(w)>>[1] = Patch(v) /\ <<Patch(v), Patch(w)>>[2] = Patch(w)
    BY <1>1, TwoMessages
  <2>3. w.seq = v.seq + 1
    BY <1>3 DEF OneChange
  <2>4. /\ ~Patch(v).full /\ Patch(v).seq = v.seq
        /\ ~Patch(w).full /\ Patch(w).seq = w.seq /\ Patch(w).status = w.status /\ Patch(w).at = w.at
    BY <1>0, MessageTypes
  <2> DEFINE msgs == <<Patch(v), Patch(w)>>
  <2>5. \A n \in 1..Len(msgs) : n = 1 \/ n = 2
    BY <2>2
  <2>6. /\ ~msgs[1].full /\ msgs[1].seq <= w.seq /\ msgs[1].seq # w.seq
        /\ ~msgs[2].full /\ msgs[2].seq <= w.seq /\ msgs[2].status = w.status /\ msgs[2].at = w.at
    BY <1>0, <2>2, <2>3, <2>4
  <2>7. msgs \in Seq(Msg) /\ msgs # <<>> /\ msgs[Len(msgs)] = Patch(w)
    BY <2>2
  <2>8. w.seq > video.seq
    BY <1>0, <2>3
  <2> HIDE DEF msgs
  <2>9. Announces(w, msgs)
    BY <1>0, <2>5, <2>6, <2>7, <2>8 DEF Announces
  <2> QED BY <2>1, <2>9 DEF msgs
<1> QED BY <1>2, <1>3

----------------------------------------------------------------------------
(* What a viewer knows of a video state v. *)

\* r bears no number that comes after v's, and under v's number it is v's
\* status and position.
Numbered(v, r) ==
  /\ r.seq <= v.seq
  /\ r.seq = v.seq => r.status = v.status /\ r.at = v.at

AllNumbered(v, msgs) == \A n \in 1..Len(msgs) : Numbered(v, msgs[n])

Tells(v, r) == r.status = v.status /\ r.at = v.at /\ r.seq = v.seq

\* The link that a store will hold once it has read msgs is v's: that of the
\* last message that carries one, or else the store's own.
KnowsLink(v, msgs, store) ==
  \/ \E n \in 1..Len(msgs) :
       msgs[n].full /\ msgs[n].url = v.url /\ \A m \in 1..Len(msgs) : m > n => ~msgs[m].full
  \/ (\A n \in 1..Len(msgs) : ~msgs[n].full) /\ store # NoView /\ store.url = v.url

\* And so are the status, the position and the number.
KnowsState(v, msgs, store) ==
  IF msgs = <<>> THEN Tells(v, store) ELSE Tells(v, msgs[Len(msgs)])

Knows(v, msgs, store) == KnowsLink(v, msgs, store) /\ KnowsState(v, msgs, store)

\* Nothing numbered was undone from v to w.
Later(v, w) ==
  \/ w.seq > v.seq
  \/ w.seq = v.seq /\ w.status = v.status /\ w.at = v.at

LEMMA Joined ==
  ASSUME NEW a \in Seq(Msg), NEW b \in Seq(Msg)
  PROVE  /\ a \o b \in Seq(Msg)
         /\ Len(a) \in Nat /\ Len(b) \in Nat /\ Len(a \o b) = Len(a) + Len(b)
         /\ \A n \in 1..Len(a) : (a \o b)[n] = a[n]
         /\ \A n \in 1..Len(b) : (a \o b)[Len(a) + n] = b[n]
         /\ \A n \in 1..Len(a \o b) :
              n \in 1..Len(a) \/ \E m \in 1..Len(b) : n = Len(a) + m
<1>1. Len(a) \in Nat /\ Len(b) \in Nat
  BY LenProperties
<1>2. /\ a \o b \in Seq(Msg) /\ Len(a \o b) = Len(a) + Len(b)
      /\ \A i \in 1 .. Len(a) + Len(b) : (a \o b)[i] = IF i <= Len(a) THEN a[i] ELSE b[i - Len(a)]
  BY ConcatProperties
<1>3. \A n \in 1..Len(a) : (a \o b)[n] = a[n]
  BY <1>1, <1>2
<1>4. ASSUME NEW n \in 1..Len(b) PROVE (a \o b)[Len(a) + n] = b[n]
  <2>1. /\ Len(a) + n \in 1 .. Len(a) + Len(b) /\ ~(Len(a) + n <= Len(a))
        /\ (Len(a) + n) - Len(a) = n
    BY <1>1
  <2> QED BY <1>2, <2>1
<1>5. ASSUME NEW n \in 1..Len(a \o b)
      PROVE  n \in 1..Len(a) \/ \E m \in 1..Len(b) : n = Len(a) + m
  <2>1. n \in 1..(Len(a) + Len(b))
    BY <1>2
  <2>2. CASE n <= Len(a)
    BY <1>1, <2>1, <2>2
  <2>3. CASE ~(n <= Len(a))
    <3>1. n - Len(a) \in 1..Len(b) /\ n = Len(a) + (n - Len(a))
      BY <1>1, <2>1, <2>3
    <3> QED BY <3>1
  <2> QED BY <2>2, <2>3
<1> QED BY <1>1, <1>2, <1>3, <1>4, <1>5

LEMMA NumberedJoined ==
  ASSUME NEW v, NEW a \in Seq(Msg), NEW b \in Seq(Msg), AllNumbered(v, a), AllNumbered(v, b)
  PROVE  AllNumbered(v, a \o b)
<1>1. SUFFICES ASSUME NEW n \in 1..Len(a \o b) PROVE Numbered(v, (a \o b)[n])
  BY DEF AllNumbered
<1>2. CASE n \in 1..Len(a)
  BY <1>2, Joined DEF AllNumbered
<1>3. CASE \E m \in 1..Len(b) : n = Len(a) + m
  BY <1>3, Joined DEF AllNumbered
<1> QED BY <1>2, <1>3, Joined

LEMMA NumberedLater ==
  ASSUME NEW v \in Video, NEW w \in Video, Later(v, w), NEW r, r.seq \in Nat, Numbered(v, r)
  PROVE  Numbered(w, r)
BY DEF Video, Later, Numbered

LEMMA AllNumberedLater ==
  ASSUME NEW v \in Video, NEW w \in Video, Later(v, w), NEW a \in Seq(Msg), AllNumbered(v, a)
  PROVE  AllNumbered(w, a)
<1>1. SUFFICES ASSUME NEW n \in 1..Len(a) PROVE Numbered(w, a[n])
  BY DEF AllNumbered
<1>2. a[n] \in Msg
  BY ElementOfSeq
<1>3. a[n].seq \in Nat /\ Numbered(v, a[n])
  BY <1>2 DEF Msg, AllNumbered
<1> QED BY <1>3, NumberedLater

\* Patches keep the link, and the last of them carries the state.
LEMMA KnowsPatched ==
  ASSUME NEW v, NEW w, w.url = v.url, NEW store, NEW a \in Seq(Msg), NEW b \in Seq(Msg),
         KnowsLink(v, a, store), b # <<>>, \A n \in 1..Len(b) : ~b[n].full, Tells(w, b[Len(b)])
  PROVE  Knows(w, a \o b, store)
<1>1. Len(b) \in Nat /\ Len(b) # 0 /\ Len(a) \in Nat
  BY LenProperties, EmptySeq
<1>2. a \o b # <<>> /\ (a \o b)[Len(a \o b)] = b[Len(b)]
  <2>1. Len(b) \in 1..Len(b)
    BY <1>1
  <2>2. Len(a \o b) = Len(a) + Len(b) /\ (a \o b)[Len(a) + Len(b)] = b[Len(b)]
    BY <2>1, Joined
  <2>3. Len(a \o b) # 0
    BY <1>1, <2>2
  <2> QED BY <2>2, <2>3
<1>3. ASSUME NEW m \in 1..Len(a \o b), m \notin 1..Len(a) PROVE ~(a \o b)[m].full
  BY <1>3, Joined
<1>4. KnowsLink(w, a \o b, store)
  <2>1. CASE \E n \in 1..Len(a) :
               a[n].full /\ a[n].url = v.url /\ \A m \in 1..Len(a) : m > n => ~a[m].full
    <3>1. PICK n \in 1..Len(a) :
               a[n].full /\ a[n].url = v.url /\ \A m \in 1..Len(a) : m > n => ~a[m].full
      BY <2>1
    <3>2. n \in 1..Len(a \o b) /\ (a \o b)[n] = a[n]
      BY <1>1, Joined
    <3>3. ASSUME NEW m \in 1..Len(a \o b), m > n PROVE ~(a \o b)[m].full
      BY <1>3, <3>1, <3>3, Joined
    <3> QED BY <3>1, <3>2, <3>3 DEF KnowsLink
  <2>2. CASE (\A n \in 1..Len(a) : ~a[n].full) /\ store # NoView /\ store.url = v.url
    <3>1. ASSUME NEW m \in 1..Len(a \o b) PROVE ~(a \o b)[m].full
      BY <1>3, <2>2, Joined
    <3> QED BY <2>2, <3>1 DEF KnowsLink
  <2> QED BY <2>1, <2>2 DEF KnowsLink
<1> QED BY <1>2, <1>4 DEF Knows, KnowsState

\* A message with the link, and then patches, say all.
LEMMA KnowsSnapshot ==
  ASSUME NEW w, NEW store, NEW a \in Seq(Msg), NEW b \in Seq(Msg),
         b # <<>>, b[1].full, b[1].url = w.url, \A n \in 1..Len(b) : n > 1 => ~b[n].full,
         Tells(w, b[Len(b)])
  PROVE  Knows(w, a \o b, store)
<1>1. Len(b) \in Nat /\ Len(b) # 0 /\ Len(a) \in Nat
  BY LenProperties, EmptySeq
<1>2. a \o b # <<>> /\ (a \o b)[Len(a \o b)] = b[Len(b)]
  <2>1. Len(b) \in 1..Len(b)
    BY <1>1
  <2>2. Len(a \o b) = Len(a) + Len(b) /\ (a \o b)[Len(a) + Len(b)] = b[Len(b)]
    BY <2>1, Joined
  <2>3. Len(a \o b) # 0
    BY <1>1, <2>2
  <2> QED BY <2>2, <2>3
<1>3. 1 \in 1..Len(b) /\ Len(a) + 1 \in 1..Len(a \o b) /\ (a \o b)[Len(a) + 1] = b[1]
  <2>1. 1 \in 1..Len(b)
    BY <1>1
  <2>2. /\ Len(a \o b) = Len(a) + Len(b)
        /\ \A n \in 1..Len(b) : (a \o b)[Len(a) + n] = b[n]
    BY Joined
  <2>3. Len(a) + 1 \in 1..(Len(a) + Len(b))
    BY <1>1
  <2> QED BY <2>1, <2>2, <2>3
<1>4. ASSUME NEW m \in 1..Len(a \o b), m > Len(a) + 1 PROVE ~(a \o b)[m].full
  <2>1. m \notin 1..Len(a)
    BY <1>1, <1>4
  <2>2. \E k \in 1..Len(b) : m = Len(a) + k
    <3>1. \A n \in 1..Len(a \o b) : n \in 1..Len(a) \/ \E k \in 1..Len(b) : n = Len(a) + k
      BY Joined
    <3> QED BY <2>1, <3>1
  <2>3. PICK k \in 1..Len(b) : m = Len(a) + k
    BY <2>2
  <2>4. k > 1 /\ (a \o b)[m] = b[k]
    <3>1. (a \o b)[Len(a) + k] = b[k]
      BY Joined
    <3> QED BY <1>1, <1>4, <2>3, <3>1
  <2> QED BY <2>4
<1>5. KnowsLink(w, a \o b, store)
  BY <1>3, <1>4 DEF KnowsLink
<1> QED BY <1>2, <1>5 DEF Knows, KnowsState

\* Reading the next message changes nothing of what a viewer will know.
LEMMA KnowsRead ==
  ASSUME NEW v, NEW store \in Store, NEW a \in Seq(Msg), a # <<>>, Knows(v, a, store)
  PROVE  Knows(v, Tail(a), Applied(store, Head(a)))
<1> DEFINE new == Applied(store, Head(a))
<1>0. Len(<<>>) = 0 /\ \A s \in Seq(Msg) : s # <<>> => Len(s) # 0
  BY EmptySeq
<1>1. Len(a) \in Nat /\ Len(a) # 0
  BY <1>0, LenProperties
<1>2. /\ Head(a) = a[1] /\ Head(a) \in Msg /\ Tail(a) \in Seq(Msg) /\ Len(Tail(a)) = Len(a) - 1
      /\ \A n \in 1..Len(Tail(a)) : Tail(a)[n] = a[n + 1]
  BY HeadTailProperties
<1>3. Tells(v, a[Len(a)])
  BY DEF Knows, KnowsState
<1>6. Tail(a) = <<>> <=> Len(a) = 1
  <2>1. PICK t \in Seq(Msg) : t = Tail(a)
    BY <1>2
  <2>2. t = <<>> <=> Len(t) = 0
    BY <1>0
  <2>3. Len(t) = Len(a) - 1
    BY <1>2, <2>1
  <2> QED BY <1>1, <2>1, <2>2, <2>3
<1>4. KnowsState(v, Tail(a), new)
  <2>1. CASE Len(a) = 1
    <3>1. Tail(a) = <<>>
      BY <1>6, <2>1
    <3>2. Tells(v, Head(a)) /\ a[1] = Head(a)
      BY <1>2, <1>3, <2>1
    <3>3. Head(a).full \/ store # NoView
      BY <3>2, <2>1 DEF Knows, KnowsLink
    <3>4. new.status = Head(a).status /\ new.at = Head(a).at /\ new.seq = Head(a).seq
      BY <3>3 DEF Applied
    <3> QED BY <3>1, <3>2, <3>4 DEF KnowsState, Tells
  <2>2. CASE Len(a) # 1
    <3>1. Tail(a) # <<>>
      BY <1>6, <2>2
    <3>2. Tail(a)[Len(Tail(a))] = a[Len(a)]
      <4>1. PICK n : n = Len(a) - 1
        OBVIOUS
      <4>2. n \in 1..n /\ n + 1 = Len(a) /\ Len(Tail(a)) = n
        BY <1>1, <1>2, <2>2, <4>1
      <4> QED BY <1>2, <4>2
    <3> QED BY <1>3, <3>1, <3>2 DEF KnowsState
  <2> QED BY <2>1, <2>2
<1>5. KnowsLink(v, Tail(a), new)
  <2>1. ASSUME NEW n \in 1..Len(a), n # 1
        PROVE  n - 1 \in 1..Len(Tail(a)) /\ Tail(a)[n - 1] = a[n]
    <3>1. n - 1 \in 1..Len(Tail(a)) /\ (n - 1) + 1 = n
      BY <1>1, <1>2, <2>1
    <3> QED BY <1>2, <3>1
  <2>2. ASSUME NEW n \in 1..Len(Tail(a)) PROVE n + 1 \in 1..Len(a) /\ Tail(a)[n] = a[n + 1]
    BY <1>1, <1>2
  <2>3. CASE \E n \in 1..Len(a) :
               a[n].full /\ a[n].url = v.url /\ \A m \in 1..Len(a) : m > n => ~a[m].full
    <3>1. PICK n \in 1..Len(a) :
               a[n].full /\ a[n].url = v.url /\ \A m \in 1..Len(a) : m > n => ~a[m].full
      BY <2>3
    <3>2. CASE n = 1
      <4>1. \A m \in 1..Len(Tail(a)) : ~Tail(a)[m].full
        <5>1. SUFFICES ASSUME NEW m \in 1..Len(Tail(a)) PROVE ~Tail(a)[m].full
          OBVIOUS
        <5>2. m + 1 \in 1..Len(a) /\ m + 1 > 1 /\ Tail(a)[m] = a[m + 1]
          BY <2>2
        <5> QED BY <3>1, <3>2, <5>2
      <4>2. new.url = v.url
        BY <1>2, <3>1, <3>2 DEF Applied
      <4>3. new # NoView
        BY <1>2, <3>1, <3>2 DEF Applied, NoView, Msg, Statuses
      <4> QED BY <4>1, <4>2, <4>3 DEF KnowsLink
    <3>3. CASE n # 1
      <4>1. n - 1 \in 1..Len(Tail(a)) /\ Tail(a)[n - 1] = a[n]
        BY <2>1, <3>3
      <4>2. ASSUME NEW m \in 1..Len(Tail(a)), m > n - 1 PROVE ~Tail(a)[m].full
        <5>1. m + 1 \in 1..Len(a) /\ m + 1 > n /\ Tail(a)[m] = a[m + 1]
          BY <1>1, <2>2, <4>2
        <5> QED BY <3>1, <5>1
      <4> QED BY <3>1, <4>1, <4>2 DEF KnowsLink
    <3> QED BY <3>2, <3>3
  <2>4. CASE (\A n \in 1..Len(a) : ~a[n].full) /\ store # NoView /\ store.url = v.url
    <3>1. ~Head(a).full
      BY <1>1, <1>2, <2>4
    <3>2. new.url = v.url /\ new # NoView
      BY <1>2, <2>4, <3>1 DEF Applied, NoView, Msg, Statuses
    <3>3. \A n \in 1..Len(Tail(a)) : ~Tail(a)[n].full
      BY <2>2, <2>4
    <3> QED BY <3>2, <3>3 DEF KnowsLink
  <2> QED BY <2>3, <2>4 DEF Knows, KnowsLink
<1> QED BY <1>4, <1>5 DEF Knows

\* What the store holds after a message is what it held or what it was told.
LEMMA AppliedIs ==
  ASSUME NEW v, NEW store \in Store, NEW m \in Msg,
         store # NoView => Numbered(v, store), Numbered(v, m)
  PROVE  /\ Applied(store, m) \in Store
         /\ Applied(store, m) # NoView => Numbered(v, Applied(store, m))
<1>1. CASE ~m.full /\ store = NoView
  BY <1>1 DEF Applied
<1>2. CASE ~(~m.full /\ store = NoView)
  <2>1. Applied(store, m) = [url |-> IF m.full THEN m.url ELSE store.url,
                             status |-> m.status, at |-> m.at, seq |-> m.seq]
    BY <1>2 DEF Applied
  <2>2. (IF m.full THEN m.url ELSE store.url) \in Urls \cup {NoUrl}
    BY DEF Store, Msg
  <2>3. Applied(store, m) \in Store
    BY <2>1, <2>2 DEF Store, Msg
  <2> QED BY <2>1, <2>3 DEF Numbered
<1> QED BY <1>1, <1>2

----------------------------------------------------------------------------
(* The inductive invariant. *)

NumbersInv == \A c \in Viewers :
  AllNumbered(video, chan[c]) /\ (view[c] # NoView => Numbered(video, view[c]))

\* No change of video is between its state and its announcement.
Settled == ~unsaid /\ \A w \in Workers : job[w].stage # "writing"

FollowInv == Settled => \A c \in welcomed : Knows(video, chan[c], view[c])

TalkInv == TypeOK /\ NumbersInv /\ FollowInv

IInv == TalkInv /\ QueueSound

\* TypeOK with the sets of this module.
Types ==
  /\ video \in Video
  /\ queue \in Seq(Items) /\ Len(queue) <= MaxQueue
  /\ history \in Seq(Urls) /\ Len(history) <= MaxHistory
  /\ out \subseteq Items
  /\ job \in [Workers -> {Idle} \cup Task]
  /\ unsaid \in BOOLEAN
  /\ welcomed \subseteq attached /\ attached \subseteq Viewers
  /\ chan \in [Viewers -> Seq(Msg)]
  /\ view \in [Viewers -> Store]

LEMMA TypeParts == (TypeOK <=> Types) /\ (TypeOK' <=> Types')
BY DEF TypeOK, Types, Video, Msg, Store, Task, Statuses

LEMMA InitInv == ASSUME Init PROVE IInv
<1> USE VideoAssumption
<1>1. video \in Video
  <2>1. PICK x \in Stored, s \in {"playing", "paused"} :
          video = [url |-> x, status |-> s, at |-> 0, seq |-> 0, waiting |-> FALSE, auto |-> FALSE]
    BY DEF Init
  <2>2. x \in Urls \cup {NoUrl}
    OBVIOUS
  <2> QED BY <2>1, <2>2 DEF Video, Statuses
<1>2. /\ <<>> \in Seq(Items) /\ <<>> \in Seq(Urls) /\ <<>> \in Seq(Msg)
      /\ Len(<<>>) = 0 /\ 1..Len(<<>>) = {} /\ DOMAIN <<>> = {}
  BY EmptySeq, LenProperties
<1>3. NoView \in Store
  BY DEF NoView, Store
<1>4. TypeOK
  <2>1. job \in [Workers -> {Idle} \cup Task] /\ unsaid \in BOOLEAN
    BY DEF Init
  <2>2. chan \in [Viewers -> Seq(Msg)] /\ view \in [Viewers -> Store]
    BY <1>2, <1>3 DEF Init
  <2>3. /\ queue \in Seq(Items) /\ Len(queue) <= MaxQueue
        /\ history \in Seq(Urls) /\ Len(history) <= MaxHistory
        /\ out \subseteq Items /\ welcomed \subseteq attached /\ attached \subseteq Viewers
    BY <1>2 DEF Init
  <2> QED BY <1>1, <2>1, <2>2, <2>3, TypeParts DEF Types
<1>5. QueueSound
  BY <1>2 DEF Init, QueueSound, IsInjective
<1>6. NumbersInv /\ FollowInv
  BY <1>2 DEF Init, NumbersInv, FollowInv, AllNumbered
<1> QED BY <1>4, <1>5, <1>6 DEF IInv, TalkInv

----------------------------------------------------------------------------
(* Steps that tell the viewers nothing. *)

LEMMA JobMoves ==
  ASSUME TypeOK, NEW w \in Workers, NEW t \in {Idle} \cup Task, job' = [job EXCEPT ![w] = t]
  PROVE  /\ job' \in [Workers -> {Idle} \cup Task]
         /\ (job[w].stage # "writing" /\ unsaid' = unsaid /\ Settled') => Settled
<1>1. job \in [Workers -> {Idle} \cup Task]
  BY TypeParts DEF Types
<1>2. job' \in [Workers -> {Idle} \cup Task]
  BY <1>1
<1>3. ASSUME job[w].stage # "writing", unsaid' = unsaid, Settled' PROVE Settled
  <2>1. ASSUME NEW u \in Workers PROVE job[u].stage # "writing"
    BY <1>1, <1>3 DEF Settled
  <2> QED BY <1>3, <2>1 DEF Settled
<1> QED BY <1>2, <1>3

LEMMA BeginIs ==
  ASSUME TypeOK, NEW w \in Workers, job[w] = Idle, NEW x \in Urls, NEW push \in BOOLEAN,
         NEW play \in BOOLEAN, Begin(w, x, push, play), unsaid' = unsaid
  PROVE  job' \in [Workers -> {Idle} \cup Task] /\ (Settled' => Settled)
<1> DEFINE t == [stage |-> "resolving", url |-> x, push |-> push, play |-> play]
<1>1. t \in Task
  BY DEF Task
<1>2. job' = [job EXCEPT ![w] = t]
  BY DEF Begin
<1>3. job[w].stage # "writing"
  BY DEF Idle
<1> HIDE DEF t
<1> QED BY <1>1, <1>2, <1>3, JobMoves

LEMMA Quiet ==
  ASSUME NumbersInv, FollowInv, video' = video, chan' = chan, view' = view,
         welcomed' = welcomed, Settled' => Settled
  PROVE  NumbersInv' /\ FollowInv'
<1>1. NumbersInv'
  BY DEF NumbersInv
<1>2. FollowInv'
  BY DEF FollowInv
<1> QED BY <1>1, <1>2

----------------------------------------------------------------------------
(* Broadcasts. *)

LEMMA Broadcasted ==
  ASSUME chan \in [Viewers -> Seq(Msg)], NEW msgs \in Seq(Msg), Broadcast(msgs)
  PROVE  /\ chan' \in [Viewers -> Seq(Msg)]
         /\ \A c \in Viewers : chan'[c] = IF c \in attached THEN chan[c] \o msgs ELSE chan[c]
<1>1. ASSUME NEW d \in Viewers
      PROVE  chan[d] \o msgs \in Seq(Msg)
  BY ConcatProperties
<1> QED BY <1>1 DEF Broadcast

LEMMA NumbersAfterBroadcast ==
  ASSUME TypeOK, NumbersInv, NEW msgs \in Seq(Msg), Broadcast(msgs), view' = view,
         video' \in Video, Later(video, video'), AllNumbered(video', msgs)
  PROVE  NumbersInv'
<1>1. video \in Video /\ chan \in [Viewers -> Seq(Msg)] /\ view \in [Viewers -> Store]
  BY TypeParts DEF Types
<1>2. SUFFICES ASSUME NEW c \in Viewers
      PROVE  AllNumbered(video', chan'[c]) /\ (view[c] # NoView => Numbered(video', view[c]))
  BY DEF NumbersInv
<1>3. chan[c] \in Seq(Msg) /\ view[c].seq \in Nat
  BY <1>1 DEF Store
<1>4. AllNumbered(video', chan[c])
  BY <1>1, <1>3, AllNumberedLater DEF NumbersInv
<1>5. AllNumbered(video', chan[c] \o msgs)
  BY <1>3, <1>4, NumberedJoined
<1>6. AllNumbered(video', chan'[c])
  BY <1>1, <1>4, <1>5, Broadcasted
<1>7. view[c] # NoView => Numbered(video', view[c])
  BY <1>1, <1>3, NumberedLater DEF NumbersInv
<1> QED BY <1>6, <1>7

\* A state and the messages that announce it keep the invariant.
LEMMA BecomesStep ==
  ASSUME TalkInv, NEW w, NEW msgs, Announces(w, msgs), Becomes(w, msgs)
  PROVE  TalkInv'
<1>1. Types
  BY TypeParts DEF TalkInv
<1>2. /\ video' = w /\ Broadcast(msgs) /\ w \in Video /\ w.url = video.url /\ msgs \in Seq(Msg)
      /\ UNCHANGED <<queue, history, out, job, unsaid, attached, welcomed, view>>
  BY DEF Announces, Becomes, listVars, workVars
<1>3. /\ chan' \in [Viewers -> Seq(Msg)]
      /\ \A c \in Viewers : chan'[c] = IF c \in attached THEN chan[c] \o msgs ELSE chan[c]
  BY <1>1, <1>2, Broadcasted DEF Types
<1>4. TypeOK'
  BY <1>1, <1>2, <1>3, TypeParts DEF Types
<1>5. NumbersInv'
  <2>1. Later(video, w)
    BY DEF Announces, Later
  <2>2. AllNumbered(w, msgs)
    BY DEF Announces, AllNumbered, Numbered
  <2> QED BY <1>2, <2>1, <2>2, NumbersAfterBroadcast DEF TalkInv
<1>6. FollowInv'
  <2>1. SUFFICES ASSUME Settled, NEW c \in welcomed PROVE Knows(w, chan'[c], view[c])
    BY <1>2 DEF FollowInv, Settled
  <2>2. Knows(video, chan[c], view[c]) /\ c \in attached /\ c \in Viewers /\ chan[c] \in Seq(Msg)
    BY <1>1, <2>1 DEF TalkInv, FollowInv, Types
  <2>3. chan'[c] = chan[c] \o msgs
    BY <1>3, <2>2
  <2>4. CASE msgs = <<>>
    <3>1. chan'[c] = chan[c]
      BY <2>2, <2>3, <2>4, ConcatEmptySeq
    <3>2. w.url = video.url /\ w.seq = video.seq /\ w.status = video.status /\ w.at = video.at
      BY <1>2, <2>4 DEF Announces
    <3> QED BY <2>2, <3>1, <3>2 DEF Knows, KnowsLink, KnowsState, Tells
  <2>5. CASE msgs # <<>>
    <3>1. Tells(w, msgs[Len(msgs)]) /\ \A n \in 1..Len(msgs) : ~msgs[n].full
      BY <1>2, <2>5, MessageTypes DEF Announces, Tells
    <3> QED BY <1>2, <2>2, <2>3, <2>5, <3>1, KnowsPatched DEF Knows
  <2> QED BY <2>4, <2>5
<1> QED BY <1>4, <1>5, <1>6 DEF TalkInv

----------------------------------------------------------------------------
(* The steps of play, pause, seek and the synchronisation. *)

LEMMA IntentStep ==
  ASSUME TalkInv, NEW status \in Statuses, NEW at \in Places, Intent(status, at)
  PROVE  TalkInv'
<1>1. video \in Video
  BY TypeParts DEF TalkInv, Types
<1>2. PICK w : w = Moved(video, status, at)
  OBVIOUS
<1>3. Becomes(w, <<Patch(w)>>)
  BY <1>2 DEF Intent
<1>4. OneChange(video, w) /\ w.seq = video.seq + 1
  BY <1>1, <1>2, MovedIs DEF OneChange
<1>5. Announces(w, <<Patch(w)>>)
  BY <1>1, <1>4, PatchAnnounces
<1> QED BY <1>3, <1>5, BecomesStep

LEMMA SyncTimerStep ==
  ASSUME TalkInv, SyncTimer PROVE TalkInv'
<1>1. video \in Video
  BY TypeParts DEF TalkInv, Types
<1>2. PICK w \in Evaluate(video) : Becomes(w, Told(video, w))
  BY DEF SyncTimer
<1>3. Announces(w, Told(video, w))
  BY <1>1, EvaluateIs, ToldAnnounces
<1> QED BY <1>2, <1>3, BecomesStep

LEMMA SyncAllStep ==
  ASSUME TalkInv, SyncAll PROVE TalkInv'
<1>1. video \in Video
  BY TypeParts DEF TalkInv, Types
<1>2. CASE \E w \in EnterWait(video) : Becomes(w, <<Patch(w)>>)
  <2>1. PICK w \in EnterWait(video) : Becomes(w, <<Patch(w)>>)
    BY <1>2
  <2>2. Announces(w, <<Patch(w)>>)
    BY <1>1, EnterWaitIs, PatchAnnounces
  <2> QED BY <2>1, <2>2, BecomesStep
<1>3. CASE \E v \in Pulse(video) :
             \E w \in IF video.waiting THEN Evaluate(v) ELSE {v} :
               Becomes(w, <<Patch(v)>> \o Told(v, w))
  <2>1. PICK v \in Pulse(video) :
          \E w \in IF video.waiting THEN Evaluate(v) ELSE {v} :
            Becomes(w, <<Patch(v)>> \o Told(v, w))
    BY <1>3
  <2>2. PICK w : /\ w \in Evaluate(v) \cup {v}
                 /\ Becomes(w, <<Patch(v)>> \o Told(v, w))
    BY <2>1
  <2>3. v \in Video
    BY <1>1, PulseIs DEF OneChange
  <2>4. OneChange(v, w)
    BY <2>2, <2>3, EvaluateIs DEF OneChange
  <2>5. Announces(w, <<Patch(v)>> \o Told(v, w))
    BY <1>1, <2>4, PulseAnnounces
  <2> QED BY <2>2, <2>5, BecomesStep
<1> QED BY <1>2, <1>3 DEF SyncAll

LEMMA SetAutoSyncStep ==
  ASSUME TalkInv, NEW on \in BOOLEAN, SetAutoSync(on) PROVE TalkInv'
<1>1. video \in Video
  BY TypeParts DEF TalkInv, Types
<1>2. PICK v : v = [video EXCEPT !.auto = on]
  OBVIOUS
<1>3. v \in Video /\ v.url = video.url /\ v.seq = video.seq /\ v.status = video.status /\ v.at = video.at
  BY <1>1, <1>2 DEF Video
<1>4. \E w \in IF ~on /\ v.waiting THEN ExitWait(v) ELSE Evaluate(v) : Becomes(w, Told(v, w))
  BY <1>2 DEF SetAutoSync, Told
<1>5. PICK w : /\ w \in ExitWait(v) \cup Evaluate(v)
               /\ Becomes(w, Told(v, w))
  BY <1>4
<1>6. OneChange(v, w)
  BY <1>3, <1>5, ExitWaitIs, EvaluateIs
<1>7. Announces(w, Told(v, w))
  BY <1>1, <1>3, <1>6, ToldAnnounces
<1> QED BY <1>5, <1>7, BecomesStep

----------------------------------------------------------------------------
(* The steps of a change of video. *)

LEMMA SetUrlStep ==
  ASSUME TalkInv, NEW w \in Workers, NEW x \in Urls, SetUrl(w, x) PROVE TalkInv'
<1>1. Types
  BY TypeParts DEF TalkInv
<1>2. /\ job[w] = Idle /\ Begin(w, x, TRUE, FALSE)
      /\ UNCHANGED <<video, queue, history, out, unsaid, attached, welcomed, chan, view>>
  BY DEF SetUrl, listVars, viewVars
<1>3. job' \in [Workers -> {Idle} \cup Task] /\ (Settled' => Settled)
  BY <1>2, BeginIs DEF TalkInv
<1>4. TypeOK'
  BY <1>1, <1>2, <1>3, TypeParts DEF Types
<1>5. NumbersInv' /\ FollowInv'
  BY <1>2, <1>3, Quiet DEF TalkInv
<1> QED BY <1>4, <1>5 DEF TalkInv

LEMMA ResolveFailsStep ==
  ASSUME TalkInv, NEW w \in Workers, ResolveFails(w) PROVE TalkInv'
<1>1. Types
  BY TypeParts DEF TalkInv
<1>2. /\ job[w].stage # "writing" /\ job' = [job EXCEPT ![w] = Idle]
      /\ UNCHANGED <<video, queue, history, out, unsaid, attached, welcomed, chan, view>>
  BY DEF ResolveFails, listVars, viewVars
<1>3. job' \in [Workers -> {Idle} \cup Task] /\ (Settled' => Settled)
  BY <1>2, JobMoves DEF TalkInv
<1>4. TypeOK'
  BY <1>1, <1>2, <1>3, TypeParts DEF Types
<1>5. NumbersInv' /\ FollowInv'
  BY <1>2, <1>3, Quiet DEF TalkInv
<1> QED BY <1>4, <1>5 DEF TalkInv

LEMMA RememberIs ==
  ASSUME TypeOK, NEW push \in BOOLEAN
  PROVE  Remember(push) \in Seq(Urls) /\ Len(Remember(push)) <= MaxHistory
<1>1. history \in Seq(Urls) /\ Len(history) \in Nat /\ Len(history) <= MaxHistory
  BY TypeParts, LenProperties DEF Types
<1>2. video.url \in Urls \cup {NoUrl} /\ MaxHistory \in Nat
  BY TypeParts, VideoAssumption DEF Types, Video
<1>3. PICK h : h = IF push /\ video.url # NoUrl THEN Append(history, video.url) ELSE history
  OBVIOUS
<1>4. h \in Seq(Urls) /\ Len(h) \in Nat /\ Len(h) <= MaxHistory + 1
  <2>1. CASE push /\ video.url # NoUrl
    <3>1. video.url \in Urls /\ h = Append(history, video.url)
      BY <1>2, <1>3, <2>1
    <3> QED BY <1>1, <1>2, <3>1, AppendProperties
  <2>2. CASE ~(push /\ video.url # NoUrl)
    BY <1>1, <1>2, <1>3, <2>2
  <2> QED BY <2>1, <2>2
<1>5. Remember(push) = IF Len(h) > MaxHistory THEN Tail(h) ELSE h
  BY <1>3 DEF Remember
<1>6. CASE Len(h) > MaxHistory
  <2>1. h # <<>>
    BY <1>2, <1>6, EmptySeq
  <2>2. Tail(h) \in Seq(Urls) /\ Len(Tail(h)) = Len(h) - 1
    BY <1>4, <2>1, HeadTailProperties
  <2>3. PICK t : t = Tail(h)
    OBVIOUS
  <2>4. t \in Seq(Urls) /\ Len(t) <= MaxHistory
    BY <1>2, <1>4, <2>2, <2>3
  <2> QED BY <1>5, <1>6, <2>3, <2>4
<1>7. CASE ~(Len(h) > MaxHistory)
  BY <1>2, <1>4, <1>5, <1>7
<1> QED BY <1>6, <1>7

LEMMA SwitchStep ==
  ASSUME TalkInv, NEW w \in Workers, Switch(w) PROVE TalkInv'
<1>1. Types /\ TypeOK
  BY TypeParts DEF TalkInv
<1>2. /\ job[w].stage = "resolving" /\ history' = Remember(job[w].push)
      /\ video' = [Moved(video, "paused", 0) EXCEPT !.url = job[w].url]
      /\ job' = [job EXCEPT ![w] = [job[w] EXCEPT !.stage = "writing"]]
      /\ UNCHANGED <<queue, out, unsaid, attached, welcomed, chan, view>>
  BY DEF Switch, viewVars
<1>3. job[w] \in Task
  BY <1>1, <1>2 DEF Types, Idle
<1>4. /\ job' \in [Workers -> {Idle} \cup Task] /\ job'[w].stage = "writing"
      /\ job[w].push \in BOOLEAN /\ job[w].url \in Urls
  BY <1>1, <1>2, <1>3 DEF Types, Task
<1>5. video' \in Video /\ video'.seq > video.seq
  <2>1. PICK v : v = Moved(video, "paused", 0)
    OBVIOUS
  <2>2. video \in Video /\ "paused" \in Statuses /\ 0 \in Places
    BY <1>1, VideoAssumption DEF Types, Statuses
  <2>3. v \in Video /\ v.seq = video.seq + 1
    BY <2>1, <2>2, MovedIs
  <2>4. video' = [v EXCEPT !.url = job[w].url]
    BY <1>2, <2>1
  <2>5. video' \in Video /\ video'.seq = v.seq
    BY <1>4, <2>3, <2>4 DEF Video
  <2> QED BY <2>2, <2>3, <2>5 DEF Video
<1>6. TypeOK'
  BY <1>1, <1>2, <1>4, <1>5, RememberIs, TypeParts DEF Types
<1>7. NumbersInv'
  <2>1. Later(video, video') /\ video \in Video
    BY <1>1, <1>5 DEF Later, Types
  <2>2. SUFFICES ASSUME NEW c \in Viewers
        PROVE  AllNumbered(video', chan[c]) /\ (view[c] # NoView => Numbered(video', view[c]))
    BY <1>2 DEF NumbersInv
  <2>3. chan[c] \in Seq(Msg) /\ view[c].seq \in Nat
    BY <1>1 DEF Types, Store
  <2>4. AllNumbered(video', chan[c])
    BY <1>5, <2>1, <2>3, AllNumberedLater DEF NumbersInv, TalkInv
  <2>5. view[c] # NoView => Numbered(video', view[c])
    BY <1>5, <2>1, <2>3, NumberedLater DEF NumbersInv, TalkInv
  <2> QED BY <2>4, <2>5
<1>8. FollowInv'
  BY <1>4 DEF FollowInv, Settled
<1> QED BY <1>6, <1>7, <1>8 DEF TalkInv

LEMMA WriteFailsStep ==
  ASSUME TalkInv, NEW w \in Workers, WriteFails(w) PROVE TalkInv'
<1>1. Types
  BY TypeParts DEF TalkInv
<1>2. /\ job' = [job EXCEPT ![w] = Idle] /\ unsaid' = TRUE
      /\ UNCHANGED <<video, queue, history, out, attached, welcomed, chan, view>>
  BY DEF WriteFails, listVars, viewVars
<1>3. job' \in [Workers -> {Idle} \cup Task] /\ ~Settled'
  BY <1>1, <1>2 DEF Types, Settled
<1>4. TypeOK'
  BY <1>1, <1>2, <1>3, TypeParts DEF Types
<1>5. NumbersInv' /\ FollowInv'
  BY <1>2, <1>3, Quiet DEF TalkInv
<1> QED BY <1>4, <1>5 DEF TalkInv

\* The first message carries the link and the last one the state, so a viewer
\* will know both, whatever it was told before.
LEMMA SwitchedStep ==
  ASSUME TalkInv, NEW w \in Workers, Switched(w) PROVE TalkInv'
<1>1. Types /\ TypeOK /\ NumbersInv
  BY TypeParts DEF TalkInv
<1>2. /\ job' = [job EXCEPT ![w] = Idle] /\ unsaid' = FALSE
      /\ UNCHANGED <<queue, history, out, attached, welcomed, view>>
  BY DEF Switched, listVars
<1>3. job' \in [Workers -> {Idle} \cup Task]
  BY <1>1, <1>2 DEF Types
<1>4. video \in Video /\ video.seq \in Nat
  BY <1>1 DEF Types, Video
<1>5. \E msgs \in Seq(Msg) :
        /\ Broadcast(msgs) /\ video' \in Video /\ Later(video, video') /\ AllNumbered(video', msgs)
        /\ msgs # <<>> /\ msgs[1].full /\ msgs[1].url = video'.url
        /\ \A n \in 1..Len(msgs) : n > 1 => ~msgs[n].full
        /\ Tells(video', msgs[Len(msgs)])
  <2>1. CASE video' = video /\ Broadcast(<<Snapshot(video)>>)
    <3>1. PICK m \in Msg : /\ m = Snapshot(video) /\ m.full /\ m.url = video.url
                           /\ m.seq = video.seq /\ m.status = video.status /\ m.at = video.at
      BY <1>4, MessageTypes
    <3>2. <<m>> \in Seq(Msg) /\ Len(<<m>>) = 1 /\ <<m>>[1] = m /\ <<m>> # <<>>
      BY OneMessage
    <3>3. \A n \in 1..Len(<<m>>) : n = 1
      BY <3>2
    <3>4. AllNumbered(video, <<m>>) /\ Tells(video, <<m>>[Len(<<m>>)])
      BY <1>4, <3>1, <3>2, <3>3 DEF AllNumbered, Numbered, Tells
    <3>5. Later(video, video)
      BY DEF Later
    <3>6. \A n \in 1..Len(<<m>>) : n > 1 => ~<<m>>[n].full
      BY <3>3
    <3>7. Broadcast(<<m>>) /\ video' = video
      BY <2>1, <3>1
    <3>8. AllNumbered(video', <<m>>) /\ Tells(video', <<m>>[Len(<<m>>)]) /\ Later(video, video')
      BY <3>4, <3>5, <3>7
    <3> QED BY <1>4, <3>1, <3>2, <3>6, <3>7, <3>8
  <2>2. CASE video' = Moved(video, "playing", 0) /\ Broadcast(<<Snapshot(video), Patch(video')>>)
    <3>1. /\ video' \in Video /\ video'.url = video.url /\ video'.seq = video.seq + 1
      BY <1>4, <2>2, MovedIs, VideoAssumption DEF Statuses
    <3>2. PICK m \in Msg : m = Snapshot(video) /\ m.full /\ m.url = video.url /\ m.seq = video.seq
      BY <1>4, MessageTypes
    <3>3. PICK n \in Msg : /\ n = Patch(video') /\ ~n.full
                           /\ n.seq = video'.seq /\ n.status = video'.status /\ n.at = video'.at
      BY <3>1, MessageTypes
    <3>4. /\ <<m, n>> \in Seq(Msg) /\ Len(<<m, n>>) = 2 /\ <<m, n>> # <<>>
          /\ <<m, n>>[1] = m /\ <<m, n>>[2] = n
      BY TwoMessages
    <3>5. \A k \in 1..Len(<<m, n>>) : k = 1 \/ k = 2
      BY <3>4
    <3>6. Numbered(video', m) /\ Numbered(video', n)
      BY <1>4, <3>1, <3>2, <3>3 DEF Numbered
    <3>7. AllNumbered(video', <<m, n>>) /\ Tells(video', <<m, n>>[Len(<<m, n>>)])
      BY <3>3, <3>4, <3>5, <3>6 DEF AllNumbered, Tells
    <3>8. Later(video, video')
      BY <1>4, <3>1 DEF Later
    <3>9. \A k \in 1..Len(<<m, n>>) : k > 1 => ~<<m, n>>[k].full
      BY <3>3, <3>4, <3>5
    <3>10. Broadcast(<<m, n>>)
      BY <2>2, <3>2, <3>3
    <3> QED BY <3>1, <3>2, <3>4, <3>7, <3>8, <3>9, <3>10
  <2> QED BY <2>1, <2>2 DEF Switched
<1>6. PICK msgs \in Seq(Msg) :
        /\ Broadcast(msgs) /\ video' \in Video /\ Later(video, video') /\ AllNumbered(video', msgs)
        /\ msgs # <<>> /\ msgs[1].full /\ msgs[1].url = video'.url
        /\ \A n \in 1..Len(msgs) : n > 1 => ~msgs[n].full
        /\ Tells(video', msgs[Len(msgs)])
  BY <1>5
<1>7. /\ chan' \in [Viewers -> Seq(Msg)]
      /\ \A c \in Viewers : chan'[c] = IF c \in attached THEN chan[c] \o msgs ELSE chan[c]
  BY <1>1, <1>6, Broadcasted DEF Types
<1>8. TypeOK'
  BY <1>1, <1>2, <1>3, <1>6, <1>7, TypeParts DEF Types
<1>9. NumbersInv'
  BY <1>1, <1>2, <1>6, NumbersAfterBroadcast
<1>10. FollowInv'
  <2>1. SUFFICES ASSUME NEW c \in welcomed PROVE Knows(video', chan'[c], view[c])
    BY <1>2 DEF FollowInv
  <2>2. chan'[c] = chan[c] \o msgs /\ chan[c] \in Seq(Msg)
    BY <1>1, <1>7 DEF Types
  <2> QED BY <1>6, <2>2, KnowsSnapshot
<1> QED BY <1>8, <1>9, <1>10 DEF TalkInv

----------------------------------------------------------------------------
(* The steps of the playlist. *)

LEMMA AddItemStep ==
  ASSUME TalkInv, NEW i \in Items, AddItem(i) PROVE TalkInv'
<1>1. Types
  BY TypeParts DEF TalkInv
<1>2. /\ Len(queue) < MaxQueue /\ queue' = Append(queue, i)
      /\ UNCHANGED <<video, history, out, job, unsaid, attached, welcomed, chan, view>>
  BY DEF AddItem, workVars, viewVars
<1>3. queue' \in Seq(Items) /\ Len(queue') <= MaxQueue
  <2>1. Len(queue) \in Nat /\ MaxQueue \in Nat
    BY <1>1, VideoAssumption, LenProperties DEF Types
  <2>2. queue' \in Seq(Items) /\ Len(queue') = Len(queue) + 1
    BY <1>1, <1>2, AppendProperties DEF Types
  <2> QED BY <1>2, <2>1, <2>2
<1>4. TypeOK'
  BY <1>1, <1>2, <1>3, TypeParts DEF Types
<1>5. NumbersInv' /\ FollowInv'
  BY <1>2, Quiet DEF TalkInv, Settled
<1> QED BY <1>4, <1>5 DEF TalkInv

\* Without the item at n a queue holds the others, in their order.
LEMMA RemovedAt ==
  ASSUME NEW S, NEW s \in Seq(S), NEW n \in 1..Len(s), NEW t, t = RemoveAt(s, n)
  PROVE  /\ t \in Seq(S) /\ Len(t) = Len(s) - 1
         /\ \A k \in 1..Len(t) : t[k] = IF k < n THEN s[k] ELSE s[k + 1]
<1>1. Len(s) \in Nat /\ n \in Nat /\ n >= 1 /\ n <= Len(s)
  BY LenProperties
<1>2. \A i \in 1..Len(s) : s[i] \in S
  BY ElementOfSeq
<1>3. /\ SubSeq(s, 1, n - 1) \in Seq(S) /\ Len(SubSeq(s, 1, n - 1)) = n - 1
      /\ \A i \in 1..(n - 1) : SubSeq(s, 1, n - 1)[i] = s[i]
  <2>1. PICK m \in Int : m = n - 1
    BY <1>1
  <2>2. \A i \in 1..m : s[i] \in S
    BY <1>1, <1>2, <2>1
  <2>3. /\ SubSeq(s, 1, m) \in Seq(S) /\ Len(SubSeq(s, 1, m)) = IF 1 <= m THEN m - 1 + 1 ELSE 0
        /\ \A i \in 1..(m - 1 + 1) : SubSeq(s, 1, m)[i] = s[1 + i - 1]
    BY <2>2, SubSeqProperties
  <2>4. m - 1 + 1 = m /\ m >= 0 /\ \A i \in 1..m : 1 + i - 1 = i
    BY <1>1, <2>1
  <2>5. Len(SubSeq(s, 1, m)) = m
    BY <2>3, <2>4
  <2> QED BY <2>1, <2>3, <2>4, <2>5
<1>4. /\ SubSeq(s, n + 1, Len(s)) \in Seq(S) /\ Len(SubSeq(s, n + 1, Len(s))) = Len(s) - n
      /\ \A i \in 1..(Len(s) - n) : SubSeq(s, n + 1, Len(s))[i] = s[n + i]
  <2>1. PICK m \in Int : m = n + 1
    BY <1>1
  <2>2. \A i \in m..Len(s) : s[i] \in S
    BY <1>1, <1>2, <2>1
  <2>3. /\ SubSeq(s, m, Len(s)) \in Seq(S)
        /\ Len(SubSeq(s, m, Len(s))) = IF m <= Len(s) THEN Len(s) - m + 1 ELSE 0
        /\ \A i \in 1..(Len(s) - m + 1) : SubSeq(s, m, Len(s))[i] = s[m + i - 1]
    BY <1>1, <2>2, SubSeqProperties
  <2>4. Len(s) - m + 1 = Len(s) - n /\ \A i \in 1..(Len(s) - n) : m + i - 1 = n + i
    BY <1>1, <2>1
  <2>5. Len(SubSeq(s, m, Len(s))) = Len(s) - n
    <3>1. CASE m <= Len(s)
      BY <2>3, <2>4, <3>1
    <3>2. CASE ~(m <= Len(s))
      <4>1. Len(s) - n = 0
        BY <1>1, <2>1, <3>2
      <4> QED BY <2>3, <3>2, <4>1
    <3> QED BY <3>1, <3>2
  <2> QED BY <2>1, <2>3, <2>4, <2>5
<1>5. /\ t \in Seq(S) /\ Len(t) = Len(s) - 1
      /\ \A i \in 1..(Len(s) - 1) : t[i] = IF i <= n - 1 THEN SubSeq(s, 1, n - 1)[i]
                                           ELSE SubSeq(s, n + 1, Len(s))[i - (n - 1)]
  <2> DEFINE a == SubSeq(s, 1, n - 1)
             b == SubSeq(s, n + 1, Len(s))
  <2>1. a \in Seq(S) /\ b \in Seq(S) /\ Len(a) = n - 1 /\ Len(b) = Len(s) - n
    BY <1>3, <1>4
  <2>6. t = a \o b
    BY DEF RemoveAt
  <2> HIDE DEF a, b
  <2>2. /\ t \in Seq(S) /\ Len(t) = Len(a) + Len(b)
        /\ \A i \in 1 .. Len(a) + Len(b) : t[i] = IF i <= Len(a) THEN a[i] ELSE b[i - Len(a)]
    <3>1. /\ a \o b \in Seq(S) /\ Len(a \o b) = Len(a) + Len(b)
          /\ \A i \in 1 .. Len(a) + Len(b) :
               (a \o b)[i] = IF i <= Len(a) THEN a[i] ELSE b[i - Len(a)]
      BY <2>1, ConcatProperties
    <3> QED BY <2>6, <3>1
  <2>3. Len(a) + Len(b) = Len(s) - 1
    BY <1>1, <2>1
  <2>4. \A i \in 1..(Len(s) - 1) : t[i] = IF i <= n - 1 THEN a[i] ELSE b[i - (n - 1)]
    BY <2>1, <2>2, <2>3
  <2> QED BY <2>2, <2>3, <2>4 DEF a, b
<1>6. ASSUME NEW k \in 1..Len(t) PROVE t[k] = IF k < n THEN s[k] ELSE s[k + 1]
  <2>1. k \in 1..(Len(s) - 1)
    BY <1>5
  <2>2. CASE k < n
    <3>1. k <= n - 1 /\ k \in 1..(n - 1)
      BY <1>1, <2>1, <2>2
    <3> QED BY <1>3, <1>5, <2>1, <2>2, <3>1
  <2>3. CASE ~(k < n)
    <3>1. PICK i : i = k - (n - 1)
      OBVIOUS
    <3>2. ~(k <= n - 1) /\ i \in 1..(Len(s) - n) /\ n + i = k + 1
      BY <1>1, <2>1, <2>3, <3>1
    <3>3. t[k] = SubSeq(s, n + 1, Len(s))[i]
      BY <1>5, <2>1, <3>1, <3>2
    <3> QED BY <1>4, <2>3, <3>2, <3>3
  <2> QED BY <2>2, <2>3
<1> QED BY <1>5, <1>6

LEMMA TakeIs ==
  ASSUME TypeOK, NEW i, Take(i)
  PROVE  /\ queue' \in Seq(Items) /\ Len(queue') <= MaxQueue
         /\ i \in Items /\ out' = out \cup {i} /\ out' \subseteq Items
<1>1. Types
  BY TypeParts
<1>2. PICK n \in 1..Len(queue) : queue[n] = i /\ queue' = RemoveAt(queue, n)
  BY DEF Take
<1>3. queue' \in Seq(Items) /\ Len(queue') = Len(queue) - 1
  BY <1>1, <1>2, RemovedAt DEF Types
<1>4. Len(queue) \in Nat /\ MaxQueue \in Nat
  BY <1>1, VideoAssumption, LenProperties DEF Types
<1>5. i \in Items
  BY <1>1, <1>2, ElementOfSeq DEF Types
<1>6. out' = out \cup {i}
  BY DEF Take
<1> QED BY <1>1, <1>3, <1>4, <1>5, <1>6 DEF Types

\* Taking an item, to remove it or to play it.
LEMMA TakeStep ==
  ASSUME TalkInv, NEW i, Take(i),
         job' \in [Workers -> {Idle} \cup Task], Settled' => Settled
  PROVE  TalkInv'
<1>1. Types /\ TypeOK
  BY TypeParts DEF TalkInv
<1>2. UNCHANGED <<video, history, unsaid, attached, welcomed, chan, view>>
  BY DEF Take, viewVars
<1>3. TypeOK'
  BY <1>1, <1>2, TakeIs, TypeParts DEF Types
<1>4. NumbersInv' /\ FollowInv'
  BY <1>2, Quiet DEF TalkInv
<1> QED BY <1>3, <1>4 DEF TalkInv

LEMMA RemoveItemStep ==
  ASSUME TalkInv, NEW i \in Items, RemoveItem(i) PROVE TalkInv'
<1>1. Take(i) /\ job' = job /\ unsaid' = unsaid /\ job \in [Workers -> {Idle} \cup Task]
  BY TypeParts DEF RemoveItem, Take, TalkInv, Types
<1> QED BY <1>1, TakeStep DEF Settled

\* The mutex is a worker, and a handler that holds it found it free.
LEMMA MutexWorks == Mutex \in Workers
BY DEF Workers

LEMMA PlayStep ==
  ASSUME TalkInv, NEW i, Take(i), Begin(Mutex, LinkOf[i], TRUE, TRUE) PROVE TalkInv'
<1>1. TypeOK /\ job[Mutex] = Idle /\ unsaid' = unsaid
  BY DEF Take, Free, TalkInv
<1>2. LinkOf[i] \in Urls
  BY <1>1, TakeIs, VideoAssumption
<1>3. job' \in [Workers -> {Idle} \cup Task] /\ (Settled' => Settled)
  BY <1>1, <1>2, MutexWorks, BeginIs
<1> QED BY <1>3, TakeStep

LEMMA PreviousStep ==
  ASSUME TalkInv, Previous PROVE TalkInv'
<1>1. Types /\ TypeOK
  BY TypeParts DEF TalkInv
<1>2. /\ job[Mutex] = Idle /\ history # <<>> /\ history' = Front(history)
      /\ Begin(Mutex, Last(history), FALSE, TRUE)
      /\ UNCHANGED <<video, queue, out, unsaid, attached, welcomed, chan, view>>
  BY DEF Previous, Free, viewVars
<1>3. /\ Len(history) \in Nat /\ Len(history) # 0 /\ MaxHistory \in Nat
  BY <1>1, <1>2, EmptySeq, VideoAssumption DEF Types
<1>4. \A n \in 1..Len(history) : history[n] \in Urls
  BY <1>1, ElementOfSeq DEF Types
<1>5. Last(history) \in Urls
  BY <1>3, <1>4 DEF Last
<1>6. history' \in Seq(Urls) /\ Len(history') <= MaxHistory
  <2>1. PICK m \in Int : m = Len(history) - 1
    BY <1>3
  <2>2. \A i \in 1..m : history[i] \in Urls
    BY <1>3, <1>4, <2>1
  <2>3. SubSeq(history, 1, m) \in Seq(Urls)
        /\ Len(SubSeq(history, 1, m)) = IF 1 <= m THEN m - 1 + 1 ELSE 0
    BY <2>2, SubSeqProperties
  <2>4. history' = SubSeq(history, 1, m)
    BY <1>2, <2>1 DEF Front
  <2>5. Len(history') <= MaxHistory
    <3>1. Len(history) <= MaxHistory
      BY <1>1 DEF Types
    <3> QED BY <1>3, <2>1, <2>3, <2>4, <3>1
  <2> QED BY <2>3, <2>4, <2>5
<1>7. job' \in [Workers -> {Idle} \cup Task] /\ (Settled' => Settled)
  BY <1>1, <1>2, <1>5, MutexWorks, BeginIs
<1>8. TypeOK'
  BY <1>1, <1>2, <1>6, <1>7, TypeParts DEF Types
<1>9. NumbersInv' /\ FollowInv'
  BY <1>2, <1>7, Quiet DEF TalkInv
<1> QED BY <1>8, <1>9 DEF TalkInv

LEMMA ReorderStep ==
  ASSUME TalkInv, NEW l \in Lists, Reorder(l) PROVE TalkInv'
<1>1. Types
  BY TypeParts DEF TalkInv
<1>2. /\ Len(l) = Len(queue) /\ queue' = l
      /\ UNCHANGED <<video, history, out, job, unsaid, attached, welcomed, chan, view>>
  BY DEF Reorder, workVars, viewVars
<1>3. l \in Seq(Items)
  <2>1. PICK n \in Nat : l \in [1..n -> Added]
    BY DEF Lists
  <2>2. Added \subseteq Items
    BY <1>1, RangeOfSeq DEF Added, Types
  <2>3. l \in Seq(Added)
    BY <2>1
  <2> QED BY <2>2, <2>3, SeqMonotonic
<1>4. TypeOK'
  BY <1>1, <1>2, <1>3, TypeParts DEF Types
<1>5. NumbersInv' /\ FollowInv'
  BY <1>2, Quiet DEF TalkInv, Settled
<1> QED BY <1>4, <1>5 DEF TalkInv

----------------------------------------------------------------------------
(* The steps of the viewers and of the heartbeat. *)

\* Telling the state again, numbered as it is.
LEMMA PatchTells ==
  ASSUME TypeOK
  PROVE  /\ <<Patch(video)>> \in Seq(Msg) /\ <<Patch(video)>> # <<>>
         /\ AllNumbered(video, <<Patch(video)>>)
         /\ \A n \in 1..Len(<<Patch(video)>>) : ~<<Patch(video)>>[n].full
         /\ Tells(video, <<Patch(video)>>[Len(<<Patch(video)>>)])
<1>1. video \in Video /\ video.seq \in Nat
  BY TypeParts DEF Types, Video
<1>2. PICK m \in Msg : /\ m = Patch(video) /\ ~m.full
                       /\ m.seq = video.seq /\ m.status = video.status /\ m.at = video.at
  BY <1>1, MessageTypes
<1>3. <<m>> \in Seq(Msg) /\ Len(<<m>>) = 1 /\ <<m>>[1] = m /\ <<m>> # <<>>
  BY OneMessage
<1>4. \A n \in 1..Len(<<m>>) : n = 1
  BY <1>3
<1> QED BY <1>1, <1>2, <1>3, <1>4 DEF AllNumbered, Numbered, Tells

LEMMA HeartbeatStep ==
  ASSUME TalkInv, Heartbeat PROVE TalkInv'
<1>1. Types /\ TypeOK /\ NumbersInv
  BY TypeParts DEF TalkInv
<1>2. /\ Broadcast(<<Patch(video)>>)
      /\ UNCHANGED <<video, queue, history, out, job, unsaid, attached, welcomed, view>>
  BY DEF Heartbeat, listVars, workVars
<1>3. PICK msgs \in Seq(Msg) : msgs = <<Patch(video)>>
  BY <1>1, PatchTells
<1>4. /\ msgs # <<>> /\ AllNumbered(video, msgs) /\ \A n \in 1..Len(msgs) : ~msgs[n].full
      /\ Tells(video, msgs[Len(msgs)]) /\ Broadcast(msgs)
  BY <1>1, <1>2, <1>3, PatchTells
<1>5. /\ chan' \in [Viewers -> Seq(Msg)]
      /\ \A c \in Viewers : chan'[c] = IF c \in attached THEN chan[c] \o msgs ELSE chan[c]
  BY <1>1, <1>4, Broadcasted DEF Types
<1>6. TypeOK'
  BY <1>1, <1>2, <1>5, TypeParts DEF Types
<1>7. NumbersInv'
  <2>1. Later(video, video') /\ video' \in Video
    BY <1>1, <1>2 DEF Later, Types
  <2> QED BY <1>1, <1>2, <1>4, <2>1, NumbersAfterBroadcast
<1>8. FollowInv'
  <2>1. SUFFICES ASSUME Settled, NEW c \in welcomed PROVE Knows(video, chan'[c], view[c])
    BY <1>2 DEF FollowInv, Settled
  <2>2. Knows(video, chan[c], view[c]) /\ c \in attached /\ c \in Viewers /\ chan[c] \in Seq(Msg)
    BY <1>1, <2>1 DEF TalkInv, FollowInv, Types
  <2>3. chan'[c] = chan[c] \o msgs
    BY <1>5, <2>2
  <2> QED BY <1>4, <2>2, <2>3, KnowsPatched DEF Knows
<1> QED BY <1>6, <1>7, <1>8 DEF TalkInv

\* One viewer is sent the state, after what is on its way already.
LEMMA TellOne ==
  ASSUME TalkInv, NEW c \in Viewers, NEW msgs \in Seq(Msg), AllNumbered(video, msgs),
         chan' = [chan EXCEPT ![c] = chan[c] \o msgs], Knows(video, chan[c] \o msgs, view[c]),
         welcomed \subseteq welcomed', welcomed' \subseteq welcomed \cup {c},
         welcomed' \subseteq attached,
         UNCHANGED <<video, queue, history, out, job, unsaid, attached, view>>
  PROVE  TalkInv'
<1>1. Types /\ TypeOK /\ NumbersInv
  BY TypeParts DEF TalkInv
<1>2. chan \in [Viewers -> Seq(Msg)] /\ chan[c] \o msgs \in Seq(Msg)
  BY <1>1, Joined DEF Types
<1>3. /\ chan' \in [Viewers -> Seq(Msg)] /\ chan'[c] = chan[c] \o msgs
      /\ \A d \in Viewers : d # c => chan'[d] = chan[d]
  BY <1>2
<1>4. TypeOK'
  BY <1>1, <1>3, TypeParts DEF Types
<1>5. NumbersInv'
  <2>1. AllNumbered(video, chan[c] \o msgs)
    BY <1>1, <1>2, NumberedJoined DEF NumbersInv
  <2> QED BY <1>1, <1>3, <2>1 DEF NumbersInv
<1>6. FollowInv'
  <2>1. SUFFICES ASSUME Settled, NEW d \in welcomed' PROVE Knows(video, chan'[d], view[d])
    BY DEF FollowInv, Settled
  <2>2. CASE d = c
    BY <1>3, <2>2
  <2>3. CASE d # c
    <3>1. d \in welcomed /\ d \in Viewers
      BY <1>1, <2>3 DEF Types
    <3> QED BY <1>3, <2>1, <2>3, <3>1 DEF TalkInv, FollowInv
  <2> QED BY <2>2, <2>3
<1> QED BY <1>4, <1>5, <1>6 DEF TalkInv

LEMMA SyncRequestStep ==
  ASSUME TalkInv, NEW c \in Viewers, SyncRequest(c) PROVE TalkInv'
<1>1. Types /\ TypeOK
  BY TypeParts DEF TalkInv
<1>2. /\ c \in welcomed /\ chan[c] = <<>> /\ chan' = [chan EXCEPT ![c] = <<Patch(video)>>]
      /\ UNCHANGED <<video, queue, history, out, job, unsaid, attached, welcomed, view>>
  BY DEF SyncRequest, listVars, workVars
<1>3. PICK msgs \in Seq(Msg) : msgs = <<Patch(video)>>
  BY <1>1, PatchTells
<1>4. /\ msgs # <<>> /\ AllNumbered(video, msgs) /\ \A n \in 1..Len(msgs) : ~msgs[n].full
      /\ Tells(video, msgs[Len(msgs)])
  BY <1>1, <1>3, PatchTells
<1>5. chan[c] \o msgs = msgs /\ chan[c] \in Seq(Msg)
  BY <1>1, <1>2, ConcatEmptySeq DEF Types
<1>6. chan' = [chan EXCEPT ![c] = chan[c] \o msgs]
  BY <1>2, <1>3, <1>5
<1>7. NumbersInv' /\ TypeOK'
  <2>1. /\ chan' \in [Viewers -> Seq(Msg)] /\ chan'[c] = msgs
        /\ \A d \in Viewers : d # c => chan'[d] = chan[d]
    BY <1>1, <1>2, <1>3 DEF Types
  <2>2. TypeOK'
    BY <1>1, <1>2, <2>1, TypeParts DEF Types
  <2>3. NumbersInv'
    BY <1>2, <1>4, <2>1 DEF NumbersInv, TalkInv
  <2> QED BY <2>2, <2>3
<1>8. FollowInv'
  <2>1. SUFFICES ASSUME Settled, NEW d \in welcomed PROVE Knows(video, chan'[d], view[d])
    BY <1>2 DEF FollowInv, Settled
  <2>2. Knows(video, chan[d], view[d]) /\ d \in Viewers
    BY <1>1, <2>1 DEF TalkInv, FollowInv, Types
  <2>3. CASE d = c
    <3>1. Knows(video, chan[c] \o msgs, view[c])
      BY <1>4, <1>5, <2>2, <2>3, KnowsPatched DEF Knows
    <3> QED BY <1>1, <1>6, <2>2, <2>3, <3>1 DEF Types
  <2>4. CASE d # c
    BY <1>1, <1>2, <2>2, <2>4 DEF Types
  <2> QED BY <2>3, <2>4
<1> QED BY <1>7, <1>8 DEF TalkInv

LEMMA WelcomeStep ==
  ASSUME TalkInv, NEW c \in Viewers, Welcome(c) PROVE TalkInv'
<1>1. Types /\ TypeOK
  BY TypeParts DEF TalkInv
<1>2. /\ c \in attached /\ welcomed' = welcomed \cup {c}
      /\ chan' = [chan EXCEPT ![c] = Append(chan[c], Snapshot(video))]
      /\ UNCHANGED <<video, queue, history, out, job, unsaid, attached, view>>
  BY DEF Welcome, listVars, workVars
<1>3. video \in Video /\ video.seq \in Nat /\ chan[c] \in Seq(Msg)
  BY <1>1 DEF Types, Video
<1>4. PICK m \in Msg : /\ m = Snapshot(video) /\ m.full /\ m.url = video.url
                       /\ m.seq = video.seq /\ m.status = video.status /\ m.at = video.at
  BY <1>3, MessageTypes
<1>5. <<m>> \in Seq(Msg) /\ Len(<<m>>) = 1 /\ <<m>>[1] = m /\ <<m>> # <<>>
  BY OneMessage
<1>6. \A n \in 1..Len(<<m>>) : n = 1
  BY <1>5
<1>7. Append(chan[c], Snapshot(video)) = chan[c] \o <<m>>
  BY <1>3, <1>4, AppendIsConcat
<1>8. AllNumbered(video, <<m>>)
  BY <1>3, <1>4, <1>5, <1>6 DEF AllNumbered, Numbered
<1>9. Knows(video, chan[c] \o <<m>>, view[c])
  <2>1. \A n \in 1..Len(<<m>>) : n > 1 => ~<<m>>[n].full
    BY <1>6
  <2>2. Tells(video, <<m>>[Len(<<m>>)])
    BY <1>4, <1>5 DEF Tells
  <2> QED BY <1>3, <1>4, <1>5, <2>1, <2>2, KnowsSnapshot
<1>10. chan' = [chan EXCEPT ![c] = chan[c] \o <<m>>]
  BY <1>2, <1>7
<1>11. welcomed \subseteq attached
  BY <1>1 DEF Types
<1> QED BY <1>2, <1>5, <1>8, <1>9, <1>10, <1>11, TellOne

LEMMA AttachStep ==
  ASSUME TalkInv, NEW c \in Viewers, Attach(c) PROVE TalkInv'
<1>1. Types
  BY TypeParts DEF TalkInv
<1>2. /\ attached' = attached \cup {c}
      /\ UNCHANGED <<video, queue, history, out, job, unsaid, welcomed, chan, view>>
  BY DEF Attach, listVars, workVars
<1>3. TypeOK'
  BY <1>1, <1>2, TypeParts DEF Types
<1>4. NumbersInv' /\ FollowInv'
  BY <1>2, Quiet DEF TalkInv, Settled
<1> QED BY <1>3, <1>4 DEF TalkInv

LEMMA DetachStep ==
  ASSUME TalkInv, NEW c \in Viewers, Detach(c) PROVE TalkInv'
<1>1. Types
  BY TypeParts DEF TalkInv
<1>2. /\ attached' = attached \ {c} /\ welcomed' = welcomed \ {c}
      /\ chan' = [chan EXCEPT ![c] = <<>>]
      /\ UNCHANGED <<video, queue, history, out, job, unsaid, view>>
  BY DEF Detach, listVars, workVars
<1>3. <<>> \in Seq(Msg) /\ 1..Len(<<>>) = {}
  BY EmptySeq
<1>4. /\ chan' \in [Viewers -> Seq(Msg)] /\ chan'[c] = <<>>
      /\ \A d \in Viewers : d # c => chan'[d] = chan[d]
  BY <1>1, <1>2, <1>3 DEF Types
<1>5. TypeOK'
  BY <1>1, <1>2, <1>4, TypeParts DEF Types
<1>6. NumbersInv'
  BY <1>2, <1>3, <1>4 DEF NumbersInv, TalkInv, AllNumbered
<1>7. FollowInv'
  <2>1. SUFFICES ASSUME Settled, NEW d \in welcomed, d # c PROVE Knows(video, chan'[d], view[d])
    BY <1>2 DEF FollowInv, Settled
  <2>2. d \in Viewers
    BY <1>1 DEF Types
  <2> QED BY <1>4, <2>1, <2>2 DEF FollowInv, TalkInv
<1> QED BY <1>5, <1>6, <1>7 DEF TalkInv

LEMMA ReceiveStep ==
  ASSUME TalkInv, NEW c \in Viewers, Receive(c) PROVE TalkInv'
<1>1. Types
  BY TypeParts DEF TalkInv
<1>2. /\ chan[c] # <<>> /\ chan' = [chan EXCEPT ![c] = Tail(chan[c])]
      /\ view' = [view EXCEPT ![c] = Applied(view[c], Head(chan[c]))]
      /\ UNCHANGED <<video, queue, history, out, job, unsaid, attached, welcomed>>
  BY DEF Receive, listVars, workVars
<1>3. chan[c] \in Seq(Msg) /\ view[c] \in Store
  BY <1>1 DEF Types
<1>4. PICK head \in Msg, tail \in Seq(Msg) :
        /\ head = Head(chan[c]) /\ tail = Tail(chan[c]) /\ head = chan[c][1]
        /\ Len(tail) = Len(chan[c]) - 1
        /\ \A i \in 1..Len(tail) : tail[i] = chan[c][i + 1]
  <2>1. /\ Head(chan[c]) \in Msg /\ Tail(chan[c]) \in Seq(Msg)
        /\ Len(Tail(chan[c])) = Len(chan[c]) - 1
        /\ \A i \in 1..Len(Tail(chan[c])) : Tail(chan[c])[i] = chan[c][i + 1]
    BY <1>2, <1>3, HeadTailProperties
  <2>2. Head(chan[c]) = chan[c][1]
    BY <1>2, <1>3
  <2> QED BY <2>1, <2>2
<1>5. Len(chan[c]) \in Nat /\ Len(chan[c]) # 0
  BY <1>2, <1>3, EmptySeq
<1>6. AllNumbered(video, chan[c]) /\ (view[c] # NoView => Numbered(video, view[c]))
  BY DEF TalkInv, NumbersInv
<1>7. Numbered(video, head) /\ AllNumbered(video, tail)
  <2>1. 1 \in 1..Len(chan[c]) /\ \A i \in 1..Len(tail) : i + 1 \in 1..Len(chan[c])
    BY <1>4, <1>5
  <2> QED BY <1>4, <1>6, <2>1 DEF AllNumbered
<1>8. PICK new : new = Applied(view[c], head)
  OBVIOUS
<1>9. new \in Store /\ (new # NoView => Numbered(video, new))
  BY <1>3, <1>6, <1>7, <1>8, AppliedIs
<1>10. /\ chan' \in [Viewers -> Seq(Msg)] /\ chan'[c] = tail
       /\ view' \in [Viewers -> Store] /\ view'[c] = new
       /\ \A d \in Viewers : d # c => chan'[d] = chan[d] /\ view'[d] = view[d]
  BY <1>1, <1>2, <1>4, <1>8, <1>9 DEF Types
<1>11. TypeOK'
  BY <1>1, <1>2, <1>10, TypeParts DEF Types
<1>12. NumbersInv'
  <2>1. SUFFICES ASSUME NEW d \in Viewers
        PROVE  AllNumbered(video, chan'[d]) /\ (view'[d] # NoView => Numbered(video, view'[d]))
    BY <1>2 DEF NumbersInv
  <2>2. CASE d = c
    BY <1>7, <1>9, <1>10, <2>2
  <2>3. CASE d # c
    BY <1>10, <2>3 DEF NumbersInv, TalkInv
  <2> QED BY <2>2, <2>3
<1>13. FollowInv'
  <2>1. SUFFICES ASSUME Settled, NEW d \in welcomed PROVE Knows(video, chan'[d], view'[d])
    BY <1>2 DEF FollowInv, Settled
  <2>2. Knows(video, chan[d], view[d]) /\ d \in Viewers
    BY <1>1, <2>1 DEF TalkInv, FollowInv, Types
  <2>3. CASE d = c
    <3>1. Knows(video, Tail(chan[c]), Applied(view[c], Head(chan[c])))
      BY <1>2, <1>3, <2>2, <2>3, KnowsRead
    <3> QED BY <1>4, <1>8, <1>10, <2>3, <3>1
  <2>4. CASE d # c
    BY <1>10, <2>2, <2>4
  <2> QED BY <2>3, <2>4
<1> QED BY <1>11, <1>12, <1>13 DEF TalkInv

----------------------------------------------------------------------------
(* The queue. *)

\* QueueSound place by place.
LEMMA SoundIs ==
  ASSUME NEW q \in Seq(Items), NEW gone
  PROVE  /\ IsInjective(q) <=> \A m, n \in 1..Len(q) : q[m] = q[n] => m = n
         /\ Range(q) \cap gone = {} <=> \A n \in 1..Len(q) : q[n] \notin gone
<1>1. DOMAIN q = 1..Len(q)
  BY LenProperties
<1>2. Range(q) = {q[n] : n \in 1..Len(q)}
  BY RangeEquality
<1>3. IsInjective(q) <=> \A m, n \in 1..Len(q) : q[m] = q[n] => m = n
  BY <1>1 DEF IsInjective
<1>4. Range(q) \cap gone = {} <=> \A n \in 1..Len(q) : q[n] \notin gone
  BY <1>2
<1> QED BY <1>3, <1>4

LEMMA QueueAdded ==
  ASSUME TypeOK, QueueSound, NEW i \in Items, AddItem(i) PROVE QueueSound'
<1>1. queue \in Seq(Items) /\ Len(queue) \in Nat
  BY TypeParts, LenProperties DEF Types
<1>2. /\ i \notin Range(queue) /\ i \notin out
      /\ queue' = Append(queue, i) /\ out' = out
  BY DEF AddItem, Added
<1>3. PICK q \in Seq(Items) :
        /\ q = queue' /\ Len(q) = Len(queue) + 1 /\ q[Len(queue) + 1] = i
        /\ \A n \in 1..Len(queue) : q[n] = queue[n]
  BY <1>1, <1>2, AppendProperties
<1>4. /\ \A m, n \in 1..Len(queue) : queue[m] = queue[n] => m = n
      /\ \A n \in 1..Len(queue) : queue[n] \notin out /\ queue[n] # i
  <2>1. \A n \in 1..Len(queue) : queue[n] # i
    BY <1>1, <1>2, RangeEquality
  <2> QED BY <1>1, <2>1, SoundIs DEF QueueSound
<1>5. \A n \in 1..Len(q) : n \in 1..Len(queue) \/ n = Len(queue) + 1
  BY <1>1, <1>3
<1>6. \A m, n \in 1..Len(q) : q[m] = q[n] => m = n
  BY <1>3, <1>4, <1>5
<1>7. \A n \in 1..Len(q) : q[n] \notin out
  BY <1>2, <1>3, <1>4, <1>5
<1> QED BY <1>2, <1>3, <1>6, <1>7, SoundIs DEF QueueSound

LEMMA QueueTaken ==
  ASSUME TypeOK, QueueSound, NEW i, Take(i) PROVE QueueSound'
<1>1. queue \in Seq(Items) /\ Len(queue) \in Nat
  BY TypeParts, LenProperties DEF Types
<1>2. PICK n \in 1..Len(queue) : queue[n] = i /\ queue' = RemoveAt(queue, n)
  BY DEF Take
<1>3. out' = out \cup {i}
  BY DEF Take
<1>4. PICK q \in Seq(Items) :
        /\ q = queue' /\ Len(q) = Len(queue) - 1
        /\ \A k \in 1..Len(q) : q[k] = IF k < n THEN queue[k] ELSE queue[k + 1]
  BY <1>1, <1>2, RemovedAt
<1>5. /\ \A m, k \in 1..Len(queue) : queue[m] = queue[k] => m = k
      /\ \A k \in 1..Len(queue) : queue[k] \notin out
  BY <1>1, SoundIs DEF QueueSound
<1>6. ASSUME NEW k \in 1..Len(q)
      PROVE  \E m \in 1..Len(queue) : /\ q[k] = queue[m] /\ m # n
                                      /\ m = IF k < n THEN k ELSE k + 1
  BY <1>1, <1>4
<1>7. ASSUME NEW j \in 1..Len(q), NEW k \in 1..Len(q), q[j] = q[k] PROVE j = k
  <2>1. PICK a \in 1..Len(queue) : q[j] = queue[a] /\ a # n /\ a = IF j < n THEN j ELSE j + 1
    BY <1>6
  <2>2. PICK b \in 1..Len(queue) : q[k] = queue[b] /\ b # n /\ b = IF k < n THEN k ELSE k + 1
    BY <1>6
  <2>3. a = b
    BY <1>5, <1>7, <2>1, <2>2
  <2> QED BY <1>1, <1>4, <2>1, <2>2, <2>3
<1>8. ASSUME NEW k \in 1..Len(q) PROVE q[k] \notin out \cup {i}
  <2>1. PICK m \in 1..Len(queue) : q[k] = queue[m] /\ m # n
    BY <1>6
  <2> QED BY <1>2, <1>5, <2>1
<1> QED BY <1>3, <1>4, <1>7, <1>8, SoundIs DEF QueueSound

\* A list as long as the queue, of items of the queue, none of them twice.
LEMMA QueueReordered ==
  ASSUME TypeOK, QueueSound, NEW l \in Lists, Reorder(l) PROVE QueueSound'
<1>1. IsInjective(l) /\ Range(l) \subseteq Range(queue) /\ queue' = l /\ out' = out
  BY DEF Lists, Reorder
<1> QED BY <1>1 DEF QueueSound

----------------------------------------------------------------------------
(* Every step. *)

LEMMA TalkKept ==
  ASSUME TalkInv, [Next]_vars PROVE TalkInv'
<1>1. CASE UNCHANGED vars
  <2>1. UNCHANGED <<video, queue, history, out, job, unsaid, attached, welcomed, chan, view>>
    BY <1>1 DEF vars, listVars, workVars, viewVars
  <2>2. TypeOK' /\ NumbersInv' /\ FollowInv'
    <3>1. Types'
      BY <2>1, TypeParts DEF Types, TalkInv
    <3>2. NumbersInv' /\ FollowInv'
      BY <2>1, Quiet DEF TalkInv, Settled
    <3> QED BY <3>1, <3>2, TypeParts
  <2> QED BY <2>2 DEF TalkInv
<1>2. ASSUME NEW w \in Workers, NEW x \in Urls, SetUrl(w, x) PROVE TalkInv'
  BY <1>2, SetUrlStep
<1>3. ASSUME NEW w \in Workers, ResolveFails(w) \/ Switch(w) \/ Switched(w) \/ WriteFails(w)
      PROVE  TalkInv'
  BY <1>3, ResolveFailsStep, SwitchStep, SwitchedStep, WriteFailsStep
<1>4. ASSUME NEW i \in Items, AddItem(i) \/ RemoveItem(i) PROVE TalkInv'
  BY <1>4, AddItemStep, RemoveItemStep
<1>5. ASSUME NEW i \in Items, PlayItem(i) PROVE TalkInv'
  BY <1>5, PlayStep DEF PlayItem
<1>6. ASSUME NEW x \in Urls, Ended(x) PROVE TalkInv'
  BY <1>6, PlayStep DEF Ended
<1>7. ASSUME NEW l \in Lists, Reorder(l) PROVE TalkInv'
  BY <1>7, ReorderStep
<1>8. ASSUME NEW s \in {"playing", "paused"}, NEW p \in Places, Intent(s, p) PROVE TalkInv'
  BY <1>8, IntentStep DEF Statuses
<1>9. ASSUME NEW on \in BOOLEAN, SetAutoSync(on) PROVE TalkInv'
  BY <1>9, SetAutoSyncStep
<1>10. CASE Previous \/ SyncTimer \/ SyncAll \/ Heartbeat
  BY <1>10, PreviousStep, SyncTimerStep, SyncAllStep, HeartbeatStep
<1>11. ASSUME NEW c \in Viewers,
              SyncRequest(c) \/ Attach(c) \/ Welcome(c) \/ Detach(c) \/ Receive(c)
       PROVE  TalkInv'
  BY <1>11, SyncRequestStep, AttachStep, WelcomeStep, DetachStep, ReceiveStep
<1> QED BY <1>1, <1>2, <1>3, <1>4, <1>5, <1>6, <1>7, <1>8, <1>9, <1>10, <1>11 DEF Next

LEMMA QueueKept ==
  ASSUME TypeOK, QueueSound, [Next]_vars PROVE QueueSound'
<1>1. ASSUME UNCHANGED <<queue, out>> PROVE QueueSound'
  BY <1>1 DEF QueueSound
<1>2. CASE UNCHANGED vars
  BY <1>1, <1>2 DEF vars, listVars
<1>3. ASSUME NEW w \in Workers, \/ \E x \in Urls : SetUrl(w, x)
                                \/ ResolveFails(w) \/ Switch(w) \/ Switched(w) \/ WriteFails(w)
      PROVE  QueueSound'
  BY <1>1, <1>3 DEF SetUrl, ResolveFails, Switch, Switched, WriteFails, listVars
<1>4. ASSUME NEW i \in Items, AddItem(i) PROVE QueueSound'
  BY <1>4, QueueAdded
<1>5. ASSUME NEW i \in Items, RemoveItem(i) \/ PlayItem(i) PROVE QueueSound'
  BY <1>5, QueueTaken DEF RemoveItem, PlayItem
<1>6. ASSUME NEW x \in Urls, Ended(x) PROVE QueueSound'
  BY <1>6, QueueTaken DEF Ended
<1>7. ASSUME NEW l \in Lists, Reorder(l) PROVE QueueSound'
  BY <1>7, QueueReordered
<1>8. CASE \/ \E s \in {"playing", "paused"}, p \in Places : Intent(s, p)
           \/ SyncTimer \/ SyncAll \/ \E on \in BOOLEAN : SetAutoSync(on)
  BY <1>1, <1>8 DEF Intent, SyncTimer, SyncAll, SetAutoSync, Becomes, listVars
<1>9. CASE Previous \/ Heartbeat
  BY <1>1, <1>9 DEF Previous, Heartbeat, listVars
<1>10. ASSUME NEW c \in Viewers,
              SyncRequest(c) \/ Attach(c) \/ Welcome(c) \/ Detach(c) \/ Receive(c)
       PROVE  QueueSound'
  BY <1>1, <1>10 DEF SyncRequest, Attach, Welcome, Detach, Receive, listVars
<1> QED BY <1>2, <1>3, <1>4, <1>5, <1>6, <1>7, <1>8, <1>9, <1>10 DEF Next

LEMMA Invariant == Spec => []IInv
<1>1. Init => IInv
  BY InitInv
<1>2. IInv /\ [Next]_vars => IInv'
  BY TalkKept, QueueKept DEF IInv, TalkInv
<1> QED BY <1>1, <1>2, PTL DEF Spec

\* The types, and the limits of the queue and of the history, for any bounds.
THEOREM VideoTypes == Spec => []TypeOK
<1>1. IInv => TypeOK
  BY DEF IInv, TalkInv
<1> QED BY <1>1, Invariant, PTL

\* No order of additions, removals, plays and late lists of other viewers makes
\* an item appear twice or come back (playlist.ts).
THEOREM QueueStaysSound == Spec => []QueueSound
<1>1. IInv => QueueSound
  BY DEF IInv
<1> QED BY <1>1, Invariant, PTL

\* The number identifies the state, whatever messages were lost, late or sent
\* again: everything a viewer is told or holds is Numbered.
THEOREM NumbersIdentify == Spec => []SeqIdentifies
<1>1. IInv => SeqIdentifies
  BY DEF IInv, TalkInv, NumbersInv, Numbered, SeqIdentifies
<1> QED BY <1>1, Invariant, PTL

\* Who has read everything sees what the room watches, for any number of
\* viewers, REST calls and links.
THEOREM ViewersFollow == Spec => []ViewFollows
<1>1. ASSUME IInv PROVE ViewFollows
  <2>1. Types /\ FollowInv
    BY <1>1, TypeParts DEF IInv, TalkInv
  <2>2. SUFFICES ASSUME Settled, NEW c \in welcomed, chan[c] = <<>>
        PROVE  view[c] = [url |-> video.url, status |-> video.status,
                          at |-> video.at, seq |-> video.seq]
    BY DEF ViewFollows, Settled
  <2>3. view[c] \in Store
    BY <2>1 DEF Types
  <2>4. 1..Len(<<>>) = {}
    BY EmptySeq
  <2>5. view[c].url = video.url /\ Tells(video, view[c])
    BY <2>1, <2>2, <2>4 DEF FollowInv, Knows, KnowsLink, KnowsState
  <2> QED BY <2>3, <2>5 DEF Store, Tells
<1> QED BY <1>1, Invariant, PTL
=============================================================================
