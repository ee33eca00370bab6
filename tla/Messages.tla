------------------------------ MODULE Messages ------------------------------
(***************************************************************************)
(* Direct messages between two users: the handlers of the user's channel   *)
(* that send, read and delete (dm/realtime.ts, dm/service.ts), the rows,   *)
(* the pushes to the tabs of both users, and the store of each tab         *)
(* (stores/dmStore.ts) with its optimistic entries and its thread loaded   *)
(* over REST.  The handlers of one socket are not awaited one after the    *)
(* other: all of them run at once, and the REST answer travels beside the  *)
(* socket.                                                                 *)
(*                                                                         *)
(* A message is its author's optimistic entry first and a row later; its   *)
(* nonce and its id are two names of one model value.  Left out: the texts *)
(* and attachments, the pages of older messages, the order of the list,    *)
(* edits and reactions, the counters of unread messages, and of the        *)
(* notification that follows a delivery everything but its failure.        *)
(***************************************************************************)
EXTENDS Naturals, Sequences

CONSTANTS
  Users,      \* the two users of the conversation
  Tabs,       \* open pages
  Owner,      \* tab -> its user
  Msgs,       \* messages there ever are
  Author,     \* message -> the tab it is written in
  MaxLoads,   \* times a thread is opened, in all
  MaxDeletes, \* deletions asked for
  MaxTroubles \* sockets that break, handlers that fail behind the row, pages hidden

ASSUME WhoAssumption == Owner \in [Tabs -> Users] /\ Author \in [Msgs -> Tabs]
ASSUME BoundAssumption == {MaxLoads, MaxDeletes, MaxTroubles} \subseteq Nat

VARIABLES
  \* the database
  row,       \* message -> none, live or deleted
  hidden,    \* message -> users who deleted it for themselves
  read,      \* messages whose readAt is set
  \* the handlers that run
  sending,   \* message -> stage of handleDmSend; told: it rings the bell, or has ended
  readers,   \* user -> dm_read requests not looked at yet
  reads,     \* markRead after its first query: whose, and the rows it will mark
  deleting,  \* dm_delete requests: the message, by whom, for all, and whether the row is done
  \* the tabs
  up,        \* the socket is open
  chan,      \* tab -> pushes on their way
  shown,     \* tab -> entries of the thread: message and mark
  loaded,    \* the thread is on the screen
  watched,   \* the thread is the active one and the page is visible
  loading,   \* a REST request for the thread has not been answered
  answer,    \* tab -> the messages of the answer on its way
  \* history
  loads, deletes, troubles,
  whole,     \* tabs that missed no push since they loaded the thread
  steady,    \* tabs that have been watched without a break since they loaded it
  crossed,   \* messages told after somebody had deleted them
  botched    \* messages whose handler failed after it created the row

dbVars == <<row, hidden, read>>
handlerVars == <<sending, readers, reads, deleting>>
screenVars == <<shown, loaded, watched, loading, answer>>
historyVars == <<loads, deletes, troubles, whole, steady, crossed, botched>>
vars == <<row, hidden, read, sending, readers, reads, deleting, up, chan, shown, loaded,
          watched, loading, answer, loads, deletes, troubles, whole, steady, crossed, botched>>

None == "none"
Entry(m, mark) == [msg |-> m, mark |-> mark]
Push(kind, m) == [kind |-> kind, msg |-> m]

\* Entries that carry the nonce of the optimistic one, and those that carry the
\* id of the row; the echo has both, and may be marked as failed all the same.
Nonced == {"pending", "failed", "echoed", "blamed"}
Known == {"sent", "echoed", "blamed"}

\* visibleTo.
Visible(u) == {m \in Msgs : row[m] = "live" /\ u \notin hidden[m]}
Incoming(u) == {m \in Msgs : Owner[Author[m]] # u}

\* Mutant: a socket that is closed is written to.
PushToAll(users, p) ==
  [t \in Tabs |-> IF Owner[t] \in users THEN Append(chan[t], p) ELSE chan[t]]

\* userHub.pushTo: to every open socket of the users.
PushTo(users, p) ==
  [t \in Tabs |-> IF up[t] /\ Owner[t] \in users THEN Append(chan[t], p) ELSE chan[t]]

----------------------------------------------------------------------------
(* Sending. *)

\* dmStore.send: an optimistic entry, and a request that is dropped silently
\* when the socket is not open.
Send(m) ==
  LET t == Author[m] IN
  /\ sending[m] = None /\ loaded[t] /\ t \notin loading
  /\ shown' = [shown EXCEPT ![t] = @ \cup {Entry(m, "pending")}]
  /\ sending' = [sending EXCEPT ![m] = IF up[t] THEN "asked" ELSE "over"]
  /\ UNCHANGED <<dbVars, readers, reads, deleting, up, chan, loaded, watched, loading, answer, historyVars>>

\* sendMessage refuses: messages are switched off, a block, the privacy of the
\* peer, or a failure before the row exists.
Refuse(m) ==
  /\ sending[m] = "asked"
  /\ sending' = [sending EXCEPT ![m] = "over"]
  /\ chan' = PushTo({Owner[Author[m]]}, Push("error", m))
  /\ UNCHANGED <<dbVars, readers, reads, deleting, up, screenVars, historyVars>>

\* sendMessage creates the row.
Make(m) ==
  /\ sending[m] = "asked"
  /\ sending' = [sending EXCEPT ![m] = "made"]
  /\ row' = [row EXCEPT ![m] = "live"]
  /\ UNCHANGED <<hidden, read, readers, reads, deleting, up, chan, screenVars, historyVars>>

\* A later query of the handler fails: the author is told that the message was
\* not sent, although the row is there and the others may have been told of it.
Botch(m) ==
  /\ sending[m] \in {"made", "told"} /\ troubles < MaxTroubles
  /\ troubles' = troubles + 1 /\ botched' = IF sending[m] = "made" THEN botched \cup {m} ELSE botched
  /\ sending' = [sending EXCEPT ![m] = "over"]
  /\ chan' = PushTo({Owner[Author[m]]}, Push("error", m))
  /\ UNCHANGED <<dbVars, readers, reads, deleting, up, screenVars,
                 loads, deletes, whole, steady, crossed>>

\* handleDmSend tells the peer, and the author with the nonce.
Tell(m) ==
  LET author == Owner[Author[m]] IN
  /\ sending[m] = "made"
  /\ sending' = [sending EXCEPT ![m] = "told"]
  /\ chan' = [t \in Tabs |-> IF Owner[t] = author THEN PushTo({author}, Push("echo", m))[t]
                             ELSE PushTo(Users \ {author}, Push("message", m))[t]]
  /\ crossed' = IF row[m] = "deleted" \/ hidden[m] # {} THEN crossed \cup {m} ELSE crossed
  /\ UNCHANGED <<dbVars, readers, reads, deleting, up, screenVars,
                 loads, deletes, troubles, whole, steady, botched>>

----------------------------------------------------------------------------
(* Reading. *)

\* markRead fixes the moment: the rows created until then.
ReadBegins(u) ==
  /\ readers[u] > 0
  /\ readers' = [readers EXCEPT ![u] = @ - 1]
  /\ reads' = reads \cup {[user |-> u, rows |-> {m \in Incoming(u) : row[m] = "live"}]}
  /\ UNCHANGED <<dbVars, sending, deleting, up, chan, screenVars, historyVars>>

\* markRead writes readAt where it is not set.
ReadEnds(r) ==
  /\ r \in reads
  /\ reads' = reads \ {r}
  /\ read' = read \cup {m \in r.rows : row[m] = "live"}
  /\ UNCHANGED <<row, hidden, sending, readers, deleting, up, chan, screenVars, historyVars>>

----------------------------------------------------------------------------
(* Deleting, from a client that offers it. *)

Delete(u, m, all) ==
  /\ m \in Visible(u) /\ deletes < MaxDeletes
  /\ deletes' = deletes + 1
  /\ deleting' = deleting \cup {[msg |-> m, user |-> u, all |-> all, done |-> FALSE]}
  /\ UNCHANGED <<dbVars, sending, readers, reads, up, chan, screenVars,
                 loads, troubles, whole, steady, crossed, botched>>

\* deleteMessages finds the row and deletes it, or hides it; another deletion
\* may have been faster, and then nobody is told.
Erase(d) ==
  /\ d \in deleting /\ ~d.done
  /\ IF d.msg \notin Visible(d.user)
     THEN deleting' = deleting \ {d} /\ UNCHANGED <<row, hidden>>
     ELSE /\ deleting' = (deleting \ {d}) \cup {[d EXCEPT !.done = TRUE]}
          /\ IF d.all THEN row' = [row EXCEPT ![d.msg] = "deleted"] /\ hidden' = hidden
             ELSE hidden' = [hidden EXCEPT ![d.msg] = @ \cup {d.user}] /\ row' = row
  /\ UNCHANGED <<read, sending, readers, reads, up, chan, screenVars, historyVars>>

\* handleDmDelete tells both users, or the tabs of the one.
TellErased(d) ==
  /\ d \in deleting /\ d.done
  /\ deleting' = deleting \ {d}
  /\ chan' = PushTo(IF d.all THEN Users ELSE {d.user}, Push("deleted", d.msg))
  /\ UNCHANGED <<dbVars, sending, readers, reads, up, screenVars, historyVars>>

----------------------------------------------------------------------------
(* The tabs. *)

\* dm_read, sent by a tab.
AskRead(t) == readers' = [readers EXCEPT ![Owner[t]] = IF up[t] THEN @ + 1 ELSE @]

\* A ChatPane opens and asks for the thread; nothing is active until it has it,
\* and the answer to one that was left before is not looked at.
\* The server takes what the rows are at some moment of the request.
Load(t) ==
  /\ loads < MaxLoads
  /\ loads' = loads + 1
  /\ loading' = loading \cup {t} /\ answer' = [answer EXCEPT ![t] = Visible(Owner[t])]
  /\ loaded' = [loaded EXCEPT ![t] = FALSE]
  /\ watched' = watched \ {t} /\ steady' = steady \ {t}
  /\ whole' = IF up[t] THEN whole \cup {t} ELSE whole \ {t}
  /\ UNCHANGED <<dbVars, handlerVars, up, chan, shown, deletes, troubles, crossed, botched>>

\* Mutant: the answer is shown, but the thread is not marked as read.
ArriveUnread(t) ==
  /\ t \in loading
  /\ loading' = loading \ {t} /\ answer' = [answer EXCEPT ![t] = {}]
  /\ shown' = [shown EXCEPT ![t] = {Entry(m, "sent") : m \in answer[t]}]
  /\ loaded' = [loaded EXCEPT ![t] = TRUE]
  /\ watched' = watched \cup {t}
  /\ steady' = IF up[t] THEN steady \cup {t} ELSE steady
  /\ UNCHANGED <<dbVars, handlerVars, up, chan, loads, deletes, troubles, whole, crossed, botched>>

\* setThread replaces whatever the store held, the thread becomes the active
\* one and is marked as read.
Arrive(t) ==
  /\ t \in loading
  /\ loading' = loading \ {t} /\ answer' = [answer EXCEPT ![t] = {}]
  /\ shown' = [shown EXCEPT ![t] = {Entry(m, "sent") : m \in answer[t]}]
  /\ loaded' = [loaded EXCEPT ![t] = TRUE]
  /\ watched' = watched \cup {t}
  /\ AskRead(t)
  /\ steady' = IF up[t] THEN steady \cup {t} ELSE steady
  /\ UNCHANGED <<dbVars, sending, reads, deleting, up, chan, loads, deletes, troubles, whole, crossed, botched>>

\* The page is hidden or the chat is left; the store keeps the thread.
LookAway(t) ==
  /\ t \in watched /\ troubles < MaxTroubles
  /\ troubles' = troubles + 1
  /\ watched' = watched \ {t} /\ steady' = steady \ {t}
  /\ UNCHANGED <<dbVars, handlerVars, up, chan, shown, loaded, loading, answer,
                 loads, deletes, whole, crossed, botched>>

\* The page is visible again: nothing is marked as read.
LookBack(t) ==
  /\ t \notin watched /\ loaded[t] /\ t \notin loading
  /\ watched' = watched \cup {t}
  /\ UNCHANGED <<dbVars, handlerVars, up, chan, shown, loaded, loading, answer, historyVars>>

Has(t, m, marks) == \E e \in shown[t] : e.msg = m /\ e.mark \in marks
Remark(t, m, from, to) ==
  {IF e.msg = m /\ e.mark \in from THEN Entry(m, to) ELSE e : e \in shown[t]}

\* applyError: the entry with the nonce, be it delivered or not.
Failed(t, m) ==
  {IF e.msg = m /\ e.mark = "echoed" THEN Entry(m, "blamed")
   ELSE IF e.msg = m /\ e.mark = "pending" THEN Entry(m, "failed") ELSE e : e \in shown[t]}

\* applyDeleted.
Without(t, m) == {e \in shown[t] : e.msg = m => e.mark \notin Known}

\* Mutant: the echo does not replace the optimistic entry.
AfterAppend(t, p) ==
  CASE p.kind \in {"message", "echo"} ->
         IF Has(t, p.msg, Known) THEN shown[t] ELSE shown[t] \cup {Entry(p.msg, "sent")}
    [] p.kind = "error" -> Failed(t, p.msg)
    [] p.kind = "deleted" -> Without(t, p.msg)

\* applyIncoming: the echo replaces the entry with its nonce, what is known is
\* ignored, the rest is new.
After(t, p) ==
  CASE p.kind = "error" -> Failed(t, p.msg)
    [] p.kind = "deleted" -> Without(t, p.msg)
    [] p.kind = "echo" /\ Has(t, p.msg, Nonced) -> Remark(t, p.msg, Nonced, "echoed")
    [] OTHER -> IF Has(t, p.msg, Known) THEN shown[t]
                ELSE shown[t] \cup {Entry(p.msg, IF p.kind = "echo" THEN "echoed" ELSE "sent")}

\* The answer on its way does not know of the push that arrives now.
Overtakes(t, p) ==
  /\ t \in loading
  /\ \/ p.kind \in {"message", "echo"} /\ p.msg \notin answer[t]
     \/ p.kind = "deleted" /\ p.msg \in answer[t]

\* RealtimeProvider.onMessage.  A tab without a thread in its store keeps none;
\* an incoming message of the thread that is watched is marked as read.
Receive(t) ==
  LET p == Head(chan[t]) IN
  /\ chan[t] # <<>>
  /\ chan' = [chan EXCEPT ![t] = Tail(@)]
  /\ shown' = IF loaded[t] THEN [shown EXCEPT ![t] = After(t, p)] ELSE shown
  /\ IF p.kind = "message" /\ t \in watched
     THEN AskRead(t) ELSE readers' = readers
  /\ whole' = IF Overtakes(t, p) THEN whole \ {t} ELSE whole
  /\ UNCHANGED <<dbVars, sending, reads, deleting, up, loaded, watched, loading, answer,
                 loads, deletes, troubles, steady, crossed, botched>>

\* The socket breaks: what was on its way in either direction may be lost.
Drop(t) ==
  /\ up[t] /\ troubles < MaxTroubles
  /\ troubles' = troubles + 1
  /\ up' = [up EXCEPT ![t] = FALSE] /\ chan' = [chan EXCEPT ![t] = <<>>]
  /\ \E lost \in SUBSET {m \in Msgs : Author[m] = t /\ sending[m] = "asked"} :
       sending' = [m \in Msgs |-> IF m \in lost THEN "over" ELSE sending[m]]
  /\ \E n \in 0..readers[Owner[t]] : readers' = [readers EXCEPT ![Owner[t]] = n]
  /\ whole' = whole \ {t} /\ steady' = {s \in steady : Owner[s] # Owner[t]}
  /\ UNCHANGED <<dbVars, reads, deleting, screenVars, loads, deletes, crossed, botched>>

\* UserSocket connects again; the thread is not loaded again.
Reconnect(t) ==
  /\ ~up[t]
  /\ up' = [up EXCEPT ![t] = TRUE]
  /\ UNCHANGED <<dbVars, handlerVars, chan, screenVars, historyVars>>

----------------------------------------------------------------------------
Init ==
  /\ row = [m \in Msgs |-> None] /\ hidden = [m \in Msgs |-> {}] /\ read = {}
  /\ sending = [m \in Msgs |-> None] /\ readers = [u \in Users |-> 0] /\ reads = {} /\ deleting = {}
  /\ up = [t \in Tabs |-> TRUE] /\ chan = [t \in Tabs |-> <<>>]
  /\ shown = [t \in Tabs |-> {}] /\ loaded = [t \in Tabs |-> FALSE]
  /\ watched = {} /\ loading = {} /\ answer = [t \in Tabs |-> {}]
  /\ loads = 0 /\ deletes = 0 /\ troubles = 0
  /\ whole = {} /\ steady = {} /\ crossed = {} /\ botched = {}

Deletions == [msg : Msgs, user : Users, all : BOOLEAN, done : BOOLEAN]
Readings == [user : Users, rows : SUBSET Msgs]

Next ==
  \/ \E m \in Msgs : Send(m) \/ Refuse(m) \/ Make(m) \/ Botch(m) \/ Tell(m)
  \/ \E u \in Users : \/ ReadBegins(u)
                      \/ \E m \in Msgs, all \in BOOLEAN : Delete(u, m, all)
  \/ \E r \in Readings : ReadEnds(r)
  \/ \E d \in Deletions : Erase(d) \/ TellErased(d)
  \/ \E t \in Tabs : \/ Load(t) \/ Arrive(t) \/ LookAway(t) \/ LookBack(t)
                     \/ Receive(t) \/ Drop(t) \/ Reconnect(t)

Spec == Init /\ [][Next]_vars

----------------------------------------------------------------------------
(* Properties. *)

Entries == [msg : Msgs, mark : Nonced \cup Known]

\* Types; nothing is on its way to a tab whose socket is closed.
TypeOK ==
  /\ row \in [Msgs -> {None, "live", "deleted"}] /\ hidden \in [Msgs -> SUBSET Users]
  /\ read \subseteq Msgs
  /\ sending \in [Msgs -> {None, "asked", "made", "told", "over"}]
  /\ readers \in [Users -> Nat] /\ reads \subseteq Readings /\ deleting \subseteq Deletions
  /\ up \in [Tabs -> BOOLEAN] /\ \A t \in Tabs : ~up[t] => chan[t] = <<>>
  /\ chan \in [Tabs -> Seq([kind : {"message", "echo", "error", "deleted"}, msg : Msgs])]
  /\ shown \in [Tabs -> SUBSET Entries] /\ loaded \in [Tabs -> BOOLEAN]
  /\ loading \subseteq Tabs /\ answer \in [Tabs -> SUBSET Msgs]
  /\ watched \subseteq Tabs /\ whole \subseteq Tabs /\ steady \subseteq watched
  /\ crossed \subseteq Msgs /\ botched \subseteq Msgs
  /\ loads \in 0..MaxLoads /\ deletes \in 0..MaxDeletes /\ troubles \in 0..MaxTroubles

\* No handler runs, but for one that rings the bell, and no push is on its way.
Quiet ==
  /\ \A m \in Msgs : sending[m] \in {None, "told", "over"}
  /\ deleting = {} /\ \A t \in Tabs : chan[t] = <<>>

ShownIn(t) == {m \in Msgs : Has(t, m, Known)}

\* When nothing runs, a thread whose tab missed no push shows the rows its user
\* may see, and no entry waits for ever: neither the echo, nor a second
\* delivery, nor a deletion, nor the reload beside them loses a message, keeps
\* a deleted one or leaves a sent one pending.  Excepted are what the code
\* leaves open: a message told after its deletion, and the row of a handler
\* that failed behind it.
ShownExact ==
  Quiet => \A t \in whole : loaded[t] =>
    /\ ~\E m \in Msgs : Has(t, m, {"pending"})
    /\ Visible(Owner[t]) \ botched \subseteq ShownIn(t)
    /\ ShownIn(t) \ crossed \subseteq Visible(Owner[t])

\* When nothing runs, whoever watches the thread since it was loaded has read
\* every message of the other that was told: the requests cannot all be served
\* before the message they were for.
WatcherHasRead ==
  (Quiet /\ reads = {}) => \A t \in steady : readers[Owner[t]] = 0 =>
    {m \in Incoming(Owner[t]) : row[m] = "live"} \ botched \subseteq read
=============================================================================
