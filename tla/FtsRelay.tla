------------------------------ MODULE FtsRelay ------------------------------
(***************************************************************************)
(* The CoT relay of the Rust server (fts-rs): one task per connection      *)
(* (process_connection) that reads the client's events and forwards what   *)
(* the other tasks broadcast, the presence and the repeat cache that are   *)
(* replayed to a new client and sent again every 15 seconds, and the two   *)
(* maps between connections and uids.  Each map and cache has a lock of    *)
(* its own, so a task that handles one event takes several steps.          *)
(*                                                                         *)
(* The broadcast channel (tokio) keeps the last Cap messages for each      *)
(* receiver; one that falls further behind loses messages.                 *)
(***************************************************************************)
EXTENDS Integers, SequencesExt

CONSTANTS
    Conn,      \* connections; a connection is used once
    Uid,       \* uids of the clients' presence events
    Point,     \* uids of points and shapes (b-m-*, drop points)
    Version,   \* contents of a point
    WinTak,    \* the uids that are Windows SIDs: no replay, no pong
    Cap,       \* capacity of the broadcast channel (100)
    MaxEvents, \* bound on the events all clients send
    None

ASSUME RelayAssumption ==
    /\ None \notin Conn /\ None \notin Uid /\ None \notin Version
    /\ WinTak \subseteq Uid
    /\ Cap \in Nat \ {0}
    /\ MaxEvents \in Nat

VARIABLES
    peer,      \* the client's end: "unused", "up", "closed" (EOF) or "lost"
    ident,     \* the uid the client of a connection uses
    task,      \* "none", "up", "ended" after cleanup, "failed" without
    pc,        \* where a task is in the handling of an event
    ev,        \* the event it handles
    replayed,  \* replay_sent of the task
    connUid,   \* conn_state: uid of a connection
    uidConn,   \* uid_to_conn
    presence,  \* presence_cache: the connection that wrote the entry of a uid
    repeat,    \* repeat_cache
    chan,      \* the messages a task has still to take from the channel
    lagged,    \* history: tasks that have lost messages
    view,      \* what each client shows: the uids it takes to be present
    points,    \* and the points as others sent them, None for an unknown one
    drew,      \* history: the points a client has sent itself
    events     \* events sent so far

netVars == <<peer, ident>>
taskVars == <<task, pc, ev, replayed>>
mapVars == <<connUid, uidConn>>
chanVars == <<chan, lagged>>
viewVars == <<view, points>>
histVars == <<drew, events>>
vars == <<netVars, taskVars, mapVars, presence, repeat, chanVars, viewVars,
          histVars>>

\* Presence (a-f-G-*), other events with a contact, disconnections (t-x-d-d),
\* pings and pongs (t-x-c-t*), points, and all others, such as chats.
EventType == [kind : {"presence", "contact", "bye", "ping", "other"}]
                \cup [kind : {"point"}, pt : Point, v : Version]

MsgType == [kind : {"presence", "contact", "bye", "other"}, uid : Uid]
              \cup [kind : {"point"}, pt : Point, v : Version]

(* The type of every variable.                                             *)
TypeOK ==
    /\ peer \in [Conn -> {"unused", "up", "closed", "lost"}]
    /\ ident \in [Conn -> Uid \cup {None}]
    /\ task \in [Conn -> {"none", "up", "ended", "failed"}]
    /\ pc \in [Conn -> {"idle", "presences", "repeats", "handle", "map", "cache", "send",
                        "forget", "bye"}]
    /\ ev \in [Conn -> EventType \cup {None}]
    /\ replayed \in [Conn -> BOOLEAN]
    /\ connUid \in [Conn -> Uid \cup {None}]
    /\ uidConn \in [Uid -> Conn \cup {None}]
    /\ presence \in [Uid -> Conn \cup {None}]
    /\ repeat \in [Point -> Version \cup {None}]
    /\ chan \in [Conn -> Seq(MsgType)]
    /\ \A c \in Conn : Len(chan[c]) <= Cap
    /\ lagged \in SUBSET Conn
    /\ view \in [Conn -> SUBSET Uid]
    /\ points \in [Conn -> [Point -> Version \cup {None}]]
    /\ drew \in [Conn -> SUBSET Point]
    /\ events \in 0 .. MaxEvents

Init ==
    /\ peer = [c \in Conn |-> "unused"]
    /\ ident = [c \in Conn |-> None]
    /\ task = [c \in Conn |-> "none"]
    /\ pc = [c \in Conn |-> "idle"]
    /\ ev = [c \in Conn |-> None]
    /\ replayed = [c \in Conn |-> FALSE]
    /\ connUid = [c \in Conn |-> None]
    /\ uidConn = [u \in Uid |-> None]
    /\ presence = [u \in Uid |-> None]
    /\ repeat = [p \in Point |-> None]
    /\ chan = [c \in Conn |-> <<>>]
    /\ lagged = {}
    /\ view = [c \in Conn |-> {}]
    /\ points = [c \in Conn |-> [p \in Point |-> None]]
    /\ drew = [c \in Conn |-> {}]
    /\ events = 0

-----------------------------------------------------------------------------
(* The broadcast channel: tx.send(m).                                      *)

\* A task gets its own messages too and drops them by BroadcastMsg.from: cs are
\* the tasks that make use of m.  What a receiver gets after it has lost
\* messages, or after its client has gone, is not followed.
Broadcast(cs, m) ==
    /\ lagged' = lagged \cup {c \in cs : Len(chan[c]) = Cap}
    /\ chan' = [c \in Conn |->
                   IF c \in lagged' THEN <<>>
                   ELSE IF c \in cs THEN Append(chan[c], m) ELSE chan[c]]

Receivers == {c \in Conn : peer[c] = "up"}

-----------------------------------------------------------------------------
(* Clients.                                                                *)

\* The accept loops subscribe before they spawn the task.
Accept(c, u) ==
    /\ task[c] = "none"
    /\ peer' = [peer EXCEPT ![c] = "up"]
    /\ ident' = [ident EXCEPT ![c] = u]
    /\ task' = [task EXCEPT ![c] = "up"]
    /\ UNCHANGED <<pc, ev, replayed, mapVars, presence, repeat, chanVars, viewVars, histVars>>

\* The client closes its end, or the connection is lost.
Close(c, how) ==
    /\ peer[c] = "up"
    /\ peer' = [peer EXCEPT ![c] = how]
    /\ chan' = [chan EXCEPT ![c] = <<>>]
    /\ view' = [view EXCEPT ![c] = {}]
    /\ points' = [points EXCEPT ![c] = [p \in Point |-> None]]
    /\ UNCHANGED <<ident, taskVars, mapVars, presence, repeat, lagged, histVars>>

-----------------------------------------------------------------------------
(* process_connection.                                                     *)

Goto(c, l) == pc' = [pc EXCEPT ![c] = l] /\ UNCHANGED ev
Done(c) == pc' = [pc EXCEPT ![c] = "idle"] /\ ev' = [ev EXCEPT ![c] = None]

At(c, l) == task[c] = "up" /\ pc[c] = l

\* An event of the client.  The first one triggers the replay.
Read(c, e) ==
    /\ At(c, "idle") /\ peer[c] = "up"
    /\ events < MaxEvents
    /\ events' = events + 1
    /\ ev' = [ev EXCEPT ![c] = e]
    /\ pc' = [pc EXCEPT ![c] = IF replayed[c] \/ ident[c] \in WinTak THEN "handle" ELSE "presences"]
    /\ replayed' = [replayed EXCEPT ![c] = TRUE]
    /\ drew' = IF e.kind = "point" THEN [drew EXCEPT ![c] = @ \cup {e.pt}] ELSE drew
    /\ UNCHANGED <<netVars, task, mapVars, presence, repeat, chanVars, viewVars>>

\* send_cached_events, under the read lock of each cache in turn.
ReplayPresence(c) ==
    /\ At(c, "presences")
    /\ view' = IF peer[c] # "up" THEN view
               ELSE [view EXCEPT ![c] = @ \cup {u \in Uid : presence[u] # None}]
    /\ Goto(c, "repeats")
    /\ UNCHANGED <<netVars, task, replayed, mapVars, presence, repeat, chanVars, points, histVars>>

Shown(old, new) == IF new = None THEN old ELSE new

ReplayRepeats(c) ==
    /\ At(c, "repeats")
    /\ points' = IF peer[c] # "up" THEN points
                 ELSE [points EXCEPT ![c] = [p \in Point |-> Shown(@[p], repeat[p])]]
    /\ Goto(c, "handle")
    /\ UNCHANGED <<netVars, task, replayed, mapVars, presence, repeat, chanVars, view, histVars>>

\* A ping is answered with a pong, a pong is ignored.
Ping(c) ==
    /\ At(c, "handle")
    /\ ev[c].kind = "ping"
    /\ Done(c)
    /\ UNCHANGED <<netVars, task, replayed, mapVars, presence, repeat, chanVars, viewVars, histVars>>

\* Other events are broadcast and not kept.
Other(c) ==
    /\ At(c, "handle")
    /\ ev[c].kind = "other"
    /\ Goto(c, "send")
    /\ UNCHANGED <<netVars, task, replayed, mapVars, presence, repeat, chanVars, viewVars, histVars>>

\* The message an event becomes.
MsgOf(c) ==
    IF ev[c].kind = "point" THEN [kind |-> "point", pt |-> ev[c].pt, v |-> ev[c].v]
    ELSE [kind |-> ev[c].kind, uid |-> ident[c]]

\* Faulty: a point is cached under the uid of the client that sent it.
RepeatByClient(c) ==
    /\ At(c, "handle")
    /\ ev[c].kind = "point"
    /\ repeat' = [k \in Point \cup {ident[c]} |-> IF k = ident[c] THEN ev[c].v ELSE repeat[k]]
    /\ Broadcast(Receivers \ {c}, MsgOf(c))
    /\ Done(c)
    /\ UNCHANGED <<netVars, task, replayed, mapVars, presence, viewVars, histVars>>

\* Faulty: the repeat cache is unlocked before the broadcast.
RepeatUnlocked(c) ==
    /\ At(c, "handle")
    /\ ev[c].kind = "point"
    /\ repeat' = [repeat EXCEPT ![ev[c].pt] = ev[c].v]
    /\ Goto(c, "send")
    /\ UNCHANGED <<netVars, task, replayed, mapVars, presence, chanVars, viewVars, histVars>>

\* should_repeat_type: cached and broadcast under the write lock.
Repeat(c) ==
    /\ At(c, "handle")
    /\ ev[c].kind = "point"
    /\ repeat' = [repeat EXCEPT ![ev[c].pt] = ev[c].v]
    /\ Broadcast(Receivers \ {c}, MsgOf(c))
    /\ Done(c)
    /\ UNCHANGED <<netVars, task, replayed, mapVars, presence, viewVars, histVars>>

\* is_disconnect_type: remove_presence.
RemovePresence(c) ==
    /\ At(c, "handle")
    /\ ev[c].kind = "bye"
    /\ presence' = [presence EXCEPT ![ident[c]] = None]
    /\ Goto(c, "send")
    /\ UNCHANGED <<netVars, task, replayed, mapVars, repeat, chanVars, viewVars, histVars>>

\* update_connection_state: first conn_state ...
UpdateConnState(c) ==
    /\ At(c, "handle")
    /\ ev[c].kind \in {"presence", "contact"}
    /\ connUid' = [connUid EXCEPT ![c] = ident[c]]
    /\ Goto(c, "map")
    /\ UNCHANGED <<netVars, task, replayed, uidConn, presence, repeat, chanVars, viewVars, histVars>>

\* ... then uid_to_conn.
UpdateUidMap(c) ==
    /\ At(c, "map")
    /\ uidConn' = [uidConn EXCEPT ![ident[c]] = c]
    /\ Goto(c, IF ev[c].kind = "presence" THEN "cache" ELSE "send")
    /\ UNCHANGED <<netVars, task, replayed, connUid, presence, repeat, chanVars, viewVars, histVars>>

CachePresence(c) ==
    /\ At(c, "cache")
    /\ presence' = [presence EXCEPT ![ident[c]] = c]
    /\ Goto(c, "send")
    /\ UNCHANGED <<netVars, task, replayed, mapVars, repeat, chanVars, viewVars, histVars>>

\* The event is broadcast to the other tasks.
Send(c) ==
    /\ At(c, "send")
    /\ Broadcast(Receivers \ {c}, MsgOf(c))
    /\ Done(c)
    /\ UNCHANGED <<netVars, task, replayed, mapVars, presence, repeat, viewVars, histVars>>

\* What a client makes of a message of others.
ShowUid(c, m) ==
    CASE m.kind = "presence" -> view[c] \cup {m.uid}
      [] m.kind = "bye" -> view[c] \ {m.uid}
      [] OTHER -> view[c]

\* The rx branch.
Receive(c) ==
    /\ At(c, "idle")
    /\ chan[c] # <<>>
    /\ chan' = [chan EXCEPT ![c] = Tail(@)]
    /\ LET m == Head(chan[c]) IN
       /\ view' = [view EXCEPT ![c] = ShowUid(c, m)]
       /\ points' = IF m.kind = "point" THEN [points EXCEPT ![c][m.pt] = m.v] ELSE points
    /\ UNCHANGED <<netVars, taskVars, mapVars, presence, repeat, lagged, histVars>>

\* A read error, or a write error in a replay, a pong or the rx branch: the
\* task returns the error and leaves the maps and the cache as they are.
Fail(c) ==
    /\ peer[c] = "lost"
    /\ task[c] = "up"
    /\ pc[c] \in {"idle", "presences", "repeats"} \/ (pc[c] = "handle" /\ ev[c].kind = "ping")
    /\ task' = [task EXCEPT ![c] = "failed"]
    /\ UNCHANGED <<netVars, pc, ev, replayed, mapVars, presence, repeat, chanVars, viewVars, histVars>>

\* End of the stream: cleanup_connection takes the entry of conn_state.
Cleanup(c) ==
    /\ peer[c] = "closed"
    /\ At(c, "idle")
    /\ connUid' = [connUid EXCEPT ![c] = None]
    /\ IF connUid[c] = None
       THEN task' = [task EXCEPT ![c] = "ended"] /\ UNCHANGED <<pc, ev>>
       ELSE Goto(c, "forget") /\ UNCHANGED task
    /\ UNCHANGED <<netVars, replayed, uidConn, presence, repeat, chanVars, viewVars, histVars>>

\* Then uid_to_conn and the presence cache, whoever wrote their entries; the
\* lock of the first is held over the second.
Forget(c) ==
    /\ At(c, "forget")
    /\ uidConn' = [uidConn EXCEPT ![ident[c]] = None]
    /\ presence' = [presence EXCEPT ![ident[c]] = None]
    /\ Goto(c, "bye")
    /\ UNCHANGED <<netVars, task, replayed, connUid, repeat, chanVars, viewVars, histVars>>

\* Faulty: the task ends without the disconnection event.
LeaveQuietly(c) ==
    /\ At(c, "bye")
    /\ task' = [task EXCEPT ![c] = "ended"]
    /\ UNCHANGED <<netVars, pc, ev, replayed, mapVars, presence, repeat, chanVars, viewVars, histVars>>

\* The disconnection event to the others, and the task is over.
SendDisconnect(c) ==
    /\ At(c, "bye")
    /\ Broadcast(Receivers, [kind |-> "bye", uid |-> ident[c]])
    /\ task' = [task EXCEPT ![c] = "ended"]
    /\ UNCHANGED <<netVars, pc, ev, replayed, mapVars, presence, repeat, viewVars, histVars>>

-----------------------------------------------------------------------------
(* The ticker, one cache entry at a time.                                  *)

\* Faulty: the ticker sends the points only.
TickNothing(u) == FALSE /\ presence[u] # None /\ UNCHANGED vars

TickPresence(u) ==
    /\ presence[u] # None
    /\ Broadcast(Receivers, [kind |-> "presence", uid |-> u])
    /\ UNCHANGED <<netVars, taskVars, mapVars, presence, repeat, viewVars, histVars>>

TickPoint(p) ==
    /\ repeat[p] # None
    /\ Broadcast(Receivers, [kind |-> "point", pt |-> p, v |-> repeat[p]])
    /\ UNCHANGED <<netVars, taskVars, mapVars, presence, repeat, viewVars, histVars>>

-----------------------------------------------------------------------------
Environment ==
    \/ \E c \in Conn, u \in Uid : Accept(c, u)
    \/ \E c \in Conn, how \in {"closed", "lost"} : Close(c, how)
    \/ \E c \in Conn, e \in EventType : Read(c, e)

Work(c) ==
    \/ ReplayPresence(c)
    \/ ReplayRepeats(c)
    \/ Ping(c)
    \/ Other(c)
    \/ Repeat(c)
    \/ RemovePresence(c)
    \/ UpdateConnState(c)
    \/ UpdateUidMap(c)
    \/ CachePresence(c)
    \/ Send(c)
    \/ Receive(c)
    \/ Fail(c)
    \/ Cleanup(c)
    \/ Forget(c)
    \/ SendDisconnect(c)

Ticker ==
    \/ \E u \in Uid : TickPresence(u)
    \/ \E p \in Point : TickPoint(p)

Next == Environment \/ (\E c \in Conn : Work(c)) \/ Ticker

Spec == Init /\ [][Next]_vars

\* tokio polls every task that is ready, and the ticker sends every cached
\* entry again every 15 seconds.
Fairness ==
    /\ \A c \in Conn : WF_vars(Work(c))
    /\ \A u \in Uid : WF_vars(TickPresence(u))

FairSpec == Spec /\ Fairness

-----------------------------------------------------------------------------
\* Where a queue has messages about a point, and whether the last one has v.
About(q, p) == {i \in DOMAIN q : q[i].kind = "point" /\ q[i].pt = p}

Ends(q, p, v) == \A i \in About(q, p) : (\A j \in About(q, p) : j <= i) => q[i].v = v

\* The clients that follow a point: they have had their replay, keep up with
\* the channel and have not drawn the point themselves.
Follows(c, p) ==
    /\ peer[c] = "up" /\ c \notin lagged
    /\ replayed[c] /\ ident[c] \notin WinTak /\ pc[c] \notin {"presences", "repeats"}
    /\ p \notin drew[c]

(* A client that follows a point ends up with what the repeat cache holds: *)
(* the last message about the point still to come, or else what the client *)
(* shows, is the cached version, whoever wrote it while the replay went on.*)
PointsConverge ==
    \A c \in Conn, p \in Point :
        Follows(c, p) =>
            /\ About(chan[c], p) = {} => points[c][p] = repeat[p]
            /\ Ends(chan[c], p, repeat[p])

(* Whoever stays in the presence cache is shown again and again by every   *)
(* client that keeps up, also by one that had no replay and by one that    *)
(* was told of a disconnection after the cache had been written anew.      *)
CachedIsShown ==
    \A u \in Uid, c \in Conn :
        <>[](presence[u] # None /\ peer[c] = "up" /\ c \notin lagged)
            => []<>(u \in view[c])

Over(u) == \A d \in Conn : ident[d] = u => task[d] \in {"none", "ended"}

(* When all connections of a client have been closed in order, every       *)
(* client that keeps up stops showing it.                                  *)
ClosedIsForgotten ==
    \A u \in Uid, c \in Conn :
        <>[](Over(u) /\ peer[c] = "up" /\ c \notin lagged)
            => <>[](u \notin view[c])

-----------------------------------------------------------------------------
(* What the project's notes say and the code does not do.                  *)

(* epoch.md: "disconnect cleanup removes presence from cache".  No entry   *)
(* of the presence cache is left of a connection that is over.             *)
NoGhosts == \A u \in Uid : presence[u] # None => task[presence[u]] = "up"
=============================================================================
