----------------------------- MODULE Federation -----------------------------
(***************************************************************************)
(* A federation process (core/services/federation) of either kind: the     *)
(* server, which accepts the connections of other TAK servers, or the      *)
(* client, which opens them on commands of the REST API.  Both run two     *)
(* threads over one table of federates and one selector, without a lock:   *)
(*                                                                         *)
(*   "in"   inbound_data_handler: takes commands of the core, opens and    *)
(*          closes connections, sends CoT to every federate;               *)
(*   "out"  outbound_data_handler: selects, accepts, reads what federates  *)
(*          sent, forwards it to the core, removes a federate that is gone.*)
(*                                                                         *)
(* The messages of the core are numbered.  A thread is a record of its     *)
(* program counter and its local variables; an action is a statement after *)
(* which the other thread may run.                                         *)
(***************************************************************************)
EXTENDS Naturals, Sequences, FiniteSets, SequencesExt

CONSTANTS Roles,       \* the kinds of process in this instance
          Feds,        \* ids of outgoing federations
          Conns,       \* sockets; an accepted one gets its own uuid, which is
                       \* modelled by the socket itself
          Users,       \* clients of other servers
          None,
          MaxOf,       \* bounds on REST requests, messages of the core, events of federates
          MaxInputs    \* bound on the three together

\* Where inputs come from; those of one source are numbered.
Sources == {"rest", "core", "peer"}

ASSUME FederationAssumption ==
  /\ Roles \subseteq {"client", "server"}
  /\ Feds \cap Conns = {} /\ None \notin Feds \cup Conns
  /\ MaxOf \in [Sources -> Nat] /\ MaxInputs \in Nat

VARIABLES role,
          federates,   \* self.federates, in the order of insertion: pairs (id, socket)
          sel,         \* what the selector watches: pairs (socket, id in key.data)
          sock,        \* socket -> "new", "dialing", "up", "gone" (its peer left), "closed"
          inbuf,       \* socket -> events the peer has sent and nobody has read
          active,      \* ids in the ActiveFederations table
          status,      \* id -> its status in the Federations table, None before it has a row
                       \* and "Removed" after (ids are uuids and are not used again)
          dbOk,        \* the database session of the process can be used
          cmds,        \* queue of commands from the core
          userDict,    \* self.user_dict: the known clients of other servers
          got,         \* socket -> numbers of the messages its peer was sent
          toCore,      \* events forwarded to the core
          th,          \* thread -> [pc, id, conn, msg, pos, size]
          todo,        \* events of the current select: sockets, None for the listener
          data,        \* dataarray of the current round
          rest,        \* the REST request in progress
          inputs       \* source -> number of its inputs so far

vars == <<role, federates, sel, sock, inbuf, active, status, dbOk, cmds, userDict,
          got, toCore, th, todo, data, rest, inputs>>

table == <<federates, sel, active, dbOk>>
peers == <<sock, inbuf, got>>
core  == <<cmds, status, rest, inputs>>
round == <<todo, data, userDict, toCore>>

Ids == Feds \cup Conns
Event == [from : Conns, n : 1..MaxInputs, kind : {"cot", "join", "leave"}, user : Users \cup {None}]
Command == [op : {"CREATE", "DELETE"}, id : Feds]
             \cup [op : {"data"}, n : 1..MaxInputs, dest : Users \cup {None}]

Held == {federates[i][2] : i \in DOMAIN federates}
HeldIds == {federates[i][1] : i \in DOMAIN federates}
IndexOf(id) == CHOOSE i \in DOMAIN federates : federates[i][1] = id
ConnOf(id) == federates[IndexOf(id)][2]
Watched == {w[1] : w \in sel}

HasRow(id) == status[id] \in {"Enabled", "Disabled"}

\* Where a thread is; disconnect_client and the end of a connection's set-up are shared.
Shared == {"idle", "find", "close", "unregister", "delete", "inactive", "register", "hold", "activate"}
Places == [in |-> Shared \cup {"send", "dial", "clear", "unlist", "disable"},
           out |-> Shared \cup {"events", "body", "dead"}]
Thread == {"in", "out"}
Local == [pc : Places["in"] \cup Places["out"], id : Ids \cup {None}, conn : Conns \cup {None},
          msg : 0..MaxInputs, pos : Nat, size : Nat]

Idle == [pc |-> "idle", id |-> None, conn |-> None, msg |-> 0, pos |-> 0, size |-> 0]

TypeOK ==
  /\ role \in Roles
  /\ federates \in Seq(Ids \X Conns)
  /\ \A i, j \in DOMAIN federates : federates[i][1] = federates[j][1] => i = j
  /\ sel \subseteq Conns \X Ids
  /\ sock \in [Conns -> {"new", "dialing", "up", "gone", "closed"}]
  /\ inbuf \in [Conns -> Seq(Event)]
  /\ active \subseteq Ids /\ dbOk \in BOOLEAN
  /\ status \in [Feds -> {None, "Enabled", "Disabled", "Removed"}]
  /\ cmds \in Seq(Command)
  /\ userDict \subseteq Users
  /\ got \in [Conns -> Seq(1..MaxInputs)] /\ toCore \in Seq(Event) /\ data \in Seq(Event)
  /\ todo \subseteq Conns \cup {None}
  /\ th \in [Thread -> Local] /\ \A t \in Thread : th[t].pc \in Places[t]
  /\ rest # <<>> => rest \in Feds \X {"Enabled", "Disabled"} \X {"Enabled", "Disabled", "Removed"}
  /\ inputs \in [Sources -> 0..MaxInputs]

Init ==
  /\ role \in Roles
  /\ federates = <<>> /\ sel = {} /\ active = {} /\ dbOk = TRUE
  /\ sock = [c \in Conns |-> "new"] /\ inbuf = [c \in Conns |-> <<>>]
  /\ got = [c \in Conns |-> <<>>]
  /\ status = [f \in Feds |-> None] /\ cmds = <<>> /\ rest = <<>> /\ inputs = [s \in Sources |-> 0]
  /\ userDict = {} /\ toCore = <<>> /\ todo = {} /\ data = <<>>
  /\ th = [t \in Thread |-> Idle]

Input(s) ==
  /\ inputs[s] < MaxOf[s] /\ inputs["rest"] + inputs["core"] + inputs["peer"] < MaxInputs
  /\ inputs' = [inputs EXCEPT ![s] = @ + 1]

-----------------------------------------------------------------------------
(* Other servers. *)

Dial(c) ==
  /\ role = "server" /\ sock[c] = "new"
  /\ sock' = [sock EXCEPT ![c] = "dialing"]
  /\ UNCHANGED <<role, table, inbuf, got, core, round, th>>

PeerSends(c) ==
  /\ sock[c] = "up" /\ Input("peer")
  /\ \E k \in {"join", "leave"}, u \in Users \cup {None} :
       inbuf' = [inbuf EXCEPT ![c] =
                   Append(@, [from |-> c, n |-> inputs'["peer"], user |-> u, kind |-> IF u = None THEN "cot" ELSE k])]
  /\ UNCHANGED <<role, table, sock, got, cmds, status, rest, round, th>>

PeerLeaves(c) ==
  /\ sock[c] = "up"
  /\ sock' = [sock EXCEPT ![c] = "gone"]
  /\ UNCHANGED <<role, table, inbuf, got, core, round, th>>

-----------------------------------------------------------------------------
(* The core: CoT for the federates, and FederationTable of the REST API, whose *)
(* commands receive_Rest_commands hands to the client process.                 *)

CoreSends ==
  /\ Input("core")
  /\ \E d \in Users \cup {None} : cmds' = Append(cmds, [op |-> "data", n |-> inputs'["core"], dest |-> d])
  /\ UNCHANGED <<role, table, peers, status, rest, round, th>>

CanAsk == role = "client" /\ rest = <<>> /\ Input("rest")

RestPost(f, s) ==
  /\ CanAsk /\ status[f] = None
  /\ status' = [status EXCEPT ![f] = s]
  /\ cmds' = IF s = "Enabled" THEN Append(cmds, [op |-> "CREATE", id |-> f]) ELSE cmds
  /\ UNCHANGED <<role, table, peers, rest, round, th>>

\* PUT and DELETE read the row, ...
RestRead(f, s) ==
  /\ CanAsk /\ HasRow(f)
  /\ rest' = <<f, status[f], s>>
  /\ UNCHANGED <<role, table, peers, cmds, status, round, th>>

\* ... and act on what they have read.
RestAct ==
  /\ rest # <<>>
  /\ LET f == rest[1]  old == rest[2]  new == rest[3]
     IN /\ status' = [status EXCEPT ![f] = new]
        /\ cmds' = CASE new = "Enabled" /\ old # "Enabled" -> Append(cmds, [op |-> "CREATE", id |-> f])
                     [] new # "Enabled" /\ old = "Enabled" -> Append(cmds, [op |-> "DELETE", id |-> f])
                     [] OTHER -> cmds
  /\ rest' = <<>>
  /\ UNCHANGED <<role, table, peers, inputs, round, th>>

-----------------------------------------------------------------------------
(* Steps of a thread. *)

At(t, pc) == th[t].pc = pc
Goto(t, pc) == th' = [th EXCEPT ![t].pc = pc]
\* Where disconnect_client and accept return to.
Back(t) == th' = [th EXCEPT ![t] = IF t = "in" THEN Idle ELSE [Idle EXCEPT !.pc = "events"]]

\* Faulty: the federates are a list.
PutAppends(id, c) == federates' = Append(federates, <<id, c>>)

\* self.federates[id] = federate: a new id goes to the end of the dictionary.
Put(id, c) ==
  federates' = IF id \in HeldIds
               THEN [i \in DOMAIN federates |-> IF federates[i][1] = id THEN <<id, c>> ELSE federates[i]]
               ELSE Append(federates, <<id, c>>)

\* disconnect_client, called by "in" for a DELETE and by "out" for a peer that left.
FindFederate(t) ==
  /\ At(t, "find")
  /\ IF th[t].id \in HeldIds
     THEN th' = [th EXCEPT ![t].pc = "close", ![t].conn = ConnOf(th[t].id)]
     ELSE Back(t)
  /\ UNCHANGED <<role, table, peers, core, round>>

CloseConn(t) ==
  /\ At(t, "close")
  /\ sock' = [sock EXCEPT ![th[t].conn] = "closed"]
  /\ Goto(t, "unregister")
  /\ UNCHANGED <<role, table, inbuf, got, core, round>>

\* Faulty: the entry is deleted only when unregister raises.
UnregisterKeepsEntry(t) ==
  /\ At(t, "unregister")
  /\ sel' = {w \in sel : w[1] # th[t].conn}
  /\ Goto(t, IF th[t].conn \in Watched THEN "inactive" ELSE "delete")
  /\ UNCHANGED <<role, federates, active, dbOk, peers, core, round>>

\* unregister raises when the other thread was faster, and the entry stays.
Unregister(t) ==
  /\ At(t, "unregister")
  /\ sel' = {w \in sel : w[1] # th[t].conn}
  /\ Goto(t, IF th[t].conn \in Watched THEN "delete" ELSE "inactive")
  /\ UNCHANGED <<role, federates, active, dbOk, peers, core, round>>

\* The other thread may have deleted the entry already: the KeyError is caught.
DeleteEntry(t) ==
  /\ At(t, "delete")
  /\ federates' = IF th[t].id \in HeldIds THEN RemoveAt(federates, IndexOf(th[t].id)) ELSE federates
  /\ Goto(t, "inactive")
  /\ UNCHANGED <<role, sel, active, dbOk, peers, core, round>>

\* Faulty: only the federation of a REST request loses its row.
RemoveActiveOfRest(t) ==
  /\ At(t, "inactive")
  /\ active' = IF dbOk /\ t = "in" THEN active \ {th[t].id} ELSE active
  /\ Back(t)
  /\ UNCHANGED <<role, federates, sel, dbOk, peers, core, round>>

RemoveActive(t) ==
  /\ At(t, "inactive")
  /\ active' = IF dbOk THEN active \ {th[t].id} ELSE active
  /\ Back(t)
  /\ UNCHANGED <<role, federates, sel, dbOk, peers, core, round>>

\* The statements that connect_to_server ("in") and _accept_connection ("out") share.
Register(t) ==
  /\ At(t, "register")
  /\ sel' = sel \cup {<<th[t].conn, th[t].id>>}
  /\ Goto(t, "hold")
  /\ UNCHANGED <<role, federates, active, dbOk, peers, core, round>>

Hold(t) ==
  /\ At(t, "hold")
  /\ Put(th[t].id, th[t].conn)
  /\ Goto(t, "activate")
  /\ UNCHANGED <<role, sel, active, dbOk, peers, core, round>>

\* create_ActiveFederation: a row of this id makes the commit fail, and as nobody
\* rolls back, the session of the process refuses everything from then on.
Activate(t) ==
  /\ At(t, "activate")
  /\ IF dbOk /\ th[t].id \notin active
     THEN /\ active' = active \cup {th[t].id} /\ UNCHANGED dbOk
          /\ IF t = "in" THEN Goto(t, "clear") ELSE Back(t)
     ELSE /\ dbOk' = FALSE /\ UNCHANGED active
          /\ IF t = "in" THEN Goto(t, "unlist") ELSE Back(t)
  /\ UNCHANGED <<role, federates, sel, peers, core, round>>

-----------------------------------------------------------------------------
(* The thread "in". *)

TakeCommand ==
  /\ At("in", "idle") /\ cmds # <<>>
  /\ cmds' = Tail(cmds)
  /\ LET c == Head(cmds)
     IN \/ /\ c.op = "CREATE" /\ th' = [th EXCEPT !["in"].pc = "dial", !["in"].id = c.id]
        \/ /\ c.op = "DELETE" /\ th' = [th EXCEPT !["in"].pc = "find", !["in"].id = c.id]
        \/ /\ c.op = "data"
           /\ th' = IF federates # <<>> /\ (c.dest = None \/ c.dest \in userDict)
                    THEN [th EXCEPT !["in"] = [@ EXCEPT !.pc = "send", !.msg = c.n, !.pos = 1,
                                                        !.size = Len(federates)]]
                    ELSE th
  /\ UNCHANGED <<role, table, peers, status, rest, inputs, round>>

\* Faulty: a loop that fails is started again.
SendNextAgain ==
  /\ At("in", "send")
  /\ LET i == th["in"].pos
         c == federates[i][2]
     IN IF i > th["in"].size \/ Len(federates) # th["in"].size
        THEN Back("in") /\ UNCHANGED got
        ELSE \/ /\ sock[c] # "closed"
                /\ got' = IF sock[c] = "up" THEN [got EXCEPT ![c] = Append(@, th["in"].msg)] ELSE got
                /\ th' = [th EXCEPT !["in"].pos = i + 1]
             \/ th' = [th EXCEPT !["in"].pos = 1] /\ UNCHANGED got
  /\ UNCHANGED <<role, table, sock, inbuf, core, round>>

\* The loop over federates.values() of the three send functions: a change of the
\* size of the dictionary, or a send that raises, ends it.
SendNext ==
  /\ At("in", "send")
  /\ LET i == th["in"].pos
         c == federates[i][2]
     IN IF i > th["in"].size \/ Len(federates) # th["in"].size
        THEN Back("in") /\ UNCHANGED got
        ELSE \/ /\ sock[c] # "closed"
                /\ got' = IF sock[c] = "up" THEN [got EXCEPT ![c] = Append(@, th["in"].msg)] ELSE got
                /\ th' = [th EXCEPT !["in"].pos = i + 1]
             \/ Back("in") /\ UNCHANGED got
  /\ UNCHANGED <<role, table, sock, inbuf, core, round>>

\* connect_to_server, up to the socket.
Connect ==
  /\ At("in", "dial")
  /\ \/ /\ dbOk /\ HasRow(th["in"].id)
        /\ \E c \in Conns :
             /\ sock[c] = "new"
             /\ sock' = [sock EXCEPT ![c] = "up"]
             /\ th' = [th EXCEPT !["in"].pc = "register", !["in"].conn = c]
     \/ Goto("in", "unlist") /\ UNCHANGED sock
  /\ UNCHANGED <<role, table, inbuf, got, core, round>>

\* update_Federation raises when the row was deleted meanwhile.
ClearError ==
  /\ At("in", "clear")
  /\ IF dbOk /\ HasRow(th["in"].id) THEN Back("in") ELSE Goto("in", "unlist")
  /\ UNCHANGED <<role, table, peers, core, round>>

\* The exception handler of connect_to_server: two updates, each of which may fail.
Unlist ==
  /\ At("in", "unlist")
  /\ active' = IF dbOk THEN active \ {th["in"].id} ELSE active
  /\ Goto("in", "disable")
  /\ UNCHANGED <<role, federates, sel, dbOk, peers, core, round>>

Disable ==
  /\ At("in", "disable")
  /\ status' = IF dbOk /\ HasRow(th["in"].id)
               THEN [status EXCEPT ![th["in"].id] = "Disabled"] ELSE status
  /\ Back("in")
  /\ UNCHANGED <<role, table, peers, cmds, rest, inputs, round>>

-----------------------------------------------------------------------------
(* The thread "out". *)

Ready == {c \in Watched : sock[c] \in {"up", "gone"} /\ (inbuf[c] # <<>> \/ sock[c] = "gone")}
           \cup {l \in {None} : \E c \in Conns : sock[c] = "dialing"}

Select ==
  /\ At("out", "idle") /\ Ready # {}
  /\ role = "client" => federates # <<>>
  /\ todo' = Ready /\ data' = <<>>
  /\ Goto("out", "events")
  /\ UNCHANGED <<role, table, peers, core, userDict, toCore>>

\* accept includes the handshake, which may fail; the greeting with the connected
\* users comes before the socket is registered.
Accept ==
  /\ At("out", "events") /\ None \in todo
  /\ todo' = todo \ {None}
  /\ \E c \in Conns :
       /\ sock[c] = "dialing"
       /\ \/ /\ sock' = [sock EXCEPT ![c] = "up"]
             /\ th' = [th EXCEPT !["out"].pc = "register", !["out"].conn = c, !["out"].id = c]
          \/ /\ sock' = [sock EXCEPT ![c] = "closed"]
             /\ UNCHANGED th
  /\ UNCHANGED <<role, table, inbuf, got, core, data, userDict, toCore>>

\* Faulty: an empty header is skipped.
ReadHeaderNoEof(c) ==
  /\ At("out", "events") /\ c \in todo
  /\ todo' = todo \ {c}
  /\ \/ /\ sock[c] # "closed" /\ inbuf[c] # <<>>
        /\ th' = [th EXCEPT !["out"].pc = "body", !["out"].conn = c]
     \/ inbuf[c] = <<>> /\ UNCHANGED th
  /\ UNCHANGED <<role, table, peers, core, data, userDict, toCore>>

\* recv(4): an event, the end of the stream, or an exception, which is skipped.
ReadHeader(c) ==
  /\ At("out", "events") /\ c \in todo
  /\ todo' = todo \ {c}
  /\ \/ /\ sock[c] # "closed" /\ inbuf[c] # <<>>
        /\ th' = [th EXCEPT !["out"].pc = "body", !["out"].conn = c]
     \/ /\ sock[c] = "gone" /\ inbuf[c] = <<>>
        /\ \E id \in Ids : /\ <<c, id>> \in sel
                           /\ th' = [th EXCEPT !["out"].pc = "find", !["out"].id = id]
     \/ sock[c] = "closed" /\ UNCHANGED th
  /\ UNCHANGED <<role, table, peers, core, data, userDict, toCore>>

\* external_data_chain: a client of the other server comes or goes.
Handled(e) == e.kind = "leave" => e.user \in userDict

UsersAfter(e) == CASE e.kind = "join"  -> userDict \cup {e.user}
                   [] e.kind = "leave" -> userDict \ {e.user}
                   [] OTHER            -> userDict

\* recv(length): the whole event arrived and the chain accepts it.
ReadBody ==
  /\ At("out", "body")
  /\ LET c == th["out"].conn
         e == Head(inbuf[c])
     IN /\ sock[c] # "closed" /\ Handled(e)
        /\ inbuf' = [inbuf EXCEPT ![c] = Tail(@)]
        /\ userDict' = UsersAfter(e)
        /\ data' = Append(data, e)
  /\ Back("out")
  /\ UNCHANGED <<role, table, sock, got, core, todo, toCore>>

\* A part of it arrived, or the chain raised: recv(10000) throws away the rest, or the
\* event after it.  When nothing is there the client leaves the whole round and loses
\* the events it has read in it.
Resync ==
  /\ At("out", "body")
  /\ LET c == th["out"].conn
     IN /\ sock[c] # "closed"
        /\ \E k \in 1..2 :
             /\ k <= Len(inbuf[c])
             /\ inbuf' = [inbuf EXCEPT ![c] = SubSeq(@, k + 1, Len(@))]
             /\ \/ Back("out") /\ UNCHANGED <<todo, data>>
                \/ /\ role = "client" /\ sock[c] = "up" /\ k = 1
                   /\ th' = [th EXCEPT !["out"] = Idle] /\ todo' = {} /\ data' = <<>>
  /\ UNCHANGED <<role, table, sock, got, core, userDict, toCore>>

\* The other thread has closed the socket: both calls of recv raise.  The server
\* catches the second exception, the client does not and its thread ends.
ReadClosed ==
  /\ At("out", "body") /\ sock[th["out"].conn] = "closed"
  /\ IF role = "server" THEN Back("out") ELSE Goto("out", "dead")
  /\ UNCHANGED <<role, table, peers, core, round>>

\* Only CoT can be converted; the exception of everything else is logged.
Forward ==
  /\ At("out", "events") /\ todo = {}
  /\ IF data = <<>> THEN th' = [th EXCEPT !["out"] = Idle] /\ UNCHANGED <<data, toCore>>
     ELSE /\ toCore' = IF Head(data).kind = "cot" THEN Append(toCore, Head(data)) ELSE toCore
          /\ data' = Tail(data) /\ UNCHANGED th
  /\ UNCHANGED <<role, table, peers, core, todo, userDict>>

-----------------------------------------------------------------------------
Disconnect(t) ==
  FindFederate(t) \/ CloseConn(t) \/ Unregister(t) \/ DeleteEntry(t) \/ RemoveActive(t)

Inbound ==
  \/ TakeCommand \/ SendNext \/ Connect \/ ClearError \/ Unlist \/ Disable
  \/ Register("in") \/ Hold("in") \/ Activate("in") \/ Disconnect("in")

Outbound ==
  \/ Select \/ Accept \/ ReadBody \/ Resync \/ ReadClosed \/ Forward
  \/ \E c \in Conns : ReadHeader(c)
  \/ Register("out") \/ Hold("out") \/ Activate("out") \/ Disconnect("out")

Environment ==
  \/ \E c \in Conns : Dial(c) \/ PeerSends(c) \/ PeerLeaves(c)
  \/ CoreSends \/ RestAct
  \/ \E f \in Feds : \/ \E s \in {"Enabled", "Disabled"} : RestPost(f, s)
                     \/ \E s \in {"Enabled", "Disabled", "Removed"} : RestRead(f, s)

Next == Environment \/ Inbound \/ Outbound

\* Both threads are endless loops that the interpreter schedules in turn.
Fairness == WF_vars(Inbound) /\ WF_vars(Outbound)

Spec == Init /\ [][Next]_vars /\ Fairness

-----------------------------------------------------------------------------
(* Properties. *)

AtRest(t) == th[t].pc \in {"idle", "dead"}

\* Whenever both threads are between two pieces of work, every federate of the table is
\* watched by the selector through an open socket, however a DELETE and the end of a
\* connection raced in disconnect_client (federation_service_base.py).
FederatesAreWatched ==
  (\A t \in Thread : AtRest(t)) =>
    \A c \in Held : c \in Watched /\ sock[c] # "closed"

\* On the server the table of federates, the selector and the ActiveFederations table name
\* the same connections whenever the outbound thread is at rest: _accept_connection and
\* disconnect_client change the three together.
ServerTablesAgree ==
  role = "server" /\ AtRest("out") => Held = Watched /\ HeldIds = active

\* A federate is sent the messages of the core in their order and none twice, although the
\* loop over the federates may be left at any of them; and the events of one federate
\* reach the core in the order it sent them, none twice.
DeliveredInOrder ==
  /\ \A c \in Conns : \A i, j \in DOMAIN got[c] : i < j => got[c][i] < got[c][j]
  /\ \A i, j \in DOMAIN toCore :
       i < j /\ toCore[i].from = toCore[j].from => toCore[i].n < toCore[j].n

\* The server removes a federate whose connection has ended, after it has read what that
\* federate had sent (_receive_new_data).
GoneIsForgotten ==
  \A c \in Conns :
    (role = "server" /\ c \in Held /\ sock[c] = "gone") ~> (c \notin Held /\ inbuf[c] = <<>>)

\* receive_data_from_federate is called whenever data of a federate is available: what a
\* federate of the table has sent is read, unless the federate is removed from it.
DataIsReceived ==
  \A c \in Conns : (c \in Held /\ inbuf[c] # <<>>) ~> (inbuf[c] = <<>> \/ c \notin Held)
=============================================================================
