----------------------------- MODULE CotService -----------------------------
(***************************************************************************)
(* The CoT service process (services/tcp_cot_service, and its SSL twin in  *)
(* services/ssl_cot_service): a main loop and a thread pool of two workers.*)
(* One pooled job accepts a client and reads its connection event          *)
(* (ReceiveConnections.listen); the other makes one pass over the sockets  *)
(* of all registered clients (ClientReceptionHandler.startup).  The main   *)
(* loop polls the two results, resubmits the jobs, registers and removes   *)
(* clients, and asks the FTS core for its user table over a pair of queues.*)
(*                                                                         *)
(* A client's byte stream is a number of half events: the bytes of event i *)
(* are the halves 2i-1 and 2i, so that an odd boundary is a read that ends *)
(* inside an event.  Event 1 of a stream announces the client.             *)
(***************************************************************************)
EXTENDS Integers, Sequences, FiniteSets

CONSTANTS
    Uid,         \* client uids
    Sock,        \* TCP connections; each is used once
    NoUid,       \* "the connection event holds no usable uid"
    NoSock,      \* no socket: a missing key, or the -1 a listen job returns
    Slot,        \* listen jobs that can be outstanding at once
    PoolSize,    \* ThreadPool(processes=2)
    MaxEvents,   \* events one client writes on one connection
    MaxShared,   \* bound on the length of the CoT share pipe
    ShareLimit,  \* shared items handled per turn of the loop (100)
    MaxResets,   \* bound on restart_receive_connection_process calls
    Ssl          \* the SSL twin: accept() times out after SSL_SOCK_TIMEOUT

ASSUME CotAssumption ==
    /\ NoUid \notin Uid
    /\ NoSock \notin Sock
    /\ PoolSize \in Nat \ {0}
    /\ MaxEvents \in Nat \ {0}
    /\ MaxShared \in Nat
    /\ ShareLimit \in Nat \ {0}
    /\ MaxResets \in Nat
    /\ Ssl \in BOOLEAN
    /\ IsFiniteSet(Slot) /\ Cardinality(Slot) > MaxResets

Eof == 0        \* the empty xmlString b'' that stands for a disconnection
Events == 1 .. MaxEvents
Halves == 0 .. 2 * MaxEvents

VARIABLES
    owner,        \* the uid announced on each connection
    peer,         \* the client's end of each connection
    srv,          \* the server's end of each connection
    avail,        \* half events that have reached the server
    pos,          \* half events the server has read
    lst,          \* state of each outstanding listen job
    lsock,        \* the socket a listen job holds or has returned
    cur,          \* the listen job whose result the main loop polls
    killSwitch,   \* ReceiveConnectionKillSwitch
    resets,       \* times it has been set
    rx,           \* state of the reception job
    todo,         \* uids the running pass has still to visit
    batch,        \* dataPipe: what the pass has collected
    queue,        \* client_information_queue: uid -> socket
    connections,  \* connections: oid of the uid -> socket
    lastSock,     \* socket of ClientInformationController.clientInformation
    iam,          \* last request sent to the IAM component for each uid
    start,        \* history: events each listen job took from its socket
    handled,      \* events passed on to the components, per socket
    request,      \* length of clientDataPipe: "get" requests to the core
    reply,        \* length of clientDataRecvPipe: answers of the core
    shared,       \* length of CoTSharePipe
    shareLeft,    \* iterations left of the loop over CoTSharePipe
    pc            \* where the main loop is

netVars == <<owner, peer, avail>>
posVars == <<pos, start>>
lstVars == <<lst, lsock, cur, killSwitch, resets>>
rxVars == <<rx, todo, batch>>
regVars == <<queue, connections, lastSock, iam, handled>>
coreVars == <<request, reply>>
shareVars == <<shared, shareLeft>>
vars == <<netVars, srv, posVars, lstVars, rxVars, regVars, coreVars, shareVars, pc>>

Item == [uid : Uid, sock : Sock, ev : Events \cup {Eof}]

(* The type of every variable.                                             *)
TypeOK ==
    /\ owner \in [Sock -> Uid \cup {NoUid}]
    /\ peer \in [Sock -> {"unused", "up", "gone"}]
    /\ srv \in [Sock -> {"none", "backlog", "open", "closed"}]
    /\ avail \in [Sock -> Halves]
    /\ pos \in [Sock -> Halves]
    /\ start \in [Sock -> 0 .. MaxEvents]
    /\ lst \in [Slot -> {"free", "queued", "accept", "read", "done"}]
    /\ lsock \in [Slot -> Sock \cup {NoSock}]
    /\ cur \in Slot
    /\ killSwitch \in {"set", "clear"}
    /\ resets \in 0 .. MaxResets
    /\ rx \in {"queued", "scan", "done", "failed", "taken"}
    /\ todo \in SUBSET Uid
    /\ batch \in Seq(Item)
    /\ queue \in [Uid -> Sock \cup {NoSock}]
    /\ connections \in [Uid -> Sock \cup {NoSock}]
    /\ lastSock \in Sock \cup {NoSock}
    /\ iam \in [Uid -> {"none", "connection", "disconnection"}]
    /\ handled \in [Sock -> Seq(Events)]
    /\ request \in 0 .. 1
    /\ reply \in 0 .. 1
    /\ shared \in 0 .. MaxShared
    /\ shareLeft \in 0 .. ShareLimit
    /\ pc \in {"conn", "data", "items", "info", "share", "shareInfo", "bcast", "stopped"}

Registered == {u \in Uid : queue[u] # NoSock}
Live == {queue[u] : u \in Registered}

(* start(): the two jobs are submitted and the main loop is entered.       *)
Init ==
    /\ owner = [s \in Sock |-> NoUid]
    /\ peer = [s \in Sock |-> "unused"]
    /\ srv = [s \in Sock |-> "none"]
    /\ avail = [s \in Sock |-> 0]
    /\ pos = [s \in Sock |-> 0]
    /\ start = [s \in Sock |-> 0]
    /\ cur \in Slot
    /\ lst = [i \in Slot |-> IF i = cur THEN "queued" ELSE "free"]
    /\ lsock = [i \in Slot |-> NoSock]
    /\ killSwitch = "clear"
    /\ resets = 0
    /\ rx = "queued"
    /\ todo = {}
    /\ batch = <<>>
    /\ queue = [u \in Uid |-> NoSock]
    /\ connections = [u \in Uid |-> NoSock]
    /\ lastSock = NoSock
    /\ iam = [u \in Uid |-> "none"]
    /\ handled = [s \in Sock |-> <<>>]
    /\ request = 0
    /\ reply = 0
    /\ shared = 0
    /\ shareLeft = 0
    /\ pc = "conn"

-----------------------------------------------------------------------------
(* The environment: clients, the other services and the FTS core.          *)

Connect(s, u) ==
    /\ peer[s] = "unused"
    /\ pc # "stopped"
    /\ owner' = [owner EXCEPT ![s] = u]
    /\ peer' = [peer EXCEPT ![s] = "up"]
    /\ srv' = [srv EXCEPT ![s] = "backlog"]
    /\ UNCHANGED <<avail, posVars, lstVars, rxVars, regVars, coreVars, shareVars, pc>>

\* One more half event reaches the server.
Arrive(s) ==
    /\ peer[s] = "up"
    /\ srv[s] # "closed"
    /\ avail[s] < 2 * MaxEvents
    /\ avail' = [avail EXCEPT ![s] = @ + 1]
    /\ UNCHANGED <<owner, peer, srv, posVars, lstVars, rxVars, regVars, coreVars,
                   shareVars, pc>>

\* The client closes, resets or loses its connection.
Leave(s) ==
    /\ peer[s] = "up"
    /\ peer' = [peer EXCEPT ![s] = "gone"]
    /\ UNCHANGED <<owner, avail, srv, posVars, lstVars, rxVars, regVars, coreVars,
                   shareVars, pc>>

\* Another service puts an item on the share pipe.
ShareFromOther ==
    /\ shared < MaxShared
    /\ shared' = shared + 1
    /\ UNCHANGED <<netVars, srv, posVars, lstVars, rxVars, regVars, coreVars,
                   shareLeft, pc>>

\* FTS.receive_data_froCoT_service_thread answers a "get".
CoreAnswer ==
    /\ request > 0
    /\ request' = request - 1
    /\ reply' = reply + 1
    /\ UNCHANGED <<netVars, srv, posVars, lstVars, rxVars, regVars, shareVars, pc>>

\* FTS.restart_receive_connection_process.
RestartReceive ==
    /\ resets < MaxResets
    /\ resets' = resets + 1
    /\ killSwitch' = "set"
    /\ UNCHANGED <<netVars, srv, posVars, lst, lsock, cur, rxVars, regVars, coreVars,
                   shareVars, pc>>

-----------------------------------------------------------------------------
(* The thread pool.  A queued job starts when a worker is free; which one  *)
(* of several queued jobs is left open.                                    *)

Busy == Cardinality({i \in Slot : lst[i] \in {"accept", "read"}})
            + (IF rx = "scan" THEN 1 ELSE 0)

StartListen(i) ==
    /\ lst[i] = "queued"
    /\ Busy < PoolSize
    /\ lst' = [lst EXCEPT ![i] = "accept"]
    /\ UNCHANGED <<netVars, srv, posVars, lsock, cur, killSwitch, resets, rxVars,
                   regVars, coreVars, shareVars, pc>>

\* startup() and the snapshot of the keys in monitorForData.
StartPass ==
    /\ rx = "queued"
    /\ Busy < PoolSize
    /\ rx' = "scan"
    /\ todo' = Registered
    /\ batch' = <<>>
    /\ UNCHANGED <<netVars, srv, posVars, lstVars, regVars, coreVars, shareVars, pc>>

(* ReceiveConnections.listen.                                              *)

\* The job returns result r.  Nobody polls a job that a reset replaced, so
\* its result is garbage and the socket in it is closed with it.
Return(i, r) ==
    IF i = cur
    THEN /\ lst' = [lst EXCEPT ![i] = "done"]
         /\ lsock' = [lsock EXCEPT ![i] = r]
    ELSE /\ lst' = [lst EXCEPT ![i] = "free"]
         /\ lsock' = [lsock EXCEPT ![i] = NoSock]

Accept(i, s) ==
    /\ lst[i] = "accept"
    /\ srv[s] = "backlog"
    /\ srv' = [srv EXCEPT ![s] = "open"]
    /\ lst' = [lst EXCEPT ![i] = "read"]
    /\ lsock' = [lsock EXCEPT ![i] = s]
    /\ UNCHANGED <<netVars, posVars, cur, killSwitch, resets, rxVars, regVars,
                   coreVars, shareVars, pc>>

AcceptTimeout(i) ==
    /\ Ssl
    /\ lst[i] = "accept"
    /\ Return(i, NoSock)
    /\ UNCHANGED <<netVars, srv, posVars, cur, killSwitch, resets, rxVars, regVars,
                   coreVars, shareVars, pc>>

\* receive_connection_data read k halves that parse: the first event is the
\* connection event, whole events read along with it are dropped.
ReadConnectionData(i, k) ==
    LET s == lsock[i] IN
    /\ lst[i] = "read"
    /\ k >= 2 /\ k % 2 = 0 /\ k <= avail[s]
    /\ pos' = [pos EXCEPT ![s] = k]
    /\ start' = [start EXCEPT ![s] = k \div 2]
    /\ Return(i, s)
    /\ srv' = IF i = cur THEN srv ELSE [srv EXCEPT ![s] = "closed"]
    /\ UNCHANGED <<netVars, cur, killSwitch, resets, rxVars, regVars, coreVars,
                   shareVars, pc>>

\* Both attempts failed: a timeout, the end of the stream, a reset, a read
\* that ended inside an event, or data that is not a CoT event (the TEST
\* probe).  The socket is closed and -1 returned.
ReadConnectionFails(i) ==
    LET s == lsock[i] IN
    /\ lst[i] = "read"
    /\ avail[s] # 2 \/ peer[s] = "gone" \/ owner[s] = NoUid
    /\ srv' = [srv EXCEPT ![s] = "closed"]
    /\ Return(i, NoSock)
    /\ UNCHANGED <<netVars, posVars, cur, killSwitch, resets, rxVars, regVars,
                   coreVars, shareVars, pc>>

-----------------------------------------------------------------------------
(* ClientReceptionHandler.monitorForData: one step per visited client.     *)

Visit(u, s, items, k) ==
    /\ batch' = batch \o items
    /\ pos' = [pos EXCEPT ![s] = @ + k]
    /\ todo' = todo \ {u}
    /\ UNCHANGED <<netVars, srv, start, lstVars, rx, regVars, coreVars, shareVars, pc>>

Scanning(u) == rx = "scan" /\ u \in todo /\ queue[u] # NoSock

Unread(s) == avail[s] - pos[s]

\* socket.timeout or EWOULDBLOCK: nothing to read.
VisitIdle(u) ==
    LET s == queue[u] IN
    /\ Scanning(u)
    /\ Unread(s) = 0 /\ peer[s] = "up"
    /\ Visit(u, s, <<>>, 0)

\* k halves that are whole events: each is put on the data pipe.
VisitEvents(u, k) ==
    LET s == queue[u] IN
    /\ Scanning(u)
    /\ k \in 1 .. Unread(s)
    /\ (pos[s] + k) % 2 = 0
    /\ Visit(u, s, [i \in 1 .. k \div 2 |-> [uid |-> u, sock |-> s, ev |-> pos[s] \div 2 + i]], k)

\* Faulty: a read that does not parse is skipped, as an EWOULDBLOCK is.
VisitFragmentSkipped(u, k) ==
    LET s == queue[u] IN
    /\ Scanning(u)
    /\ k \in 1 .. Unread(s)
    /\ (pos[s] + k) % 2 = 1
    /\ Visit(u, s, <<>>, k)

\* k halves that end inside an event do not parse: the client is reported as
\* disconnected and the events read are lost.
VisitFragment(u, k) ==
    LET s == queue[u] IN
    /\ Scanning(u)
    /\ k \in 1 .. Unread(s)
    /\ (pos[s] + k) % 2 = 1
    /\ Visit(u, s, <<[uid |-> u, sock |-> s, ev |-> Eof]>>, k)

\* Faulty: an empty read is taken for "nothing to read".
VisitGoneIgnored(u) == Scanning(u) /\ peer[queue[u]] = "gone" /\ Visit(u, queue[u], <<>>, 0)

\* The stream has ended, or the read raises a reset, abort or broken pipe.
VisitGone(u) ==
    LET s == queue[u] IN
    /\ Scanning(u)
    /\ peer[s] = "gone"
    /\ Visit(u, s, <<[uid |-> u, sock |-> s, ev |-> Eof]>>, 0)

\* The pass is over and returns its data pipe.  A uid that is no longer a key
\* raises KeyError instead: startup returns -1 and what the pass had collected
\* is lost.
PassReturns ==
    /\ rx = "scan"
    /\ todo = {} \/ ~(todo \subseteq Registered)
    /\ rx' = IF todo = {} THEN "done" ELSE "failed"
    /\ batch' = IF todo = {} THEN batch ELSE <<>>
    /\ todo' = {}
    /\ UNCHANGED <<netVars, srv, posVars, lstVars, regVars, coreVars, shareVars, pc>>

-----------------------------------------------------------------------------
(* mainRunFunction, first part: the result of the listen job.              *)

\* Faulty: a client that comes back is not put in the place of the old one.
ConnectionKeepsOld(s) ==
    LET u == owner[s]
        Dropped == {lastSock} \ Live
    IN  /\ lastSock' = s
        /\ srv' = [x \in Sock |-> IF x \in Dropped THEN "closed" ELSE srv[x]]
        /\ IF u = NoUid
           THEN UNCHANGED <<queue, connections, iam>>
           ELSE /\ queue' = [queue EXCEPT ![u] = s]
                /\ connections' = [connections EXCEPT ![u] = s]
                /\ iam' = [iam EXCEPT ![u] = "connection"]
        /\ UNCHANGED handled

\* create_client_connection and the requests of handle_connection.  An entry
\* of the same uid is overwritten, and with it goes the last reference to the
\* old socket; so does the reference the controller kept to the last client.
HandleConnection(s) ==
    LET u == owner[s]
        Dropped == {lastSock} \ Live
    IN  /\ lastSock' = s
        /\ IF u = NoUid
           THEN /\ srv' = [x \in Sock |-> IF x \in Dropped THEN "closed" ELSE srv[x]]
                /\ UNCHANGED <<queue, connections, iam>>
           ELSE /\ srv' = [x \in Sock |-> IF x \in Dropped \cup {queue[u]} THEN "closed" ELSE srv[x]]
                /\ queue' = [queue EXCEPT ![u] = s]
                /\ connections' = [connections EXCEPT ![u] = s]
                /\ iam' = [iam EXCEPT ![u] = "connection"]
        /\ UNCHANGED handled

\* Faulty: the listen job is submitted again only after a client was accepted.
PollConnectionNoResubmit ==
    /\ pc = "conn" /\ killSwitch = "clear"
    /\ lst[cur] = "done"
    /\ lst' = [lst EXCEPT ![cur] = IF lsock[cur] = NoSock THEN "free" ELSE "queued"]
    /\ lsock' = [lsock EXCEPT ![cur] = NoSock]
    /\ IF lsock[cur] = NoSock
       THEN UNCHANGED <<srv, regVars>>
       ELSE HandleConnection(lsock[cur])
    /\ pc' = "data"
    /\ UNCHANGED <<netVars, posVars, cur, killSwitch, resets, rxVars, coreVars, shareVars>>

PollConnection ==
    /\ pc = "conn" /\ killSwitch = "clear"
    /\ lst[cur] = "done"
    /\ lst' = [lst EXCEPT ![cur] = "queued"]
    /\ lsock' = [lsock EXCEPT ![cur] = NoSock]
    /\ IF lsock[cur] = NoSock
       THEN UNCHANGED <<srv, regVars>>
       ELSE HandleConnection(lsock[cur])
    /\ pc' = "data"
    /\ UNCHANGED <<netVars, posVars, cur, killSwitch, resets, rxVars, coreVars, shareVars>>

PollConnectionTimeout ==
    /\ pc = "conn" /\ killSwitch = "clear"
    /\ lst[cur] # "done"
    /\ pc' = "data"
    /\ UNCHANGED <<netVars, srv, posVars, lstVars, rxVars, regVars, coreVars, shareVars>>

\* Faulty: a reset also forgets the clients.
ResetForgetsClients(i) ==
    /\ pc = "conn" /\ killSwitch = "set"
    /\ killSwitch' = "clear"
    /\ lst[i] = "free"
    /\ lst' = [lst EXCEPT ![i] = "queued"]
    /\ queue' = [u \in Uid |-> NoSock]
    /\ cur' = i
    /\ pc' = "data"
    /\ UNCHANGED <<netVars, srv, posVars, lsock, resets, rxVars, connections, lastSock, iam,
                   handled, coreVars, shareVars>>

\* The kill switch: the listen job is submitted again and the main loop lets
\* go of the old one, finished or not.
ResetListen(i) ==
    /\ pc = "conn" /\ killSwitch = "set"
    /\ killSwitch' = "clear"
    /\ IF lst[cur] = "done"
       THEN /\ i = cur
            /\ lst' = [lst EXCEPT ![i] = "queued"]
            /\ lsock' = [lsock EXCEPT ![i] = NoSock]
            /\ srv' = [x \in Sock |-> IF x = lsock[cur] THEN "closed" ELSE srv[x]]
       ELSE /\ lst[i] = "free"
            /\ lst' = [lst EXCEPT ![i] = "queued"]
            /\ UNCHANGED <<lsock, srv>>
    /\ cur' = i
    /\ pc' = "data"
    /\ UNCHANGED <<netVars, posVars, resets, rxVars, regVars, coreVars, shareVars>>

-----------------------------------------------------------------------------
(* Second part: the result of the reception job.                           *)

PollDataTimeout ==
    /\ pc = "data"
    /\ rx \in {"queued", "scan"}
    /\ pc' = "share"
    /\ shareLeft' = ShareLimit
    /\ UNCHANGED <<netVars, srv, posVars, lstVars, rxVars, regVars, coreVars, shared>>

\* The data pipe is taken; a result that is not a list is dropped and the job
\* submitted again.
PollData ==
    /\ pc = "data"
    /\ rx \in {"done", "failed"}
    /\ IF rx = "done"
       THEN rx' = "taken" /\ pc' = "items" /\ UNCHANGED shareLeft
       ELSE rx' = "queued" /\ pc' = "share" /\ shareLeft' = ShareLimit
    /\ UNCHANGED <<netVars, srv, posVars, lstVars, todo, batch, regVars, coreVars, shared>>

\* Faulty: the entry stays in the queue, the socket stays open, or the IAM
\* component is not told.
DisconnectionKeepsEntry(u) ==
    /\ srv' = [srv EXCEPT ![queue[u]] = "closed"]
    /\ iam' = [iam EXCEPT ![u] = "disconnection"]
    /\ UNCHANGED <<queue, connections, lastSock, handled>>

DisconnectionKeepsSocket(u) ==
    /\ queue' = [queue EXCEPT ![u] = NoSock]
    /\ iam' = [iam EXCEPT ![u] = "disconnection"]
    /\ UNCHANGED <<srv, connections, lastSock, handled>>

DisconnectionUnreported(u) ==
    /\ queue' = [queue EXCEPT ![u] = NoSock]
    /\ srv' = [srv EXCEPT ![queue[u]] = "closed"]
    /\ UNCHANGED <<iam, connections, lastSock, handled>>

\* handle_disconnection: whatever socket the uid has now is closed.  (The
\* disconnection CoT to the other clients is in CotDelivery.)
HandleDisconnection(u) ==
    /\ queue' = [queue EXCEPT ![u] = NoSock]
    /\ srv' = [srv EXCEPT ![queue[u]] = "closed"]
    /\ iam' = [iam EXCEPT ![u] = "disconnection"]
    /\ UNCHANGED <<connections, lastSock, handled>>

\* One iteration of handle_regular_data.  A disconnection of a uid that has
\* no entry raises KeyError in get_sock, which is logged.
HandleItem ==
    /\ pc = "items" /\ batch # <<>>
    /\ batch' = Tail(batch)
    /\ LET item == Head(batch) IN
       \/ /\ item.ev # Eof
          /\ handled' = [handled EXCEPT ![item.sock] = Append(@, item.ev)]
          /\ UNCHANGED <<srv, queue, connections, lastSock, iam>>
       \/ /\ item.ev = Eof
          /\ queue[item.uid] # NoSock
          /\ HandleDisconnection(item.uid)
       \/ /\ item.ev = Eof
          /\ queue[item.uid] = NoSock
          /\ UNCHANGED <<srv, regVars>>
    /\ UNCHANGED <<netVars, posVars, lstVars, rx, todo, coreVars, shareVars, pc>>

\* Faulty: the core is asked twice.
AskCoreTwice ==
    /\ pc = "items" /\ batch = <<>>
    /\ request' = request + 2
    /\ pc' = "info"
    /\ UNCHANGED <<netVars, srv, posVars, lstVars, rxVars, regVars, reply, shareVars>>

\* get_client_information after the data: the request ...
AskCore ==
    /\ pc = "items" /\ batch = <<>>
    /\ request' = request + 1
    /\ pc' = "info"
    /\ UNCHANGED <<netVars, srv, posVars, lstVars, rxVars, regVars, reply, shareVars>>

\* Faulty: the main loop goes on without waiting for the answer.
ResubmitWithoutAnswer ==
    /\ pc = "info"
    /\ rx' = "queued"
    /\ pc' = "share"
    /\ shareLeft' = ShareLimit
    /\ UNCHANGED <<netVars, srv, posVars, lstVars, todo, batch, regVars, coreVars, shared>>

\* ... and the answer, after which the reception job is submitted again.
ResubmitPass ==
    /\ pc = "info" /\ reply > 0
    /\ reply' = reply - 1
    /\ rx' = "queued"
    /\ pc' = "share"
    /\ shareLeft' = ShareLimit
    /\ UNCHANGED <<netVars, srv, posVars, lstVars, todo, batch, regVars, request, shared>>

-----------------------------------------------------------------------------
(* Third part: the share pipe, then the components' responses.             *)

\* Faulty: the loop over the share pipe has no limit.
TakeSharedUnlimited ==
    /\ pc = "share" /\ shared > 0
    /\ shared' = shared - 1
    /\ request' = request + 1
    /\ pc' = "shareInfo"
    /\ UNCHANGED <<netVars, srv, posVars, lstVars, rxVars, regVars, reply, shareLeft>>

\* handle_shared_data asks the core before it sends.
TakeShared ==
    /\ pc = "share" /\ shared > 0 /\ shareLeft > 0
    /\ shared' = shared - 1
    /\ shareLeft' = shareLeft - 1
    /\ request' = request + 1
    /\ pc' = "shareInfo"
    /\ UNCHANGED <<netVars, srv, posVars, lstVars, rxVars, regVars, reply>>

SendShared ==
    /\ pc = "shareInfo" /\ reply > 0
    /\ reply' = reply - 1
    /\ pc' = "share"
    /\ UNCHANGED <<netVars, srv, posVars, lstVars, rxVars, regVars, request, shareVars>>

ShareDone ==
    /\ pc = "share" /\ (shared = 0 \/ shareLeft = 0)
    /\ pc' = "bcast"
    /\ UNCHANGED <<netVars, srv, posVars, lstVars, rxVars, regVars, coreVars, shareVars>>

\* broadcast_component_responses: send errors are logged per connection.
BroadcastComponentResponses ==
    /\ pc = "bcast"
    /\ pc' = "conn"
    /\ UNCHANGED <<netVars, srv, posVars, lstVars, rxVars, regVars, coreVars, shareVars>>

\* The event is cleared: the loop ends and stop() terminates the pool.
Stop ==
    /\ pc = "conn"
    /\ pc' = "stopped"
    /\ srv' = [s \in Sock |-> IF srv[s] = "none" THEN "none" ELSE "closed"]
    /\ lst' = [i \in Slot |-> "free"]
    /\ lsock' = [i \in Slot |-> NoSock]
    /\ rx' = "taken"
    /\ todo' = {}
    /\ batch' = <<>>
    /\ queue' = [u \in Uid |-> NoSock]
    /\ connections' = [u \in Uid |-> NoSock]
    /\ lastSock' = NoSock
    /\ UNCHANGED <<netVars, posVars, cur, killSwitch, resets, iam, handled,
                   coreVars, shareVars>>

-----------------------------------------------------------------------------
Environment ==
    \/ \E s \in Sock, u \in Uid \cup {NoUid} : Connect(s, u)
    \/ \E s \in Sock : Arrive(s)
    \/ \E s \in Sock : Leave(s)
    \/ ShareFromOther
    \/ RestartReceive

Listener ==
    \/ \E i \in Slot : StartListen(i)
    \/ \E i \in Slot, s \in Sock : Accept(i, s)
    \/ \E i \in Slot : AcceptTimeout(i)
    \/ \E i \in Slot, k \in Halves : ReadConnectionData(i, k)
    \/ \E i \in Slot : ReadConnectionFails(i)

Reception ==
    \/ StartPass
    \/ \E u \in Uid : VisitIdle(u)
    \/ \E u \in Uid, k \in Halves : VisitEvents(u, k)
    \/ \E u \in Uid, k \in Halves : VisitFragment(u, k)
    \/ \E u \in Uid : VisitGone(u)
    \/ PassReturns

MainLoop ==
    \/ PollConnection
    \/ PollConnectionTimeout
    \/ \E i \in Slot : ResetListen(i)
    \/ PollDataTimeout
    \/ PollData
    \/ HandleItem
    \/ AskCore
    \/ ResubmitPass
    \/ TakeShared
    \/ SendShared
    \/ ShareDone
    \/ BroadcastComponentResponses

Next == Environment \/ Listener \/ Reception \/ MainLoop \/ CoreAnswer \/ Stop

Spec == Init /\ [][Next]_vars

\* The threads of the process run, and the FTS core answers: its loop serves
\* the user queues for as long as the server is up.
Fairness ==
    /\ WF_vars(MainLoop)
    /\ WF_vars(Reception)
    /\ WF_vars(Listener)
    /\ WF_vars(CoreAnswer)

FairSpec == Spec /\ Fairness

-----------------------------------------------------------------------------
(* Safety.                                                                 *)

(* A reception pass never meets a uid that has been removed behind its     *)
(* back: clientInformationArray[user_id] raises no KeyError, so no pass is *)
(* cut short and nothing it collected is thrown away.                      *)
PassFindsItsClients == rx = "scan" => todo \subseteq Registered

(* client_information_queue and connections agree on every registered      *)
(* client, and its socket is an open one on which that uid announced       *)
(* itself: data and component responses go to the client they are for.     *)
RegisteredIsLive ==
    \A u \in Registered :
        /\ srv[queue[u]] = "open"
        /\ owner[queue[u]] = u
        /\ connections[u] = queue[u]

(* No socket leaks: an open one belongs to a registered client, or a       *)
(* listen job still has it, or it is the one rejected client whose         *)
(* ClientInformation the controller has not replaced yet.                  *)
OpenIsAccounted ==
    \A s \in Sock : srv[s] = "open" =>
        \/ s \in Live
        \/ \E i \in Slot : lsock[i] = s
        \/ s = lastSock

\* The events of a socket that are still on the data pipe, by their places.
OfSock(s) == {i \in DOMAIN batch : batch[i].sock = s /\ batch[i].ev # Eof}

\* The last event of a connection that was handed on.
LastHandled(s) == start[s] + Len(handled[s])

Reported(s) == \E i \in DOMAIN batch : batch[i].sock = s /\ batch[i].ev = Eof

InOrder(s) ==
    /\ \A i \in DOMAIN handled[s] : handled[s][i] = start[s] + i
    /\ \A i, j \in OfSock(s) : i < j => batch[i].ev < batch[j].ev
    /\ \E last \in LastHandled(s) .. MaxEvents :
        /\ {batch[i].ev : i \in OfSock(s)} = LastHandled(s) + 1 .. last
        /\ s \in Live /\ ~Reported(s) => 2 * last = pos[s]

(* The events of a connection reach the components in the order sent, once *)
(* each and without a gap, starting after what the listen job took: those  *)
(* handed on, then those on the data pipe.  Unless the client is reported  *)
(* disconnected, every whole event that was read is among them.            *)
EventsInOrder == \A s \in Sock : InOrder(s)

(* At the top of the loop the last request the IAM component was sent for  *)
(* a uid tells whether it is registered.                                   *)
IamAgrees ==
    pc = "conn" => \A u \in Uid : u \in Registered <=> iam[u] = "connection"

(* The queue pair to the core carries one question at a time and no answer *)
(* is left over: the answer main reads is the answer to what it asked.     *)
OneQuestion ==
    request + reply = (IF pc \in {"info", "shareInfo"} THEN 1 ELSE 0)

-----------------------------------------------------------------------------
(* Refinement: the service implements the sessions of module Sessions.  A  *)
(* connection is live while its client is in client_information_queue.     *)

ConnState ==
    [s \in Sock |-> IF s \in Live THEN "live" ELSE IF srv[s] = "closed" THEN "over" ELSE "new"]

Abs == INSTANCE Sessions
         WITH session <- queue, conn <- ConnState, served <- {s \in Sock : handled[s] # <<>>}

(* What listener, reception and main loop do together looks from outside   *)
(* like sessions that begin once on a fresh connection, are taken over by  *)
(* a newer connection of the uid, and end with their connection closed;    *)
(* no event of a connection that was never registered is handed on.        *)
ImplementsSessions == Abs!Spec

-----------------------------------------------------------------------------
(* Liveness.                                                               *)

(* A registered client that has gone is eventually taken out of the queue. *)
GoneIsRemoved ==
    \A u \in Uid, s \in Sock :
        (queue[u] = s /\ peer[s] = "gone") ~> (queue[u] # s)

(* A waiting connection is eventually accepted (or the service stops).     *)
BacklogIsServed == \A s \in Sock : srv[s] = "backlog" ~> srv[s] # "backlog"

(* However much the other services share, the loop comes round again.      *)
LoopTurns == []<>(pc \in {"conn", "stopped"})

-----------------------------------------------------------------------------
(* What comments and docstrings of the code say and the code does not do.  *)

(* monitorForData copies the keys, and "this prevents changes to the       *)
(* clientInformationArray from having any severe effects": the socket that *)
(* handle_disconnection closes is the one the disconnection was read from. *)
DisconnectsOnlyTheGone ==
    [][\A u \in Uid :
          (pc = "items" /\ queue[u] # NoSock /\ queue'[u] = NoSock)
              => Head(batch).sock = queue[u]]_vars
=============================================================================
