----------------------------- MODULE CotDelivery ----------------------------
(***************************************************************************)
(* How a CoT message reaches the clients of all services.  A source (the   *)
(* REST API, a federation service) puts it on its pipe to the core;        *)
(* FTS.checkPipes copies it to the share pipe of every CoT service but the *)
(* one it came from; a CoT service takes it from its share pipe and sends  *)
(* it to its clients (SendDataController.sendDataInQueue).  The services   *)
(* also send the answers of the components (SendComponentDataController)   *)
(* and, when they remove a client, its disconnection event.                *)
(*                                                                         *)
(* A service sends from one thread, and what can change under it while it  *)
(* runs through its clients is only whether a socket still takes data, so  *)
(* one run through the clients is one step.                                *)
(***************************************************************************)
EXTENDS Integers, FiniteSets, SequencesExt

CONSTANTS
    Svc,      \* the CoT services: TCP and SSL, or one of them
    Src,      \* services that only put messages on their pipe to the core
    Client,
    Home,     \* the order in which the clients of each service connected
    Msg,      \* messages of the sources and the components
    Body,     \* what they may hold: see Bodies
    NoBody

\* type and addressees: a message for all, a GeoChat to one client's room, a
\* message with <marti> destinations, the answer of a component.
Bodies == [kind : {"all", "room", "marti", "response"}, dests : SUBSET Client]

ASSUME DeliveryAssumption ==
    /\ Svc \cap Src = {}
    /\ \E s, t \in Svc : Svc = {s, t}
    /\ Home \in [Svc -> Seq(Client)] /\ \A s \in Svc : IsInjective(Home[s])
    /\ \A c \in Client : \E s \in Svc : c \in ToSet(Home[s])
    /\ \A s, t \in Svc : s # t => ToSet(Home[s]) \cap ToSet(Home[t]) = {}
    /\ Msg \cap Client = {}
    /\ Body \subseteq Bodies
    /\ NoBody \notin Bodies

VARIABLES
    body,    \* the content of each message, NoBody until it exists
    toCore,  \* the queues into the core (FilterGroup.sources)
    toSvc,   \* the share pipes of the CoT services (FilterGroup.receivers)
    queue,   \* client_information_queue of each service, in insertion order
    sock,    \* whether sending to a client works
    got,     \* how often a client got a message: 0, 1, or 2 for "again".  A
             \* client names the disconnection event of that client
    sent,    \* history: what each source has put on its pipe
    seen     \* history: what each service took from its pipe, first copies

vars == <<body, toCore, toSvc, queue, sock, got, sent, seen>>

Event == Msg \cup Client

(* The type of every variable.                                             *)
TypeOK ==
    /\ body \in [Msg -> Body \cup {NoBody}]
    /\ toCore \in [Svc \cup Src -> Seq(Msg)]
    /\ toSvc \in [Svc -> Seq(Msg)]
    /\ queue \in [Svc -> Seq(Client)]
    /\ sock \in [Client -> {"ok", "broken"}]
    /\ got \in [Client -> [Event -> 0 .. 2]]
    /\ sent \in [Src -> Seq(Msg)]
    /\ seen \in [Svc -> Seq(Msg)]

Init ==
    /\ body = [m \in Msg |-> NoBody]
    /\ toCore = [p \in Svc \cup Src |-> <<>>]
    /\ toSvc = [s \in Svc |-> <<>>]
    /\ queue = Home
    /\ sock = [c \in Client |-> "ok"]
    /\ got = [c \in Client |-> [e \in Event |-> 0]]
    /\ sent = [p \in Src |-> <<>>]
    /\ seen = [s \in Svc |-> <<>>]

-----------------------------------------------------------------------------
(* The sources and the core.                                               *)

Put(p, m, b) ==
    /\ body[m] = NoBody /\ b.kind # "response"
    /\ body' = [body EXCEPT ![m] = b]
    /\ toCore' = [toCore EXCEPT ![p] = Append(@, m)]
    /\ sent' = [sent EXCEPT ![p] = Append(@, m)]
    /\ UNCHANGED <<toSvc, queue, sock, got, seen>>

\* Faulty: the copy also goes back to the service it came from, or only there.
ShareWithOrigin(m, origin) == [s \in Svc |-> Append(toSvc[s], m)]
ShareOnlyWithOrigin(m, origin) ==
    [s \in Svc |-> IF s # origin THEN toSvc[s] ELSE Append(toSvc[s], m)]

\* AddDataToCoTList.send: the share pipes after m went to all but its origin.
ShareWithOthers(m, origin) ==
    [s \in Svc |-> IF s = origin THEN toSvc[s] ELSE Append(toSvc[s], m)]

\* Faulty: an item that is wrapped in a list is passed on with the list.
CheckPipeKeepsList(p) ==
    /\ toCore[p] # <<>>
    /\ toCore' = [toCore EXCEPT ![p] = Tail(@)]
    /\ toSvc' = ShareWithOthers(<<Head(toCore[p])>>, p)
    /\ UNCHANGED <<body, queue, sock, got, sent, seen>>

\* checkPipes takes one item of a source in its turn.  (Some items are wrapped
\* in a list, for which it would also send the presence of every user of the
\* core; the CoT services add none.)
CheckPipe(p) ==
    /\ toCore[p] # <<>>
    /\ toCore' = [toCore EXCEPT ![p] = Tail(@)]
    /\ toSvc' = ShareWithOthers(Head(toCore[p]), p)
    /\ UNCHANGED <<body, queue, sock, got, sent, seen>>

-----------------------------------------------------------------------------
(* SendDataController: the clients a message is sent to, in order.         *)

\* send_to_all, geochat_sending and send_to_specific_client: whom of the queue
\* they send to.  The last looks for each client at m_presence, which a
\* ClientInformation does not have: the exception of the first client ends it,
\* so none is sent to.
Targets(s, b) ==
    {i \in DOMAIN queue[s] : b.kind = "all" \/ (b.kind = "room" /\ queue[s][i] \in b.dests)}

\* The loop over the places t of q ends at the first client whose socket raises.
Reached(q, t) == {q[i] : i \in {j \in t : \A k \in t : k <= j => sock[q[k]] = "ok"}}

\* Faulty: a send that fails is only logged.
SucceedsRegardless(s, b) == TRUE

\* What makes sendDataInQueue return 1 and not -1.
Succeeds(s, b) ==
    /\ \A i \in Targets(s, b) : sock[queue[s][i]] = "ok"
    /\ b.kind = "marti" => queue[s] = <<>>

Again(n) == IF n = 2 THEN 2 ELSE n + 1

Deliver(e, cs) ==
    got' = [c \in Client |-> IF c \in cs THEN [got[c] EXCEPT ![e] = Again(@)] ELSE got[c]]

\* Faulty: the newest item is taken first.
HandleNewestFirst(s) ==
    /\ toSvc[s] # <<>>
    /\ LET m == Last(toSvc[s])
           b == body[m]
       IN  /\ toSvc' = [toSvc EXCEPT ![s] = Front(@)]
           /\ Deliver(m, Reached(queue[s], Targets(s, b)))
           /\ toCore' = IF Succeeds(s, b)
                        THEN [toCore EXCEPT ![s] = Append(@, m)]
                        ELSE toCore
           /\ seen' = [seen EXCEPT ![s] = IF Contains(@, m) THEN @ ELSE Append(@, m)]
    /\ UNCHANGED <<body, queue, sock, sent>>

\* handle_shared_data: send_message hands the share pipe to sendDataInQueue
\* whatever use_share_pipe is, so what was sent goes back to the core.
HandleSharedData(s) ==
    /\ toSvc[s] # <<>>
    /\ LET m == Head(toSvc[s])
           b == body[m]
       IN  /\ toSvc' = [toSvc EXCEPT ![s] = Tail(@)]
           /\ Deliver(m, Reached(queue[s], Targets(s, b)))
           /\ toCore' = IF Succeeds(s, b)
                        THEN [toCore EXCEPT ![s] = Append(@, m)]
                        ELSE toCore
           /\ seen' = [seen EXCEPT ![s] = IF Contains(@, m) THEN @ ELSE Append(@, m)]
    /\ UNCHANGED <<body, queue, sock, sent>>

-----------------------------------------------------------------------------
(* The other things a CoT service sends, and its clients.                  *)

\* send_message_to_all (no recipients) and send_message_to_some.  Every failed
\* send is logged and the loop goes on; the connections of removed clients
\* are still there, and sending on their closed sockets fails.
BroadcastComponentResponse(s, m, b) ==
    LET to == IF b.dests = {} THEN ToSet(Home[s]) ELSE ToSet(Home[s]) \cap b.dests IN
    /\ body[m] = NoBody /\ b.kind = "response"
    /\ body' = [body EXCEPT ![m] = b]
    /\ Deliver(m, {c \in to : sock[c] = "ok"})
    /\ UNCHANGED <<toCore, toSvc, queue, sock, sent, seen>>

\* A peer that has gone, or one that no longer reads and lets the send time out.
Break(c) ==
    /\ sock[c] = "ok"
    /\ sock' = [sock EXCEPT ![c] = "broken"]
    /\ UNCHANGED <<body, toCore, toSvc, queue, got, sent, seen>>

\* handle_disconnection: the client is removed, then send_disconnect_cot runs
\* through the clients that are left, without a share pipe.
HandleDisconnection(s, c) ==
    /\ sock[c] = "broken"
    /\ \E i \in DOMAIN queue[s] :
         /\ queue[s][i] = c
         /\ queue' = [queue EXCEPT ![s] = RemoveAt(@, i)]
    /\ Deliver(c, Reached(queue'[s], DOMAIN queue'[s]))
    /\ UNCHANGED <<body, toCore, toSvc, sock, sent, seen>>

Core == \E p \in Svc \cup Src : CheckPipe(p)

Next ==
    \/ \E p \in Src, m \in Msg, b \in Body : Put(p, m, b)
    \/ Core
    \/ \E s \in Svc : HandleSharedData(s)
    \/ \E s \in Svc, m \in Msg, b \in Body : BroadcastComponentResponse(s, m, b)
    \/ \E c \in Client : Break(c)
    \/ \E s \in Svc, c \in Client : HandleDisconnection(s, c)

Spec == Init /\ [][Next]_vars

\* checkPipes goes round its sources for ever and each service empties its
\* share pipe, a limited number of items in every turn of its loop.
Fairness ==
    /\ \A p \in Svc \cup Src : WF_vars(CheckPipe(p))
    /\ \A s \in Svc : WF_vars(HandleSharedData(s))

FairSpec == Spec /\ Fairness

-----------------------------------------------------------------------------
Addressed(c, b) == b.kind = "all" \/ (b.kind = "response" /\ b.dests = {}) \/ c \in b.dests

(* What a service hands on to the core its own clients have: each one it   *)
(* is for and can still be sent to has got it.                             *)
SharedWasDelivered ==
    \A s \in Svc : \A m \in ToSet(toCore[s]) : \A c \in ToSet(queue[s]) :
        Addressed(c, body[m]) /\ sock[c] = "ok" => got[c][m] > 0

(* The first copies of the messages of one source come to each service in  *)
(* the order that source sent them, whatever copies other services made:   *)
(* when a service has taken one, it took the earlier ones before.          *)
FirstCopiesInOrder ==
    \A s \in Svc, p \in Src : \A i \in DOMAIN seen[s], j \in DOMAIN sent[p] :
        seen[s][i] = sent[p][j] =>
            \A k \in 1 .. (j - 1) : \E h \in 1 .. (i - 1) : seen[s][h] = sent[p][k]

Copies(q, m) == Cardinality({i \in DOMAIN q : q[i] = m})

(* Copies do not multiply: with two CoT services a message never has more  *)
(* than two copies under way, one in each direction, however often the     *)
(* services hand it back to the core.                                      *)
CopiesBounded ==
    \A m \in Msg :
        \A s, t \in Svc : s # t =>
            Copies(toSvc[s], m) + Copies(toCore[s], m)
                + Copies(toSvc[t], m) + Copies(toCore[t], m) <= 2

(* Whatever a source sends, each CoT service eventually takes it from its  *)
(* share pipe.                                                             *)
EveryServiceTakesIt ==
    \A p \in Src, s \in Svc, m \in Msg :
        Contains(sent[p], m) ~> Contains(seen[s], m)

-----------------------------------------------------------------------------
(* What comments and docstrings of the code say and the code does not do.  *)

(* handle_shared_data calls send_message with use_share_pipe=False: what   *)
(* came from the core is not shared with it again, and so a client gets a  *)
(* message once.                                                           *)
AtMostOnce == \A c \in Client, m \in Msg : got[c][m] < 2
=============================================================================
