# FreeTAKServer in TLA+

FreeTAKServer (FTS) is a server for TAK clients (ATAK, WinTAK, ...): clients
connect over TCP or TLS, announce themselves with a Cursor-on-Target (CoT)
event, and send and receive CoT events. This directory holds TLA+ models of the
parts of the server in which processes, threads and clients interleave, TLC
configurations that check them on small instances, and TLAPS proofs of the main
invariants of the CoT service and the abstract specification it implements, of the
delivery of messages, of the supervision of services, of the federation processes, of
the Rust relay and of the stores of emergencies and repeated messages.

Contents: [inventory](#inventory), [modules](#modules), [runs](#runs),
[findings](#findings), [fairness](#fairness), [proofs](#proofs),
[what is left out](#what-is-left-out), [plan](#plan).

## Inventory

**Processes.** `controllers/services/FTS.py` is the core. `startup` starts the
REST API process and then, in `start_all`, up to six service processes: the TCP
and SSL data package services, the TCP and SSL CoT services, and a federation
client and server. Each service has a pair of queues to the core
(`QueueManager`), and the CoT services have another pair for the user table.

| part | state | operations | talks to |
|---|---|---|---|
| CoT service (`services/tcp_cot_service`, `services/ssl_cot_service`) | `client_information_queue`, `connections`, the results of two pooled jobs, counters | `mainRunFunction`: poll the listen job, poll the reception job, take shared data, broadcast component responses; `listen`, `startup`/`monitorForData` in the pool | clients (sockets), core (user queues, share pipe), components (IAM and domain actions) |
| sending (`SendDataController`, `SendComponentDataController`) | none of its own | `sendDataInQueue` (`send_to_all`, `geochat_sending`, `send_to_specific_client`), `send_message` | clients, share pipe to the core |
| FTS core | `user_dict`, `FilterGroup.sources`/`receivers`, `pipeList`, process handles, configuration object | `checkPipes`, `receive_data_froCoT_service_thread`, `receive_Rest_commands`, `start_all`, `start_*`/`stop_*` | all services (queues), processes |
| REST API (`services/rest_api_service`) | database | CRUD endpoints, `changeStatus`, `checkStatus`, `Clients`, federation commands | core (`APIPipe`, `CommandPipe`) |
| federation (`core/services/federation`), a server and a client process | `federates`, the selector, `user_dict`, the `ActiveFederations` and `Federations` tables | thread `inbound_data_handler`: connect, disconnect, send; thread `outbound_data_handler`: accept, receive, forward, disconnect | core (queue pair), REST API (through the core), other servers |
| TAK HTTP and HTTPS API, REST data packages | none of their own | one endpoint per operation, `make_request` synchronous or not | routing workers of digitalpy, which run the components |
| mission component | missions, subscriptions, invitations, changes, contents, CoT, logs, external data, relations (tables) | `put_mission`, `add_contents_to_mission`, ..., notifications | enterprise sync, CoT services |
| ExCheck component | templates, checklists, tasks, links (tables) | `create_template`, `start_checklist`, `update_checklist_task`, `add_checklist_to_mission` | enterprise sync, missions |
| enterprise sync (`core/enterprise_sync`) | metadata rows, files | save, update, get, delete | database, directory |
| CoT management (`core/cot_management`) | stored CoT | `handle_default_cot` | missions |
| emergency component (`components/extended/emergency`) | `emergencies.json`, read and written as a whole | alert, cancellation, list for a new client | IAM, CoT services, REST API |
| repeater, geo objects, private CoT (`core/cot_management`) | `repeated_messages.json`, likewise | create, delete, list for a new client; `get_recipients` | IAM, CoT services, REST API |
| other components (cotmanager, report, track manager, ...), data package services | a row, an entry or a file per request | one action per request | CoT and HTTP services through digitalpy |
| `fts-rs` | `presence_cache`, `repeat_cache`, `conn_state`, `uid_to_conn`, broadcast channel; SQLite on the HTTP side | `process_connection`, ticker, HTTP handlers | clients |

**Hard behaviour.** The CoT service shares its client table between the main
loop and the reception job; sockets are closed by losing their last reference;
answers on queues carry no tag; what is read is cut anywhere in the stream; a
client can reconnect while its old connection is still being noticed as gone;
`start_all` runs in two threads without a lock and breaks off half way on an
exception; messages that services hand back to the core circulate; the threads of
a federation process share the federates and the selector without a lock; every
request of the TAK API is a sequence of separate commits and file operations that
other workers run between, and an exception ends one component's part of it while
its caller goes on; the files of emergencies and of repeated messages are truncated and
rewritten by several workers without a lock, and the server can die in between; in the
Rust relay every event takes several steps under different locks. `PROJECT.json`
lists each of these hazards at its line.

**What makes each part correct.** *CoT service*: a pass over the clients is
never cut short; the tables name the live socket of that client; no socket
leaks; every event is handed on once and in order; the IAM component agrees;
questions and answers stay paired; a client that has gone is removed, one that
waits is accepted, the loop turns. *Delivery*: only addressees get a message;
order per source; copies do not multiply; everything reaches every service.
*Supervisor*: no orphaned process; both sides of the filter group agree; each
request gets its own answer. *Relay*: late joiners converge to the cache;
presence is shown while it is cached and forgotten after a close. *Federation*:
the table of federates, the selector, the sockets and the database agree when the
threads rest; nothing is sent or forwarded twice or out of order; a federate that
has gone is forgotten and one that has not is read. *TAK API*: a mission is created
once; the change log and the notifications speak of what missions hold, and of all
of it; a checklist that can be read is complete; a CoT of a
mission can be found; every file has a row. *Emergencies and repeater*: the files hold
what was asked for; a client that is connected and near knows what is active, whenever
it came; what was repeated is sent to it.

## Modules

| module | models | composed with |
|---|---|---|
| `CotService` | the CoT service process, its pool, its queues to the core | environment: clients, core, other services |
| `CotService_proofs` | inductive invariant and theorems | extends `CotService` |
| `Sessions` | what the CoT service promises about its clients: sessions that begin, are taken over and end | instantiated by `CotService` (`ImplementsSessions`) |
| `CotService_refinement` | the proof that `CotService` implements `Sessions` | extends `CotService_proofs` |
| `CotDelivery` | the way of a message: sources, `checkPipes`, share pipes, `SendDataController`, component responses, disconnection events | all CoT services and the core together |
| `CotDelivery_proofs` | inductive invariant and theorems | extends `CotDelivery` |
| `Supervisor` | `start_all` in two threads, the books of the core, the REST command channel | core, REST process, service processes |
| `Supervisor_proofs` | inductive invariant and theorems | extends `Supervisor` |
| `FtsRelay` | the CoT relay of `fts-rs` | all connection tasks, ticker, clients |
| `FtsRelay_proofs` | inductive invariant and theorems | extends `FtsRelay` |
| `Federation` | a federation process of either kind, its two threads, `FederationTable` of the REST API | other servers and the core as environment |
| `Federation_proofs` | inductive invariant and theorems | extends `Federation` |
| `EnterpriseSync` | rows and files of the enterprise sync store, one action per commit or file operation | |
| `Mission` | the tables of the mission component, one action per commit | |
| `ExCheck` | the tables of the ExCheck component, one action per commit | |
| `TakApi` | endpoints, controllers, facades and routing workers | extends `EnterpriseSync`, `Mission` and `ExCheck` |
| `TakApi_proofs` | inductive invariant and theorems | extends `TakApi` |
| `StandingCot` | emergencies, repeated messages and private CoT: requests, routing workers, the two files, REST endpoints, crashes | clients, CoT services, IAM as environment |
| `StandingCot_proofs` | inductive invariant and theorems | extends `StandingCot` |
| `MC*` | constants for TLC | |

A definition named `...Twice`, `...Ignored`, `...Unlocked` and so on, with a
comment that starts with "Faulty:", is a wrong version of the definition that
follows it, kept to show that a property notices it. No specification uses them.

### CotService

A connection's stream is counted in half events: event *i* is the halves 2*i*-1
and 2*i*, so an odd position is a read that ended inside an event. `Visit*` are
the outcomes of one `recv_until` in `monitorForData`: nothing to read, whole
events, a fragment (which does not parse; the code then reports the client as
disconnected), end of stream. `HandleItem` is one iteration of
`handle_regular_data`, `HandleConnection` is `handle_connection` with
`create_client_connection`. Python closes a socket when the last reference to it
goes: `HandleConnection` closes the socket of an overwritten entry and the one
the controller's `clientInformation` attribute kept, a listen job that nobody
polls any more closes what it returned. `pc` is the position in
`mainRunFunction`; the blocking request to the core is two steps, and in between
the jobs, the clients and the core go on. `Ssl = TRUE` adds the accept timeout of
the SSL twin, otherwise the two services are the same code.

Bounds: `MaxEvents`, `MaxShared`, `MaxResets`, the sets of sockets (used once)
and of listen jobs (`Slot`).

`ImplementsSessions` maps the client table to `session`, the state of a socket and
of the table to `conn` (`ConnState`), and the sockets that data was taken from to
`served`.

### CotDelivery

One run of a service through its clients is one step: the service sends from one
thread, and what others can change meanwhile is whether a socket still takes
data. A body is a kind and a set of addressees. `Targets` is what the three
branches of `sendDataInQueue` choose, as places of the client queue; the marti branch reads an attribute that
`ClientInformation` does not have, so it sends to nobody (and fails unless the
service has no client). `got` counts deliveries up to two. `DeliveryAssumption` says that
there are two CoT services, TCP and SSL, and that no client is twice in the queue of one,
which is a dictionary.

### Supervisor

`start_all` looks at the six services in a fixed order, one step for each check
and one for each start. `Attr` and `Name` are the aliases in the code: one
attribute for both CoT processes, one `ServiceTypes` value for both data package
services. `stop_*` keep the order of their statements as far as exceptions make
it visible. A REST command is a fresh `FTSObj` with one status changed; in a
fresh one the federation server has the status "stop". `Crash` is a process that
ends by itself. One check, with the stop that belongs to it, and one start are
atomic; the two threads interleave between them.

### FtsRelay

A task handles an event in the steps its locks make visible: replay of the two
caches, connection map, uid map, presence cache, broadcast. The channel keeps
`Cap` messages per receiver; a task that falls behind is in `lagged` and is not
followed. What clients do with a message (`ShowUid`, `points`) stands for the
effect a message has on a TAK client and is external.

### Federation

A thread is a record of its program counter and its local variables, and a step is
a statement after which the other thread may run: `disconnect_client` alone is five
of them, and runs in both threads. `federates` is a sequence because Python's
dictionaries keep the order of insertion and the loops over them depend on it. The
selector (`sel`) still knows a socket that was closed, as in the code; `Ready` is what
`select` returns. `Resync` is the second `recv(10000)` of the exception handlers, with
what it can throw away. `dbOk` is the database session of the process, which after a
failed commit refuses everything because nobody rolls it back. A REST request reads
the row of a federation and acts on it in two steps, and the process changes the
status of the same row in between. Faults: peers that leave at any time, failed
connections and handshakes, fragmented events.

Bounds: `MaxOf` and `MaxInputs` on REST requests, messages and events; `Conns` are
used once. Sockets are not used again after they are closed (in the process a new
socket may get the number of a closed one).

### TakApi, Mission, ExCheck, EnterpriseSync

A controller method is a program, a sequence of statements; each is one commit, one
file operation, one query or one check, and statements of different processes interleave.
A process has a stack of programs. A statement `Call` holds a request, and `Run` puts the
program of the method it names (the action mapping files) on the stack; a program that has
ended is taken off. An exception (`Raise`) ends the innermost program only, which is what
the `execute` method of every facade does, and `NeedResult` is a caller that uses the value
the response then lacks. The loops of the controllers are statements that replace
themselves by one round and the rest of the loop (`ForContents`, `ForMissions`, `ForTasks`);
the metadata and the data of several hashes are read with one query for each
(`GetMetadata`, `GetData`), as the general controller does, so an object may come or go
between two of them. An asynchronous request is put into the bag `queue`, from which any
worker takes any job. A uid, hash and content of a package are one name; a document of a checklist is a
function from its tasks to versions. Rows whose order a query depends on (`.first()`) are
sequences, the others sets. `update_mission` sets a history flag, because a content
whose mission does not exist is stored all the same.

Bounds: `MaxRequests` requests in all, `MaxVersion` versions of a task; `HashLists` and
`MissionLists` are the lists that requests name. The uids that
requests draw are `Checklists` and the number of the request.

### StandingCot

A request is taken by a worker and run in the steps that another worker, or a crash,
can come between: constructing the persistence controller (which reads the file, once
for the facade and once for the controller of the sub-action), looking up recipients,
opening the file for writing, which truncates it, and writing it. A file is absent,
empty or a dictionary; `len` is longer than the dictionary when two writers overlapped
and the end of the longer text stayed behind the shorter one, which `json.load` refuses
and `pickle.load` does not see. `Reach` is the geometry: who is near an emergency, whom a
CoT names. A connection makes three requests (`ConnectRequests`) that are handled in any
order. `DeleteAgain` is the second request of `delete_emergency`: the endpoint passes the
service's name in the place of `synchronous`, so it waits between the two. The variables
`made`, `spoiled`, `clash`, `failed` and `answered` are history: what was asked for, and which
of the known gaps (overlapping writers, a change during a connection, a request that
raised) a state has been through. Of digitalpy, which is not in the repository, the
model takes what the header of the module lists; `ValidateUsers` is taken to leave an
empty list empty.

Bounds: `MaxStimuli` on connections, alerts, cancellations, geo objects, CoT and crashes.

## Runs

| run | question | instance | result |
|---|---|---|---|
| `CotService_safety` | do the client tables, sockets, IAM and streams stay consistent, and is every step one of `Sessions`? | 2 uids, 2 connections, 2 events each, 2 listen jobs, 1 reset, SSL, symmetry | passes |
| `CotService_live` | is a gone client removed, a waiting one accepted, can sharing starve the loop? | 1 uid, 2 connections, share pipe of 1, limit 1 | passes |
| `CotService_stale` | does a disconnection only hit the connection it was read from? | 2 uids, 2 connections | violated |
| `CotDelivery` | delivery before sharing, order, copies, progress | 2 services, 1 source, 2 clients, 2 messages | passes |
| `CotDelivery_once` | does a client get a message once? | 1 message | violated |
| `FtsRelay` | replay, presence | 2 connections, 2 uids (1 WinTAK), 1 point, 2 versions, capacity 2, 2 events | passes |
| `FtsRelay_ghost` | is no presence of an ended connection cached? | as above, 1 event | violated |
| `Supervisor` | books, answers | 2 commands, 3 starts per service, 1 crash | passes |
| `TakApi` | do tables, files, change log and notifications agree? | 2 API services, 2 workers, 20 endpoints, 3 requests, 1 mission, 2 packages (1 zipped), 2 templates, 2 checklists, symmetry | passes |
| `Federation` | do table, selector, sockets and database agree; order; is a gone federate forgotten? | client and server, 1 federation, 2 connections, 1 user, 3 REST requests, 1 message, 2 events, 5 inputs in all | passes |
| `Federation_deaf` | is what a federate sends read? | client, 1 federation, 2 connections, 3 REST requests, 2 events | violated |
| `StandingCot` | are the two files what was asked for, and is a client that connects served? | 1 client, 2 services, 1 emergency, 1 geo object, 1 CoT, 2 workers, 3 stimuli (crashes among them), symmetry | passes |

*Why the bounds are enough.* Two connections with the same uid are a reconnect,
with different uids two clients; a third adds no new pair of steps. Two events
make a read that ends inside the first, after the first, inside the second, and
one that joins both. One reset gives two listen jobs, which is what the pool of
two can hold. With `ShareLimit` 1 and a pipe that is filled again at once the limit is
reached with an item left. With both clients at one service and none at the other, a loop over clients
meets a broken socket before a working one, and the other service shows what
circulates. Capacity 2 is reached, so lagging happens. Three starts per service
are the startup, a restart and another restart, and two commands are enough for
an answer to be taken by the wrong request. Three requests to the TAK API are two
that race and one that made what they race for (a mission and two contents, a package
with two uploads and a deletion, two checklists of one template). Two connections let
one federate come or go while a message is sent to another, and a federation that was
disabled connect again. Three stimuli are an alert, a crash or a cancellation and a
connection in any order, and two workers are two writers or a writer and a reader of one
file; clients do not affect each other, so one is enough for what it must know. Deadlock is not checked: in all the models everything may stop
when the bounds on the environment's inputs are used up, and in `CotService` after
`Stop`.

*Action and temporal properties.* `DisconnectsOnlyTheGone` is an action property: it
says what one step may not do, so its violation does not depend on fairness.
`ImplementsSessions` is the safety part of a refinement. `DataIsReceived` is violated
under weak fairness of both threads: a thread that has ended has no step to take.

## Findings

1. `CotService_stale`: the reception pass reports a disconnection by uid; if the
   client reconnects before the main loop handles it, the new socket is closed
   (`ClientReceptionHandler.py:63`, whose comment says changes to the array have no
   severe effects).
2. `CotDelivery_once`: `send_message` ignores `use_share_pipe`, so a shared
   message goes back to the core and circulates between the CoT services
   (`tcp_cot_service_main.py:408`).
3. `FtsRelay_ghost`: a read or write error skips the cleanup (`main.rs:1120`), against
   `epoch.md:98`.
4. `Federation_deaf`: a federation that is disabled while an event of it is read ends
   the receiving thread of the federation client (`FederationClientService.py:323`).

Other faults are part of the models without a run of their own:

* `send_to_all` ends at the first socket that fails (`SendDataController.py:182`;
  `Reached` in `CotDelivery`), and `send_to_specific_client` reads `m_presence` of a
  client information, which has none, so it sends to nobody (`SendDataController.py:114`;
  `Targets`).
* `start_ssl_cot_service` overwrites `self.CoTService` (`FTS.py:595`; `Attr` in
  `Supervisor`), so `stop_cot_service` terminates the wrong process.
* A fresh `FTSObj` has the status "stop" for the federation server
  (`FederationServerServiceVariables.py:9`), so a command for any other service stops it.
* `update_checklist_task` reads, changes and writes back the document of the checklist
  without holding anything (`excheck_checklist_controller.py:190`), so of two concurrent
  updates the checklist shows one.
* Of the two requests of `post_emergency` one can find the file that the other has
  truncated, and fails (`emergency_blueprint.py:59`): the clients of that service are
  not told.
* `get_recipients` returns the empty list when no named client is connected, against its
  docstring, and the CoT service sends that to everybody
  (`cot_management_private_cot_controller.py:46`, `send_component_data_controller.py:29`).

## Fairness

* `CotService`: weak fairness of the main loop, the pool's two kinds of jobs and
  the core's answer. The threads wait with timeouts, except in `accept` (which
  returns when a connection waits) and for the core's answer, and
  `receive_data_froCoT_service_thread` is called again and again by the core.
  There is none for clients: they may send nothing for ever. `Listener` as a whole
  is fair, because the read of a connection event has a timeout, so that a listen
  job that holds a socket always ends.
* `CotDelivery`: `checkPipes` polls every source in each round; each service
  takes from its share pipe in every turn (`LoopTurns` is the reason it gets
  there). Nothing makes a socket break or a source send.
* `FtsRelay`: tokio polls every task that is ready, and the interval timer sends
  every presence entry again. There is none for clients.
* `Supervisor`: the two threads, the command loop and the REST process run;
  crashes and requests are not fair. A start beyond `MaxStarts` cannot happen
  within `MaxCmds` commands, so the bound blocks no thread.
* `Federation`: weak fairness of each thread as a whole; both are endless loops, `select`
  has a timeout and the queue of the core is read with a blocking `get`. One
  assumption goes beyond the code: `accept` performs the TLS handshake and has no
  timeout, so a peer that connects and stays silent would hold the outbound thread of
  the server; in the model the handshake ends, well or not. Nothing makes peers send or
  leave, or the REST API ask.
* `TakApi` and `StandingCot`: none, all their properties are safety properties; those
  about the quiet server hold in every state in which nothing runs and nothing waits.

The liveness run of `CotService` allows no reset: after one, two listen jobs can
hold both workers, and reception waits for the next connection (listed as a
hazard).

## Proofs

`CotService_proofs` and `CotService_refinement` prove, for every set of clients,
connections and listen jobs, every pool size, limit and number of resets that satisfy
`CotAssumption`:

| theorem | states |
|---|---|
| `Invariance` | `Spec => []IInv` |
| `TypeCorrect` | `[]TypeOK` |
| `PassesComplete` | `[]PassFindsItsClients` |
| `QueueIsLive` | `[]RegisteredIsLive` |
| `NoSocketLeaks` | `[]OpenIsAccounted` |
| `AnswersMatch` | `[]OneQuestion` |
| `IamIsTold` | `[]IamAgrees` |
| `EventsOrdered` | `[]EventsInOrder` |
| `Refinement` | `ImplementsSessions` |

`IInv` is the conjunction of these with three facts they need. `PhaseInv`: no
reception job is outstanding exactly while the main loop handles its data; that
is why a disconnection, which happens only then, cannot take a client from under
a pass. `ListenInv`: a listen job holds a socket only while it reads it or has
returned it, the socket is open, no table refers to it and no two jobs share it;
so the socket that `HandleConnection` enters is new, and overwriting an entry
closes no socket another client uses. `NetInv`: nothing is read that has not
arrived, and an unused connection has no server end. `InitInv` shows the base,
`TypeStep`, `PhaseStep`, `PassStep`, `SocketStep` and `NetStep` each one part of
the step; steps that leave the sockets alone are taken together by `QuietStep`.

`CotAssumption` is all that is assumed: the two null values are not clients or
sockets, limits are positive, and there are more slots than resets, so that a
reset always finds a free one.

`EventsOrdered` rests on `EInv`, which adds to `IInv` that what a pass has collected was read
from connections that are or were registered (`BatchInv`) and `StreamInv`: of a connection that was
not registered yet nothing was handed on, a listen job that is done has read exactly what the
events it took are long, no items are left when a pass is submitted, and a pass that runs has
no item of a client it has still to visit. The last is why the events of one
connection follow each other: `VisitedIsAhead` shows that a client is visited when everything
read of it was handed on, `HandleInOrder` that the first item of a connection is the event after the last
that was handed on, and a connection whose stream was cut is reported and never read again.

`IamIsTold` needs one more invariant, `IamInv`: the last request sent to the IAM
component agrees with the table in every state until the service stops. `Refinement`
rests on `RInv`, which is `IInv` with `BatchInv`. `RefinementStep` maps each step to `Begin`, `End`, `Serve`, `Refuse`,
`Shutdown` or a stutter; a registration that overwrites an entry is one `Begin` that
also ends the old connection, and the closing of what a listen job or the connection
controller still held is a `Refuse`.

`StandingCot_proofs` proves, for every number of workers, clients, services and messages
that satisfies `StandingAssumption` (finitely many messages, so that a file has a length)
and `NoReqAssumption`:

| theorem | states |
|---|---|
| `Inductive` | `Spec => []IInv` |
| `TypeCorrect` | `[]TypeOK` |
| `Exact` | `[]StoresAreExact` |
| `ServedInductive` | `[]ServedInv` |
| `Served` | `[]ConnectedIsServed` |

`StoresAreExact` is not inductive: it does not say what a worker that has truncated the
file will write. `WriterInv` does: a store that is not spoiled has at most one writer, its
file is empty while there is one, and the writer holds the dictionary that will have been
asked for when it is done. `StepInv` gives each kind of request its steps, which the types
need. `OpenStep` and `CloseStep` are the two ends of a write, and every step that touches no
file is an instance of `Aside`.

`ConnectedIsServed` speaks of quiet states only; `ServedInv` is what holds in all others. It has
three parts. `ClientInv`: a connected client is registered and answered by the repeater, or the
request for it waits or is at a worker, and its request for the emergencies is there once.
`AloneInv`: while a client without a clash is connecting, no worker handles an alert or a
cancellation and only the client's own request may create the file, which is why its request
cannot raise (`FileReady`). `TellInv`: an alert under way has come to every connected client near it,
is in a response or in a request that will look up its recipients when the client is
registered (this covers the alerts that the REST API makes in two requests, one for each
service), and what the file holds was told or is going to be found by the client's own
request. `ToldStep` and `AskingStep` show that neither promise is lost by a step of a worker.

`CotDelivery_proofs` proves, for every number of messages, sources and clients that
satisfies `DeliveryAssumption`:

| theorem | states |
|---|---|
| `Invariance` | `Spec => []IInv` |
| `TypeCorrect` | `[]TypeOK` |
| `HandedOnWasDelivered` | `[]SharedWasDelivered` |
| `InOrder` | `[]FirstCopiesInOrder` |
| `CopiesStayTwo` | `[]CopiesBounded` |

Copies circulate for ever, so order cannot be read off the pipes alone. `PassedInv`: only
messages that `checkPipes` took from their source have copies. `ArrivedInv`: every such
message is in the pipe to each service or was handled by it. `PipeInv`: before
any copy of a message in a pipe there is a copy of each earlier message of that source,
unless the service has handled one. Copies are counted as places of the pipes, by cardinality; that
they stay two needs that there are two services (with three each copy would become two).

`Supervisor_proofs` proves, for every number of commands, starts and crashes:

| theorem | states |
|---|---|
| `Invariance` | `Spec => []IInv` |
| `TypeCorrect` | `[]TypeOK` |
| `FederationHeld` | `[]FederationIsHeld` |
| `SidesAgree` | `[]BothSides` |
| `AnswersMatch` | `[]NoStaleAnswer` |

`CmdInv` and `StartInv` say what the two threads run: the main thread `start_all` of the
startup, the REST thread that of a command. `FedcInv`: the federation client is started
once, by the startup, so its handle is never overwritten. `FedsInv`: when the REST thread,
the only one that does, is about to start the federation server, none is alive. `StrayInv` and
`AnswerInv`: of the request of the REST process, the command in the pipe, the running
`start_all` and its answer exactly one is outstanding, as long as no federation command came
before there was a federation client (the exception `stray` records).

`FtsRelay_proofs` proves, for every number of connections, points, versions and every
capacity that satisfies `RelayAssumption`:

| theorem | states |
|---|---|
| `Invariance` | `Spec => []IInv` |
| `TypeCorrect` | `[]TypeOK` |
| `PointsFollowed` | `[]PointsConverge` |

`PointsConverge` speaks of clients whose replay is over. `ChanInv` says what holds before:
if the channel brings anything about a point, the last of it is the cached version, already
before the replay. `ShownInv`: when it brings nothing more, the client shows that version.
`KnownInv`: a point that is not cached was never sent to anybody. `TaskInv`: the point a task
is handling is one its client drew. `QuietInv`: nothing is queued for a client that is not
there.

`Federation_proofs` proves, for both kinds of process and every number of federations,
connections, users and inputs:

| theorem | states |
|---|---|
| `Invariance` | `Spec => []IInv` |
| `TypeCorrect` | `[]TypeOK` |
| `FederatesWatched` | `[]FederatesAreWatched` |
| `TablesAgree` | `[]ServerTablesAgree` |
| `InOrder` | `[]DeliveredInOrder` |

The properties speak of threads at rest; the invariant says what they are in the middle of.
`OwnerInv`: a socket is claimed, in the table, in the selector or by a thread, for one id
only. `SetupInv`: a thread that sets up a connection is alone with its socket. `RaceInv`: when both
threads disconnect the same federate and leave the table and the selector apart, one of them is
still going to delete what is left. `ServerInv` gives, for each place of the server's outbound
thread, how far its three tables are apart, `ClientInv` says that the client accepts nobody.
`SendInv`: the numbers of the messages sent are below that of the one being sent, and that below
the ones waiting; `FreshInv`: a new socket, which joins at the end of the table, has got
none. `EventInv`: what was forwarded came before what was read, and that before
what is in the buffers of the sockets.

`TakApi_proofs` proves, for every number of API services, workers, missions, packages,
templates, checklists, tasks and requests, and every list of hashes and of missions in them, that
satisfies `TakApiAssumption` and `DocAssumption`:

| theorem | states |
|---|---|
| `InvariantHolds` | `Spec => []TakApiInv` |
| `TypeCorrect` | `[]TypeOK` |
| `MissionsAreCreatedOnce` | `[]CreatedOnce` |
| `RecordsStayBacked` | `[]RecordsAreBacked` |
| `NothingGoesUnrecorded` | `[]RecordedWhenQuiet` |
| `CotsStayResolvable` | `[]MissionCotsResolve` |
| `DocumentsStayComplete` | `[]DocumentsComplete` |
| `FilesCanBeFound` | `[]NoOrphanFiles` |

None of these is inductive: what the tables will hold is in the programs that the processes
are in the middle of and in the jobs that wait. `TakApiInv` says what those may be.

* `TypeInv` gives each statement and each request its fields (`Statement`, `Request`), so
  that stacks are sequences of sequences of statements.
* `ReadyInv` is the reason for most of the rest. `World` collects what never becomes false
  again: tasks that have their row and document, checklist documents, stored CoT, what the
  missions hold. Each
  statement that waits anywhere in a stack, and each job of the queue, is `Ready`: what it
  relies on is true in the world, or an earlier statement of the same program makes it so, or
  the head of the program it has called does. The last is why the row of a task may
  wait below the call that saves its document. `Grows` shows that a step of another process
  takes nothing of this away, and `StoresRight` that what is in the tables was ready when it
  came there: this yields `RecordsAreBacked`, `MissionCotsResolve` and `DocumentsComplete`.
* `ShapeInv`: what directly follows what in a program (`Follows`); after
  `update_mission`, `create_cot` and `add_external_data` comes the record of that change, after
  `save_file` comes `create_row`, and `delete_row` comes only directly after `delete_file`.
* `CreateInv`: a program that has committed a mission owes its record (`Owes`); for a mission
  that has no record yet at most one program does, and for one that has, none. `CreatedOnce` needs
  this because the record comes three statements after the row.
* `RecordInv`: a content that is linked, a CoT or an external datum is recorded, or some
  process is at exactly that record (`AtRecord`). Such a process cannot raise before it.
* `CountInv`: of every object, the rows and the processes about to add one are at least as many as
  the processes about to delete one, and more when its file is there. It is a statement
  about cardinalities, and the reason for the assumption that the processes, and the
  templates stored at the start, are finitely many.

Every step of a process is a raise, a call, an unfolding (of a loop, a query or a read document) or
the execution of a statement (`Rise`, `Enter`, `Unfold`, `Execute`), so that the invariants of programs
are shown once for each of these four and not for each of the forty statements; the
statements count again for the tables they change (`Effect`). That the programs of the endpoints
and the controllers are ready and have their shape when they begin (`Fresh`, `Code`) is one lemma for each. The parts of
`TakApiInv` were model-checked on the instance of the run before they were proved. Two things that the proof needed
are stated in the model: the documents of checklists are no packages or templates
(`DocAssumption`; they are other XML documents), and drawn uids are new.

Every invariant that a passing run checks is proved, and so is the refinement. Only model-checked: the
liveness properties, which are beyond the proof system's backends. The four properties that the code
does not have are refuted by TLC.

## What is left out

The content of CoT events, XML, JSON and protobuf, except where they decide a guard;
logging, tracing and counters; service ports; certificates. Of the TAK API the
queries, keywords and geofences; of the REST API the endpoints that turn JSON into a
CoT object or make one database call. `mission_api_controller.py` and parts of
`enterprise_sync_general_controller.py` are stubs. The HTTP side of `fts-rs` is one SQL
statement per handler. `stop_federation_client_service` is not part of `Supervisor`
because no command asks for it. A client that connects and never reads, so that a
write blocks for ever, is not modelled in `FtsRelay`.

Not modelled at all: the report, track manager and chat components, which keep a row
per message; `components/extended/repeater`, a generated skeleton that no action mapping
names; the legacy orchestrator and
the code around it (`core/services/Orchestrator.py`, `core/SpecificCoTControllers`,
`core/services/RestAPI.py`), which `FTS.py` no longer starts; domain classes and
generated code (`core/domain`, `model/protobufModel`, enumerations), which are most of
the repository's lines and hold data only. `PROJECT.json` has the reason for each
component.

## Plan

`CotService` with its proofs and its refinement of `Sessions`; `CotDelivery`, `FtsRelay`,
`Supervisor`, `Federation`, `StandingCot` and `TakApi` (with `Mission`, `ExCheck` and
`EnterpriseSync`) with their proofs are done.

Next would be the chat, report and track manager components, as programs of `TakApi`, and an
abstract specification of the change log that `TakApi` implements.
