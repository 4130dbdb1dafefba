----------------------------- MODULE Supervisor -----------------------------
(***************************************************************************)
(* The FTS core as supervisor of its services (controllers/services/FTS):  *)
(* start_all stops, starts and restarts the service processes and keeps    *)
(* the books about them: process handles, pipeList, the sources and the    *)
(* receivers of the FilterGroup.  It runs in the main thread at startup    *)
(* and in the thread that serves the commands of the REST API, which is up *)
(* before.  The REST process sends its commands over one pair of queues,   *)
(* one at a time (its eventlet hub blocks on the answer).                  *)
(*                                                                         *)
(* Ports stay as configured.  stop_federation_client_service is not part   *)
(* of the model: no command ever asks for it.                              *)
(***************************************************************************)
EXTENDS Naturals, Sequences, FiniteSets

CONSTANTS
    Ip,          \* addresses of the data package services
    DefaultIp,   \* DataPackageServiceDefaultIP
    Asks,        \* what REST commands ask for: <<service, status, address>>
    MaxStarts,   \* bound on the starts of each service
    MaxCmds,     \* bound on the commands of the REST process
    MaxCrashes,  \* bound on the processes that die by themselves
    NoProc

Order == <<"tcpdp", "ssldp", "tcpcot", "sslcot", "fedc", "feds">>
Service == {Order[i] : i \in DOMAIN Order}
Status == {"start", "stop", ""}
Proc == [svc : Service, n : 1 .. MaxStarts]

ASSUME SupervisorAssumption ==
    /\ DefaultIp \in Ip
    /\ Asks \subseteq (Service \ {"fedc"}) \X {"start", "stop"} \X Ip
    /\ MaxStarts \in Nat \ {0} /\ MaxCmds \in Nat /\ MaxCrashes \in Nat
    /\ NoProc \notin Proc

\* Both CoT services are kept in self.CoTService, and the two data package
\* services have the same value in ServiceTypes.
Attr(s) == IF s \in {"tcpcot", "sslcot"} THEN "cot" ELSE s
Name(s) == IF s \in {"tcpdp", "ssldp"} THEN "dp" ELSE s
Attrs == {Attr(s) : s \in Service}
Names == {Name(s) : s \in Service}
Federation == {"fedc", "feds"}
Receiver == {"tcpcot", "sslcot"} \cup Federation

\* The argument of start_all: a fresh FTSObj, in which only the federation
\* server has a status, and what startup or changeStatus put into it.
Cmd == [status : [Service -> Status], ip : Ip]
Blank == [s \in Service |-> IF s = "feds" THEN "stop" ELSE ""]
StartupCmd ==
    [status |-> [s \in Service |-> IF s = "feds" THEN "stop" ELSE "start"], ip |-> DefaultIp]
RestCmds == {[status |-> [Blank EXCEPT ![a[1]] = a[2]], ip |-> a[3]] : a \in Asks}

VARIABLES
    alive,      \* the processes that run
    count,      \* how often each service was started
    handle,     \* the attribute that holds the process of a service
    pipeList,   \* the services with an entry in pipeList
    sources,    \* FilterGroup.sources: the process whose queue checkPipes reads
    receivers,  \* FilterGroup.receivers
    conf,       \* FTSServiceStartupConfigObject: the status of each service
    confIp,     \* and the address of the TCP data package service
    job,        \* the start_all a thread runs, << >> if none
    commands,   \* RestAPICommandsFTS, to the core
    replies,    \* and back
    rest,       \* what the REST process waits for
    cmds, crashes,
    strays      \* history: answers nobody waits for

bookVars == <<handle, pipeList, sources, receivers>>
confVars == <<conf, confIp>>
restVars == <<commands, replies, rest, cmds, strays>>
vars == <<alive, count, bookVars, confVars, job, restVars, crashes>>

Thread == {"main", "rest"}
Job == [at : 1 .. Len(Order) + 1, stage : {"check", "start"}, cmd : Cmd]
Command == [kind : {"status", "users", "federate"}] \cup [kind : {"start_all"}, cmd : Cmd]

(* The type of every variable.                                             *)
TypeOK ==
    /\ alive \subseteq Proc
    /\ count \in [Service -> 0 .. MaxStarts]
    /\ handle \in [Attrs -> Proc \cup {NoProc}]
    /\ pipeList \subseteq Service
    /\ sources \in [Names -> Proc \cup {NoProc}]
    /\ receivers \in [Receiver -> Proc \cup {NoProc}]
    /\ conf \in [Service -> Status]
    /\ confIp \in Ip
    /\ job \in [Thread -> Job \cup {<<>>}]
    /\ commands \in Seq(Command)
    /\ replies \in Seq({"status", "users", "done", "500"})
    /\ rest \in {"idle", "any", "status"}
    /\ cmds \in 0 .. MaxCmds
    /\ crashes \in 0 .. MaxCrashes
    /\ strays \in 0 .. MaxCmds

\* startup has started the REST service and calls start_all.
Init ==
    /\ alive = {}
    /\ count = [s \in Service |-> 0]
    /\ handle = [a \in Attrs |-> NoProc]
    /\ pipeList = {}
    /\ sources = [n \in Names |-> NoProc]
    /\ receivers = [r \in Receiver |-> NoProc]
    /\ conf = Blank
    /\ confIp = DefaultIp
    /\ job = [t \in Thread |->
                 IF t = "main" THEN [at |-> 1, stage |-> "check", cmd |-> StartupCmd] ELSE <<>>]
    /\ commands = <<>>
    /\ replies = <<>>
    /\ rest = "idle"
    /\ cmds = 0
    /\ crashes = 0
    /\ strays = 0

-----------------------------------------------------------------------------
(* start_all.                                                              *)

Running(s) == handle[Attr(s)] \in alive

\* The thread goes on with the next service, or first starts this one.
NextService(t) == job' = [job EXCEPT ![t].at = @ + 1, ![t].stage = "check"]
ThenStart(t) == job' = [job EXCEPT ![t].stage = "start"]

\* start_all returns; the command thread puts what it returned on its queue.
Finish(t) ==
    /\ job' = [job EXCEPT ![t] = <<>>]
    /\ replies' = IF t = "rest" THEN Append(replies, "done") ELSE replies

\* Faulty: an exception ends the thread.
AbortSilently(t) ==
    /\ job' = [job EXCEPT ![t] = <<>>]
    /\ UNCHANGED replies

\* The exception handler of start_all: the rest of the services is left out.
Abort(t) == Finish(t)

\* stop_tcp_data_package_service and its twin.  The entry in pipeList, then
\* that in sources is deleted; a missing one raises KeyError before the
\* process is terminated.
StopDataPackage(t, s, Then) ==
    \/ /\ s \in pipeList /\ sources["dp"] # NoProc
       /\ pipeList' = pipeList \ {s}
       /\ sources' = [sources EXCEPT !["dp"] = NoProc]
       /\ alive' = alive \ {handle[s]}
       /\ Then
       /\ UNCHANGED <<handle, receivers, replies>>
    \/ /\ ~(s \in pipeList /\ sources["dp"] # NoProc)
       /\ pipeList' = pipeList \ {s}
       /\ Abort(t)
       /\ UNCHANGED <<alive, handle, sources, receivers>>

\* Faulty: the receiver stays.
StopKeepsReceiver(t, s, Then) ==
    /\ alive' = alive \ {handle[Attr(s)]}
    /\ sources' = [sources EXCEPT ![s] = NoProc]
    /\ Then
    /\ UNCHANGED <<handle, pipeList, receivers, replies>>

\* stop_cot_service and stop_federation_server_service: what the attribute
\* holds is terminated, the source and the receiver are removed (a missing
\* source raises before the receiver is).  Exceptions are caught and start_all
\* does not look at the result.
StopProcess(t, s, Then) ==
    /\ IF handle[Attr(s)] = NoProc
       THEN UNCHANGED <<alive, sources, receivers>>
       ELSE /\ alive' = alive \ {handle[Attr(s)]}
            /\ sources' = [sources EXCEPT ![s] = NoProc]
            /\ receivers' = IF sources[s] = NoProc THEN receivers
                            ELSE [receivers EXCEPT ![s] = NoProc]
    /\ Then
    /\ UNCHANGED <<handle, pipeList, replies>>

\* stop_ssl_cot_service fails at once: SSLClientDataPipe is None.
StopService(t, s, Then) ==
    CASE s \in {"tcpdp", "ssldp"} -> StopDataPackage(t, s, Then)
      [] s \in {"tcpcot", "feds"} -> StopProcess(t, s, Then)
      [] s = "sslcot" -> Then /\ UNCHANGED <<alive, bookVars, replies>>

At(t, stage) == job[t] # <<>> /\ job[t].at <= Len(Order) /\ job[t].stage = stage
Svc(t) == Order[job[t].at]
Asked(t) == job[t].cmd.status[Svc(t)]

\* Faulty: a running service is not stopped before it is started.
CheckStartNoStop(t) ==
    /\ At(t, "check") /\ Asked(t) = "start"
    /\ conf' = [conf EXCEPT ![Svc(t)] = "start"]
    /\ ThenStart(t)
    /\ UNCHANGED <<alive, bookVars, replies, confIp, count, commands, rest, cmds, crashes, strays>>

\* "start": a service whose process runs is stopped first.  The attribute
\* SSLCoTService holds a queue manager, never a process.
CheckStart(t) ==
    /\ At(t, "check") /\ Asked(t) = "start"
    /\ conf' = [conf EXCEPT ![Svc(t)] = "start"]
    /\ IF Running(Svc(t)) /\ Svc(t) # "sslcot"
       THEN StopService(t, Svc(t), ThenStart(t))
       ELSE ThenStart(t) /\ UNCHANGED <<alive, bookVars, replies>>
    /\ UNCHANGED <<confIp, count, commands, rest, cmds, crashes, strays>>

\* "stop"; a federation server that is stopped already is left alone.
CheckStop(t) ==
    /\ At(t, "check") /\ Asked(t) = "stop"
    /\ conf' = [conf EXCEPT ![Svc(t)] = "stop"]
    /\ IF Svc(t) = "feds" /\ conf["feds"] = "stop"
       THEN NextService(t) /\ UNCHANGED <<alive, bookVars, replies>>
       ELSE StopService(t, Svc(t), NextService(t))
    /\ UNCHANGED <<confIp, count, commands, rest, cmds, crashes, strays>>

\* No status: a new address restarts the data package services.  The SSL one
\* compares its address with that of the TCP one and restarts whenever it was
\* given any status before.
CheckOther(t) ==
    LET s == Svc(t)
        moved == s \in {"tcpdp", "ssldp"} /\ job[t].cmd.ip # confIp
    IN  /\ At(t, "check") /\ Asked(t) = ""
        /\ confIp' = IF s = "tcpdp" THEN job[t].cmd.ip ELSE confIp
        /\ IF moved /\ conf[s] \in (IF s = "tcpdp" THEN {"start"} ELSE {"start", "stop"})
           THEN StopDataPackage(t, s, ThenStart(t))
           ELSE NextService(t) /\ UNCHANGED <<alive, bookVars, replies>>
        /\ UNCHANGED <<conf, count, commands, rest, cmds, crashes, strays>>

\* Faulty: a source is entered under the name of the service itself.
StartServiceOwnName(t) ==
    LET s == Svc(t)
        p == [svc |-> s, n |-> count[s] + 1]
    IN  /\ At(t, "start")
        /\ count[s] < MaxStarts
        /\ count' = [count EXCEPT ![s] = @ + 1]
        /\ alive' = alive \cup {p}
        /\ handle' = [handle EXCEPT ![Attr(s)] = p]
        /\ pipeList' = pipeList \cup {s}
        /\ sources' = [n \in Names \cup {s} |-> IF n = s THEN p ELSE sources[n]]
        /\ receivers' = [r \in Receiver |-> IF r = s THEN p ELSE receivers[r]]
        /\ confIp' = IF s = "tcpdp" THEN job[t].cmd.ip ELSE confIp
        /\ NextService(t)
        /\ UNCHANGED <<conf, restVars, crashes>>

\* start_*_service: new queues, a new process, and its entries.
StartService(t) ==
    LET s == Svc(t)
        p == [svc |-> s, n |-> count[s] + 1]
    IN  /\ At(t, "start")
        /\ count[s] < MaxStarts
        /\ count' = [count EXCEPT ![s] = @ + 1]
        /\ alive' = alive \cup {p}
        /\ handle' = [handle EXCEPT ![Attr(s)] = p]
        /\ pipeList' = pipeList \cup {s}
        /\ sources' = [sources EXCEPT ![Name(s)] = p]
        /\ receivers' = [r \in Receiver |-> IF r = s THEN p ELSE receivers[r]]
        /\ confIp' = IF s = "tcpdp" THEN job[t].cmd.ip ELSE confIp
        /\ NextService(t)
        /\ UNCHANGED <<conf, restVars, crashes>>

StartAllReturns(t) ==
    /\ job[t] # <<>> /\ job[t].at > Len(Order)
    /\ Finish(t)
    /\ UNCHANGED <<alive, count, bookVars, confVars, commands, rest, cmds, crashes, strays>>

\* A process dies, for instance because its port is taken.
Crash(p) ==
    /\ p \in alive /\ crashes < MaxCrashes
    /\ alive' = alive \ {p}
    /\ crashes' = crashes + 1
    /\ UNCHANGED <<count, bookVars, confVars, job, restVars>>

-----------------------------------------------------------------------------
(* The REST process and receive_Rest_commands.                             *)

\* /checkStatus, /Clients and changeStatus take the next answer, getStatus the
\* next one that is a status; a federation command waits for none.
Request(c, wait) ==
    /\ rest = "idle" /\ cmds < MaxCmds
    /\ cmds' = cmds + 1
    /\ commands' = Append(commands, c)
    /\ rest' = wait
    /\ UNCHANGED <<alive, count, bookVars, confVars, job, replies, crashes, strays>>

TakeReply ==
    /\ rest # "idle" /\ replies # <<>>
    /\ replies' = Tail(replies)
    /\ rest' = IF rest = "any" \/ Head(replies) = "status" THEN "idle" ELSE rest
    /\ UNCHANGED <<alive, count, bookVars, confVars, job, commands, cmds, crashes, strays>>

\* Faulty: a federation command is answered as well.
CommandAnswersAll ==
    /\ job["rest"] = <<>> /\ commands # <<>>
    /\ commands' = Tail(commands)
    /\ LET c == Head(commands) IN
       /\ job' = IF c.kind = "start_all"
                 THEN [job EXCEPT !["rest"] = [at |-> 1, stage |-> "check", cmd |-> c.cmd]]
                 ELSE job
       /\ replies' = CASE c.kind = "start_all" -> replies
                       [] c.kind = "federate" -> Append(replies, "done")
                       [] OTHER -> Append(replies, c.kind)
    /\ UNCHANGED <<alive, count, bookVars, confVars, rest, cmds, crashes, strays>>

\* A federation command is handed to the federation client.  Before that has
\* been started there is no pipe to it: the exception handler answers "500".
TakeCommand ==
    /\ job["rest"] = <<>> /\ commands # <<>>
    /\ commands' = Tail(commands)
    /\ LET c == Head(commands)
           lost == c.kind = "federate" /\ count["fedc"] = 0
       IN  /\ job' = IF c.kind = "start_all"
                     THEN [job EXCEPT !["rest"] = [at |-> 1, stage |-> "check", cmd |-> c.cmd]]
                     ELSE job
           /\ replies' = CASE c.kind \in {"status", "users"} -> Append(replies, c.kind)
                           [] lost -> Append(replies, "500")
                           [] OTHER -> replies
           /\ strays' = IF lost THEN strays + 1 ELSE strays
    /\ UNCHANGED <<alive, count, bookVars, confVars, rest, cmds, crashes>>

-----------------------------------------------------------------------------
StartAll(t) ==
    \/ CheckStart(t)
    \/ CheckStop(t)
    \/ CheckOther(t)
    \/ StartService(t)
    \/ StartAllReturns(t)

Requests ==
    \/ \E c \in RestCmds : Request([kind |-> "start_all", cmd |-> c], "any")
    \/ \E k \in {"status", "users"} : Request([kind |-> k], "any")
    \/ Request([kind |-> "status"], "status")
    \/ Request([kind |-> "federate"], "idle")

Next ==
    \/ \E t \in Thread : StartAll(t)
    \/ TakeCommand
    \/ TakeReply
    \/ Requests
    \/ \E p \in Proc : Crash(p)

Spec == Init /\ [][Next]_vars

\* The threads of the core and the REST process run.
Fairness ==
    /\ \A t \in Thread : WF_vars(StartAll(t))
    /\ WF_vars(TakeCommand)
    /\ WF_vars(TakeReply)

FairSpec == Spec /\ Fairness

-----------------------------------------------------------------------------
(* However the two threads interleave and whatever dies, a federation      *)
(* process that runs is the one its attribute holds, and messages go to    *)
(* and come from its queues: none is orphaned and none runs twice.         *)
FederationIsHeld ==
    \A p \in alive : p.svc \in Federation =>
        handle[p.svc] = p /\ sources[p.svc] = p /\ receivers[p.svc] = p

(* A service is sent messages exactly when its own are read, and by the    *)
(* same process: no start or stop, also one that fails half way, registers *)
(* a service on one side only.                                             *)
BothSides == \A r \in Receiver : sources[r] = receivers[r]

(* While the REST process waits for nothing, no answer is under way that   *)
(* its next request would take for its own, unless a federation command    *)
(* came before there was a federation client.                              *)
NoStaleAnswer ==
    (rest = "idle" /\ strays = 0) =>
        /\ replies = <<>>
        /\ job["rest"] = <<>>
        /\ \A i \in DOMAIN commands : commands[i].kind = "federate"

(* Every request of the REST process is answered, also when start_all      *)
(* breaks off, so its hub does not block for ever.                         *)
RequestIsAnswered == (rest # "idle") ~> (rest = "idle")

=============================================================================
