-------------------------- MODULE Supervisor_proofs --------------------------
(***************************************************************************)
(* Proofs about the books of the FTS core and its answers to the REST API, *)
(* for any number of commands, starts and crashes.                         *)
(***************************************************************************)
EXTENDS Supervisor, SequenceTheorems, TLAPS

\* The main thread runs the startup command and the command thread what the REST
\* process asked for, so no thread stops the federation client, and only the
\* command thread starts the federation server.
CmdInv ==
    /\ job["main"] # <<>> => job["main"].cmd = StartupCmd
    /\ job["rest"] # <<>> => job["rest"].cmd \in RestCmds
    /\ \A i \in DOMAIN commands :
        commands[i].kind = "start_all" => commands[i].cmd \in RestCmds

\* A thread is about to start a service only when it was asked to, or when it
\* restarts a data package service.
StartInv ==
    \A t \in Thread :
        At(t, "start") => Asked(t) = "start" \/ Svc(t) \in {"tcpdp", "ssldp"}

\* The federation client is started once, by the startup.
FedcInv ==
    /\ \A p \in alive : p.n <= count[p.svc]
    /\ job["main"] # <<>> /\ job["main"].at <= 5 =>
        count["fedc"] = 0 /\ handle["fedc"] = NoProc

\* When the command thread is about to start the federation server, none runs.
FedsInv == At("rest", "start") /\ Svc("rest") = "feds" => \A p \in alive : p.svc # "feds"

\* Federation commands are the only ones that wait for no answer.
Asking(i) == commands[i].kind # "federate"

\* Every command is counted, and so is every answer to one that nobody waits for.
StrayInv == strays + Len(commands) <= cmds

\* Unless such an answer was given, the REST process waits for exactly one
\* thing: an answer, a running start_all or the last command it sent.
AnswerInv ==
    strays = 0 =>
        \/ /\ rest = "idle"
           /\ replies = <<>> /\ job["rest"] = <<>>
           /\ \A i \in DOMAIN commands : ~Asking(i)
        \/ /\ rest # "idle"
           /\ Len(replies) = 1 /\ job["rest"] = <<>>
           /\ rest = "status" => replies[1] = "status"
           /\ \A i \in DOMAIN commands : ~Asking(i)
        \/ /\ rest = "any"
           /\ replies = <<>> /\ job["rest"] # <<>>
           /\ \A i \in DOMAIN commands : ~Asking(i)
        \/ /\ rest # "idle"
           /\ replies = <<>> /\ job["rest"] = <<>>
           /\ commands # <<>>
           /\ \A i \in DOMAIN commands : Asking(i) <=> i = Len(commands)
           /\ rest = "status" => commands[Len(commands)].kind = "status"

IInv ==
    /\ TypeOK /\ CmdInv /\ StartInv
    /\ FedcInv /\ FedsInv /\ FederationIsHeld /\ BothSides
    /\ StrayInv /\ AnswerInv

-----------------------------------------------------------------------------
(* The services, their attributes and their names, listed.                 *)
LEMMA Lists ==
    /\ Len(Order) = 6 /\ DOMAIN Order = 1 .. 6
    /\ Order[1] = "tcpdp" /\ Order[2] = "ssldp" /\ Order[3] = "tcpcot"
    /\ Order[4] = "sslcot" /\ Order[5] = "fedc" /\ Order[6] = "feds"
    /\ Service = {"tcpdp", "ssldp", "tcpcot", "sslcot", "fedc", "feds"}
    /\ Attrs = {"tcpdp", "ssldp", "cot", "fedc", "feds"}
    /\ Names = {"dp", "tcpcot", "sslcot", "fedc", "feds"}
    /\ Receiver = {"tcpcot", "sslcot", "fedc", "feds"}
<1>1. /\ Len(Order) = 6 /\ DOMAIN Order = 1 .. 6
      /\ Order[1] = "tcpdp" /\ Order[2] = "ssldp" /\ Order[3] = "tcpcot"
      /\ Order[4] = "sslcot" /\ Order[5] = "fedc" /\ Order[6] = "feds"
  BY DEF Order
<1>2. 1 .. 6 = {1, 2, 3, 4, 5, 6}
  OBVIOUS
<1>3. Service = {"tcpdp", "ssldp", "tcpcot", "sslcot", "fedc", "feds"}
  BY <1>1, <1>2 DEF Service
<1>4. Attrs = {"tcpdp", "ssldp", "cot", "fedc", "feds"}
  BY <1>3 DEF Attrs, Attr
<1>5. Names = {"dp", "tcpcot", "sslcot", "fedc", "feds"}
  BY <1>3 DEF Names, Name
<1> QED
  BY <1>1, <1>3, <1>4, <1>5 DEF Receiver, Federation

(* A job is a record and not the empty tuple.                              *)
LEMMA JobIsNone ==
    ASSUME NEW j \in Job
    PROVE  j # <<>>
<1>1. DOMAIN j = {"at", "stage", "cmd"}
  BY DEF Job
<1>2. DOMAIN <<>> = {}
  OBVIOUS
<1> QED
  BY <1>1, <1>2

(* What a thread that runs start_all is at.                                *)
LEMMA JobType ==
    ASSUME TypeOK, NEW t \in Thread, job[t] # <<>>
    PROVE  /\ job[t] \in Job
           /\ job[t].at \in 1 .. 7 /\ job[t].stage \in {"check", "start"}
           /\ job[t].cmd \in Cmd /\ job[t].cmd.ip \in Ip
           /\ job[t].at <= 6 => Svc(t) \in Service /\ Asked(t) \in Status
<1>1. job[t] \in Job
  BY DEF TypeOK
<1>2. /\ job[t].at \in 1 .. 7 /\ job[t].stage \in {"check", "start"}
      /\ job[t].cmd \in Cmd /\ job[t].cmd.ip \in Ip
      /\ job[t].cmd.status \in [Service -> Status]
  BY <1>1, Lists DEF Job, Cmd
<1>3. job[t].at <= 6 => Svc(t) \in Service
  BY <1>2, Lists DEF Svc, Service
<1> QED
  BY <1>1, <1>2, <1>3 DEF Asked

(* What a command asks of the federation services.                         *)
LEMMA CmdFacts ==
    /\ StartupCmd \in Cmd /\ RestCmds \subseteq Cmd
    /\ StartupCmd.status["feds"] = "stop" /\ StartupCmd.status["fedc"] = "start"
    /\ \A c \in RestCmds : c.status["fedc"] = ""
    /\ Blank \in [Service -> Status]
<1>1. Blank \in [Service -> Status] /\ Blank["fedc"] = ""
  BY Lists DEF Blank, Status
<1>2. StartupCmd \in Cmd
  BY SupervisorAssumption DEF StartupCmd, Cmd, Status
<1>3. StartupCmd.status["feds"] = "stop" /\ StartupCmd.status["fedc"] = "start"
  BY Lists DEF StartupCmd
<1>4. ASSUME NEW c \in RestCmds
      PROVE  c \in Cmd /\ c.status["fedc"] = ""
  <2>1. PICK a \in Asks : c = [status |-> [Blank EXCEPT ![a[1]] = a[2]], ip |-> a[3]]
    BY DEF RestCmds
  <2>2. a[1] \in Service \ {"fedc"} /\ a[2] \in {"start", "stop"} /\ a[3] \in Ip
    BY SupervisorAssumption
  <2>3. [Blank EXCEPT ![a[1]] = a[2]] \in [Service -> Status]
    BY <2>2, <1>1 DEF Status
  <2>4. [Blank EXCEPT ![a[1]] = a[2]]["fedc"] = ""
    BY <2>2, <1>1, Lists
  <2> QED
    BY <2>1, <2>2, <2>3, <2>4 DEF Cmd
<1> QED
  BY <1>1, <1>2, <1>3, <1>4

(* A command becomes a job.                                                *)
LEMMA FirstJob ==
    ASSUME NEW c \in Cmd
    PROVE  [at |-> 1, stage |-> "check", cmd |-> c] \in Job
<1>1. 1 \in 1 .. Len(Order) + 1
  BY Lists
<1> QED
  BY <1>1 DEF Job

(* Init establishes the inductive invariant.                               *)
LEMMA InitInv == Init => IInv
<1> SUFFICES ASSUME Init PROVE IInv
  OBVIOUS
<1> USE DEF Init
<1>1. [at |-> 1, stage |-> "check", cmd |-> StartupCmd] \in Job
  BY CmdFacts, FirstJob
<1>2. TypeOK
  <2>1. job \in [Thread -> Job \cup {<<>>}]
    BY <1>1
  <2>2. commands \in Seq(Command) /\ replies \in Seq({"status", "users", "done", "500"})
    OBVIOUS
  <2>3. 0 \in 0 .. MaxStarts /\ 0 \in 0 .. MaxCmds /\ 0 \in 0 .. MaxCrashes
    BY SupervisorAssumption
  <2>4. conf \in [Service -> Status] /\ confIp \in Ip
    BY CmdFacts, SupervisorAssumption
  <2> QED
    BY <2>1, <2>2, <2>3, <2>4 DEF TypeOK
<1>3. job["main"] = [at |-> 1, stage |-> "check", cmd |-> StartupCmd] /\ job["rest"] = <<>>
  BY DEF Thread
<1>4. CmdInv
  BY <1>3 DEF CmdInv
<1>5. StartInv /\ FedsInv
  BY <1>3 DEF StartInv, FedsInv, At, Thread
<1>6. FedcInv
  BY <1>3, Lists DEF FedcInv
<1>7. FederationIsHeld /\ BothSides
  BY Lists DEF FederationIsHeld, BothSides
<1>8. StrayInv /\ AnswerInv
  BY <1>3, SupervisorAssumption DEF StrayInv, AnswerInv
<1> QED
  BY <1>2, <1>4, <1>5, <1>6, <1>7, <1>8 DEF IInv

-----------------------------------------------------------------------------
(* The steps of start_all.                                                 *)

\* What a check of service s may do to the processes and the books.
StopEffect(s) ==
    /\ alive' \subseteq alive
    /\ handle' = handle
    /\ pipeList' \subseteq pipeList
    /\ \/ sources' = sources /\ receivers' = receivers
       \/ /\ s \in {"tcpdp", "ssldp"}
          /\ sources' = [sources EXCEPT !["dp"] = NoProc] /\ receivers' = receivers
       \/ /\ s \in {"tcpcot", "feds"}
          /\ alive' = alive \ {handle[Attr(s)]}
          /\ sources' = [sources EXCEPT ![s] = NoProc]
          /\ receivers' = [receivers EXCEPT ![s] = NoProc]

\* Where a thread may go from a check.
Moves(t) ==
    \/ NextService(t) /\ UNCHANGED replies
    \/ /\ ThenStart(t) /\ UNCHANGED replies
       /\ Asked(t) = "start" \/ Svc(t) \in {"tcpdp", "ssldp"}
       /\ Svc(t) = "feds" => \A p \in alive' : p.svc # "feds"
    \/ Finish(t)

(* Of the federation server at most the process in its attribute runs.     *)
LEMMA OneServer ==
    ASSUME FederationIsHeld, NEW p \in alive, p.svc = "feds"
    PROVE  p = handle["feds"]
  BY DEF FederationIsHeld, Federation

(* Stopping a data package service.                                        *)
LEMMA StopDataPackageEffect ==
    ASSUME NEW t \in Thread, NEW s \in {"tcpdp", "ssldp"}
    PROVE  /\ StopDataPackage(t, s, NextService(t)) =>
                StopEffect(s) /\ ((NextService(t) /\ UNCHANGED replies) \/ Finish(t))
           /\ StopDataPackage(t, s, ThenStart(t)) =>
                StopEffect(s) /\ ((ThenStart(t) /\ UNCHANGED replies) \/ Finish(t))
  BY DEF StopDataPackage, StopEffect, Abort

(* Stopping the TCP CoT service or the federation server; as the books of  *)
(* the two sides agree, a missing source is a missing receiver.            *)
LEMMA StopProcessEffect ==
    ASSUME TypeOK, BothSides, NEW t \in Thread, NEW s \in {"tcpcot", "feds"}
    PROVE  /\ StopProcess(t, s, NextService(t)) =>
                StopEffect(s) /\ NextService(t) /\ UNCHANGED replies
           /\ StopProcess(t, s, ThenStart(t)) =>
                /\ StopEffect(s) /\ ThenStart(t) /\ UNCHANGED replies
                /\ handle[Attr(s)] # NoProc => alive' = alive \ {handle[Attr(s)]}
<1> DEFINE Stop == /\ alive' = alive \ {handle[Attr(s)]}
                   /\ sources' = [sources EXCEPT ![s] = NoProc]
                   /\ receivers' = IF sources[s] = NoProc THEN receivers
                                   ELSE [receivers EXCEPT ![s] = NoProc]
<1>1. sources[s] = NoProc => receivers = [receivers EXCEPT ![s] = NoProc]
  <2>1. s \in Receiver /\ sources[s] = receivers[s]
    BY Lists DEF BothSides
  <2> QED
    BY <2>1 DEF TypeOK
<1>2. Stop => receivers' = [receivers EXCEPT ![s] = NoProc]
  BY <1>1
<1>3. Stop /\ handle' = handle /\ pipeList' = pipeList => StopEffect(s)
  BY <1>2 DEF StopEffect
<1>4. UNCHANGED <<alive, sources, receivers>> /\ handle' = handle /\ pipeList' = pipeList
      => StopEffect(s)
  BY DEF StopEffect
<1> QED
  BY <1>3, <1>4 DEF StopProcess

(* The three kinds of check.                                               *)
LEMMA CheckEffect ==
    ASSUME IInv, NEW t \in Thread, CheckStart(t) \/ CheckStop(t) \/ CheckOther(t)
    PROVE  /\ At(t, "check") /\ StopEffect(Svc(t)) /\ Moves(t)
           /\ conf' \in [Service -> Status] /\ confIp' \in Ip
           /\ UNCHANGED <<count, commands, rest, cmds, crashes, strays>>
<1> USE DEF IInv
<1>0. job[t] # <<>> /\ job[t].at <= 6 /\ At(t, "check")
  BY Lists DEF CheckStart, CheckStop, CheckOther, At
<1>1. Svc(t) \in Service /\ Asked(t) \in Status /\ job[t].cmd.ip \in Ip
  BY <1>0, JobType
<1>2. UNCHANGED <<alive, bookVars, replies>> => StopEffect(Svc(t)) /\ UNCHANGED replies
  BY DEF StopEffect, bookVars
<1>3. /\ conf' \in [Service -> Status] /\ confIp' \in Ip
      /\ UNCHANGED <<count, commands, rest, cmds, crashes, strays>>
  BY <1>1 DEF CheckStart, CheckStop, CheckOther, TypeOK, Status
<1>4. t = "main" => job[t].cmd = StartupCmd
  BY <1>0 DEF CmdInv
<1>5. t = "rest" => job[t].cmd \in RestCmds
  BY <1>0 DEF CmdInv
<1>6. Svc(t) = "fedc" => (t = "main" => Asked(t) = "start") /\ (t = "rest" => Asked(t) = "")
  BY <1>4, <1>5, CmdFacts DEF Asked
<1>7. CASE CheckStart(t)
  <2>1. CASE Running(Svc(t)) /\ Svc(t) # "sslcot"
    <3>1. StopService(t, Svc(t), ThenStart(t)) /\ Asked(t) = "start"
      BY <1>7, <2>1 DEF CheckStart
    <3>2. Svc(t) # "fedc"
      <4> SUFFICES ASSUME Svc(t) = "fedc" PROVE FALSE
        OBVIOUS
      <4>1. t = "main" /\ job[t].at = 5
        BY <3>1, <1>0, <1>6, JobType, Lists DEF Svc, Thread
      <4>2. handle["fedc"] = NoProc
        BY <4>1, <1>0 DEF FedcInv
      <4> QED
        BY <4>2, <2>1, SupervisorAssumption DEF Running, Attr, TypeOK
    <3>3. CASE Svc(t) \in {"tcpdp", "ssldp"}
      BY <3>1, <3>3, <1>0, <1>3, StopDataPackageEffect DEF StopService, Moves
    <3>4. CASE Svc(t) \in {"tcpcot", "feds"}
      <4>1. StopProcess(t, Svc(t), ThenStart(t))
        BY <3>1, <3>4 DEF StopService
      <4>2. handle[Attr(Svc(t))] # NoProc
        BY <2>1, SupervisorAssumption DEF Running, TypeOK
      <4>3. /\ StopEffect(Svc(t)) /\ ThenStart(t) /\ UNCHANGED replies
            /\ alive' = alive \ {handle[Attr(Svc(t))]}
        BY <4>1, <4>2, <3>4, StopProcessEffect
      <4>4. Svc(t) = "feds" => \A p \in alive' : p.svc # "feds"
        BY <4>3, OneServer DEF Attr
      <4> QED
        BY <4>3, <4>4, <3>1, <1>0, <1>3 DEF Moves
    <3> QED
      BY <3>2, <3>3, <3>4, <1>1, <2>1, Lists
  <2>2. CASE ~(Running(Svc(t)) /\ Svc(t) # "sslcot")
    <3>1. ThenStart(t) /\ UNCHANGED <<alive, bookVars, replies>> /\ Asked(t) = "start"
      BY <1>7, <2>2 DEF CheckStart
    <3>2. Svc(t) = "feds" => \A p \in alive' : p.svc # "feds"
      BY <3>1, <2>2, OneServer DEF Running, Attr
    <3> QED
      BY <3>1, <3>2, <1>0, <1>2, <1>3 DEF Moves
  <2> QED
    BY <2>1, <2>2
<1>8. CASE CheckStop(t)
  <2>0. Svc(t) # "fedc"
    BY <1>6, <1>8 DEF CheckStop, Thread
  <2>1. CASE NextService(t) /\ UNCHANGED <<alive, bookVars, replies>>
    BY <2>1, <1>0, <1>2, <1>3 DEF Moves
  <2>2. CASE StopService(t, Svc(t), NextService(t))
    <3>1. CASE Svc(t) \in {"tcpdp", "ssldp"}
      BY <2>2, <3>1, <1>0, <1>3, StopDataPackageEffect DEF StopService, Moves
    <3>2. CASE Svc(t) \in {"tcpcot", "feds"}
      BY <2>2, <3>2, <1>0, <1>3, StopProcessEffect DEF StopService, Moves
    <3>3. CASE Svc(t) = "sslcot"
      BY <2>2, <3>3, <1>0, <1>2, <1>3 DEF StopService, Moves
    <3> QED
      BY <2>0, <3>1, <3>2, <3>3, <1>1, Lists
  <2> QED
    BY <2>1, <2>2, <1>8 DEF CheckStop
<1>9. CASE CheckOther(t)
  <2>1. CASE NextService(t) /\ UNCHANGED <<alive, bookVars, replies>>
    BY <2>1, <1>0, <1>2, <1>3 DEF Moves
  <2>2. CASE Svc(t) \in {"tcpdp", "ssldp"} /\ StopDataPackage(t, Svc(t), ThenStart(t))
    BY <2>2, <1>0, <1>3, StopDataPackageEffect DEF Moves
  <2> QED
    BY <2>1, <2>2, <1>9 DEF CheckOther
<1> QED
  BY <1>7, <1>8, <1>9

(* The three ways a job goes on.                                           *)
LEMMA JobAfter ==
    ASSUME TypeOK, NEW t \in Thread, job[t] # <<>>, job[t].at <= 6
    PROVE  /\ NextService(t) =>
                /\ job' \in [Thread -> Job \cup {<<>>}] /\ job'[t] \in Job
                /\ job'[t].at = job[t].at + 1 /\ job'[t].stage = "check"
                /\ job'[t].cmd = job[t].cmd
                /\ \A u \in Thread \ {t} : job'[u] = job[u]
           /\ ThenStart(t) =>
                /\ job' \in [Thread -> Job \cup {<<>>}] /\ job'[t] \in Job
                /\ job'[t].at = job[t].at /\ job'[t].stage = "start"
                /\ job'[t].cmd = job[t].cmd
                /\ \A u \in Thread \ {t} : job'[u] = job[u]
<1>1. /\ job[t] \in Job /\ job[t].at \in 1 .. 7
      /\ job[t].stage \in {"check", "start"} /\ job[t].cmd \in Cmd
  BY JobType
<1>2. ASSUME NextService(t)
      PROVE  /\ job' \in [Thread -> Job \cup {<<>>}] /\ job'[t] \in Job
             /\ job'[t].at = job[t].at + 1 /\ job'[t].stage = "check"
             /\ job'[t].cmd = job[t].cmd
             /\ \A u \in Thread \ {t} : job'[u] = job[u]
  <2> DEFINE j == [job[t] EXCEPT !.at = @ + 1, !.stage = "check"]
  <2>0. job[t].at + 1 \in 1 .. Len(Order) + 1
    BY <1>1, Lists
  <2>1. j \in Job /\ j.at = job[t].at + 1 /\ j.stage = "check" /\ j.cmd = job[t].cmd
    BY <1>1, <2>0 DEF Job
  <2>2. job' = [job EXCEPT ![t] = j]
    BY <1>2, <1>1 DEF NextService, TypeOK, Job
  <2> HIDE DEF j
  <2> QED
    BY <2>1, <2>2 DEF TypeOK
<1>3. ASSUME ThenStart(t)
      PROVE  /\ job' \in [Thread -> Job \cup {<<>>}] /\ job'[t] \in Job
             /\ job'[t].at = job[t].at /\ job'[t].stage = "start"
             /\ job'[t].cmd = job[t].cmd
             /\ \A u \in Thread \ {t} : job'[u] = job[u]
  <2> DEFINE j == [job[t] EXCEPT !.stage = "start"]
  <2>1. j \in Job /\ j.at = job[t].at /\ j.stage = "start" /\ j.cmd = job[t].cmd
    BY <1>1, Lists DEF Job
  <2>2. job' = [job EXCEPT ![t] = j]
    BY <1>3, <1>1 DEF ThenStart, TypeOK, Job
  <2> HIDE DEF j
  <2> QED
    BY <2>1, <2>2 DEF TypeOK
<1> QED
  BY <1>2, <1>3

(* The end of a job.                                                       *)
LEMMA FinishAfter ==
    ASSUME TypeOK, NEW t \in Thread, Finish(t)
    PROVE  /\ job' \in [Thread -> Job \cup {<<>>}] /\ job'[t] = <<>>
           /\ \A u \in Thread \ {t} : job'[u] = job[u]
           /\ replies' \in Seq({"status", "users", "done", "500"})
           /\ t = "main" => replies' = replies
           /\ t = "rest" => Len(replies') = Len(replies) + 1
  BY DEF Finish, TypeOK

(* What the invariants about commands and answers need of a step in which  *)
(* the thread t goes on or ends and nothing is sent.                       *)
LEMMA JobStep ==
    ASSUME IInv, NEW t \in Thread, job[t] # <<>>,
           UNCHANGED <<commands, rest, cmds, strays>>,
           \/ /\ job' \in [Thread -> Job \cup {<<>>}] /\ job'[t] \in Job
              /\ job'[t].cmd = job[t].cmd
              /\ \A u \in Thread \ {t} : job'[u] = job[u]
              /\ UNCHANGED replies
           \/ Finish(t)
    PROVE  /\ job' \in [Thread -> Job \cup {<<>>}]
           /\ replies' \in Seq({"status", "users", "done", "500"})
           /\ CmdInv' /\ StrayInv' /\ AnswerInv'
<1> USE DEF IInv
<1>1. job' \in [Thread -> Job \cup {<<>>}] /\ replies' \in Seq({"status", "users", "done", "500"})
  BY FinishAfter DEF TypeOK
<1>2. \A u \in Thread : job'[u] # <<>> => job[u] # <<>> /\ job'[u].cmd = job[u].cmd
  BY FinishAfter
<1>3. CmdInv'
  BY <1>2 DEF CmdInv, Thread
<1>4. StrayInv'
  BY DEF StrayInv
<1>5. AnswerInv'
  <2>1. CASE t = "main"
    <3>1. job'["rest"] = job["rest"] /\ replies' = replies
      BY <2>1, FinishAfter DEF Thread
    <3> QED
      BY <3>1 DEF AnswerInv, Asking
  <2>2. CASE t = "rest"
    <3> SUFFICES ASSUME strays = 0 PROVE AnswerInv'
      BY DEF AnswerInv
    <3>1. /\ rest = "any" /\ replies = <<>>
          /\ \A i \in DOMAIN commands : ~Asking(i)
      BY <2>2 DEF AnswerInv
    <3>2. CASE job'[t] \in Job /\ UNCHANGED replies
      <4>1. job'["rest"] # <<>>
        BY <2>2, <3>2, JobIsNone
      <4> QED
        BY <3>1, <3>2, <4>1 DEF AnswerInv, Asking
    <3>3. CASE Finish(t)
      <4>1. Len(replies') = 1 /\ job'["rest"] = <<>>
        BY <2>2, <3>1, <3>3, FinishAfter
      <4> QED
        BY <3>1, <4>1 DEF AnswerInv, Asking
    <3> QED
      BY <3>2, <3>3
  <2> QED
    BY <2>1, <2>2 DEF Thread
<1> QED
  BY <1>1, <1>3, <1>4, <1>5

(* A check keeps the books.                                                *)
LEMMA CheckStep ==
    ASSUME IInv, NEW t \in Thread, CheckStart(t) \/ CheckStop(t) \/ CheckOther(t)
    PROVE  IInv'
<1> USE DEF IInv
<1>1. /\ At(t, "check") /\ StopEffect(Svc(t)) /\ Moves(t)
      /\ conf' \in [Service -> Status] /\ confIp' \in Ip
      /\ UNCHANGED <<count, commands, rest, cmds, crashes, strays>>
  BY CheckEffect
<1>2. job[t] # <<>> /\ job[t].at <= 6
  BY <1>1, Lists DEF At
<1>3. /\ job' \in [Thread -> Job \cup {<<>>}]
      /\ replies' \in Seq({"status", "users", "done", "500"})
      /\ CmdInv' /\ StrayInv' /\ AnswerInv'
  <2>1. CASE NextService(t) /\ UNCHANGED replies
    BY <2>1, <1>1, <1>2, JobAfter, JobStep
  <2>2. CASE ThenStart(t) /\ UNCHANGED replies
    BY <2>2, <1>1, <1>2, JobAfter, JobStep
  <2>3. CASE Finish(t)
    BY <2>3, <1>1, <1>2, JobStep
  <2> QED
    BY <2>1, <2>2, <2>3, <1>1 DEF Moves
<1>4. TypeOK'
  <2>1. alive' \subseteq Proc /\ pipeList' \subseteq Service /\ handle' = handle
    BY <1>1 DEF TypeOK, StopEffect
  <2>2. /\ sources' \in [Names -> Proc \cup {NoProc}]
        /\ receivers' \in [Receiver -> Proc \cup {NoProc}]
    BY <1>1 DEF TypeOK, StopEffect
  <2> QED
    BY <2>1, <2>2, <1>1, <1>3 DEF TypeOK
<1>5. ASSUME NEW u \in Thread, job'[u] # <<>>
      PROVE  /\ job[u] # <<>> /\ job'[u].at >= job[u].at
             /\ job'[u].cmd = job[u].cmd
             /\ \/ job'[u] = job[u]
                \/ job'[u].stage = "check"
                \/ /\ u = t /\ job'[u].at = job[u].at
                   /\ Asked(t) = "start" \/ Svc(t) \in {"tcpdp", "ssldp"}
                   /\ Svc(t) = "feds" => \A p \in alive' : p.svc # "feds"
  <2>0. job[u].at \in Nat \/ job[u] = <<>>
    BY JobType
  <2>1. CASE NextService(t) /\ UNCHANGED replies
    BY <2>0, <2>1, <1>1, <1>2, <1>5, JobAfter
  <2>2. CASE ThenStart(t) /\ (Asked(t) = "start" \/ Svc(t) \in {"tcpdp", "ssldp"})
             /\ (Svc(t) = "feds" => \A p \in alive' : p.svc # "feds")
    BY <2>0, <2>2, <1>1, <1>2, <1>5, JobAfter
  <2>3. CASE Finish(t)
    BY <2>0, <2>3, <1>5, FinishAfter
  <2> QED
    BY <2>1, <2>2, <2>3, <1>1 DEF Moves
<1>6. StartInv'
  <2> SUFFICES ASSUME NEW u \in Thread, At(u, "start")'
               PROVE  (Asked(u) = "start" \/ Svc(u) \in {"tcpdp", "ssldp"})'
    BY DEF StartInv
  <2>1. job'[u] # <<>> /\ job'[u].at <= 6 /\ job'[u].stage = "start"
    BY Lists DEF At
  <2> QED
    BY <1>5, <2>1, Lists DEF StartInv, At, Asked, Svc
<1>7. FedcInv'
  <2>1. \A p \in alive' : p.n <= count'[p.svc]
    BY <1>1 DEF FedcInv, StopEffect
  <2>2. job'["main"] # <<>> /\ job'["main"].at <= 5 => job["main"] # <<>> /\ job["main"].at <= 5
    <3> SUFFICES ASSUME job'["main"] # <<>>, job'["main"].at <= 5
                 PROVE  job["main"] # <<>> /\ job["main"].at <= 5
      OBVIOUS
    <3>1. job["main"] # <<>> /\ job'["main"].at >= job["main"].at
      BY <1>5 DEF Thread
    <3>2. job["main"].at \in Nat
      BY <3>1, JobType DEF Thread
    <3>3. job'["main"].at \in Nat
      BY <1>3 DEF Thread, Job
    <3> QED
      BY <3>1, <3>2, <3>3
  <2> QED
    BY <1>1, <2>1, <2>2 DEF FedcInv, StopEffect
<1>8. FedsInv'
  <2> SUFFICES ASSUME (At("rest", "start") /\ Svc("rest") = "feds")', NEW p \in alive'
               PROVE  p.svc # "feds"
    BY DEF FedsInv
  <2>1. job'["rest"] # <<>> /\ job'["rest"].at <= 6 /\ job'["rest"].stage = "start"
    BY Lists DEF At
  <2>2. p \in alive
    BY <1>1 DEF StopEffect
  <2> QED
    BY <1>5, <2>1, <2>2, Lists DEF FedsInv, At, Svc, Thread
<1>9. FederationIsHeld'
  <2> SUFFICES ASSUME NEW p \in alive', p.svc \in Federation
               PROVE  handle'[p.svc] = p /\ sources'[p.svc] = p /\ receivers'[p.svc] = p
    BY DEF FederationIsHeld
  <2>1. p \in alive /\ handle[p.svc] = p /\ sources[p.svc] = p /\ receivers[p.svc] = p
    BY <1>1 DEF FederationIsHeld, StopEffect
  <2>2. p.svc \in Names /\ p.svc \in Receiver /\ p.svc # "dp" /\ p.svc # "tcpcot"
    BY Lists DEF Federation
  <2>3. CASE sources' = sources /\ receivers' = receivers
    BY <2>1, <2>3, <1>1 DEF StopEffect
  <2>4. CASE sources' = [sources EXCEPT !["dp"] = NoProc] /\ receivers' = receivers
    BY <2>1, <2>2, <2>4, <1>1 DEF StopEffect, TypeOK
  <2>5. CASE /\ Svc(t) \in {"tcpcot", "feds"}
             /\ alive' = alive \ {handle[Attr(Svc(t))]}
             /\ sources' = [sources EXCEPT ![Svc(t)] = NoProc]
             /\ receivers' = [receivers EXCEPT ![Svc(t)] = NoProc]
    <3>1. p.svc # Svc(t)
      BY <2>1, <2>2, <2>5 DEF Attr
    <3> QED
      BY <2>1, <2>2, <2>5, <3>1, <1>1 DEF StopEffect, TypeOK
  <2> QED
    BY <2>3, <2>4, <2>5, <1>1 DEF StopEffect
<1>10. BothSides'
  <2> SUFFICES ASSUME NEW r \in Receiver PROVE sources'[r] = receivers'[r]
    BY DEF BothSides
  <2>1. sources[r] = receivers[r] /\ r \in Names /\ r # "dp"
    BY Lists DEF BothSides
  <2>2. Svc(t) \in {"tcpcot", "feds"} => Svc(t) \in Names /\ Svc(t) \in Receiver
    BY Lists
  <2> QED
    BY <2>1, <2>2, <1>1 DEF StopEffect, TypeOK
<1> QED
  BY <1>3, <1>4, <1>6, <1>7, <1>8, <1>9, <1>10

(* Starting a service: no other process of a federation service runs then. *)
LEMMA StartStep ==
    ASSUME IInv, NEW t \in Thread, StartService(t)
    PROVE  IInv'
<1> USE DEF IInv
<1> DEFINE s == Svc(t)
           p == [svc |-> s, n |-> count[s] + 1]
<1>1. At(t, "start") /\ job[t] # <<>> /\ job[t].at <= 6 /\ NextService(t)
  BY Lists DEF StartService, At
<1>2. s \in Service /\ Attr(s) \in Attrs /\ Name(s) \in Names /\ job[t].cmd.ip \in Ip
  BY <1>1, JobType DEF Attrs, Names
<1>3. p \in Proc /\ p.svc = s /\ p.n = count[s] + 1 /\ count[s] + 1 \in 0 .. MaxStarts
  BY <1>2, SupervisorAssumption DEF StartService, Proc, TypeOK
<1>4. /\ count' = [count EXCEPT ![s] = count[s] + 1] /\ alive' = alive \cup {p}
      /\ handle' = [handle EXCEPT ![Attr(s)] = p] /\ pipeList' = pipeList \cup {s}
      /\ sources' = [sources EXCEPT ![Name(s)] = p]
      /\ receivers' = [r \in Receiver |-> IF r = s THEN p ELSE receivers[r]]
      /\ confIp' \in {confIp, job[t].cmd.ip}
      /\ UNCHANGED <<conf, commands, replies, rest, cmds, strays, crashes>>
  BY DEF StartService, restVars
<1>5. /\ job' \in [Thread -> Job \cup {<<>>}] /\ job'[t] \in Job
      /\ job'[t].at = job[t].at + 1 /\ job'[t].stage = "check"
      /\ job'[t].cmd = job[t].cmd
      /\ \A u \in Thread \ {t} : job'[u] = job[u]
  BY <1>1, JobAfter
<1>6. CmdInv' /\ StrayInv' /\ AnswerInv'
  BY <1>1, <1>4, <1>5, JobStep
<1> HIDE DEF s, p
<1>7. TypeOK'
  <2>1. /\ alive' \subseteq Proc /\ pipeList' \subseteq Service
        /\ count' \in [Service -> 0 .. MaxStarts]
        /\ handle' \in [Attrs -> Proc \cup {NoProc}]
    BY <1>2, <1>3, <1>4 DEF TypeOK
  <2>2. /\ sources' \in [Names -> Proc \cup {NoProc}]
        /\ receivers' \in [Receiver -> Proc \cup {NoProc}]
    BY <1>2, <1>3, <1>4 DEF TypeOK
  <2> QED
    BY <2>1, <2>2, <1>2, <1>4, <1>5 DEF TypeOK
<1>8. ASSUME NEW u \in Thread, At(u, "start")'
      PROVE  u # t /\ job'[u] = job[u] /\ At(u, "start")
  BY <1>5, <1>8 DEF At
<1>9. StartInv'
  BY <1>8 DEF StartInv, Asked, Svc
<1>10. s = "feds" => t = "rest" /\ \A q \in alive : q.svc # "feds"
  <2> SUFFICES ASSUME s = "feds" PROVE t = "rest" /\ \A q \in alive : q.svc # "feds"
    OBVIOUS
  <2>1. job[t].cmd.status["feds"] = "start"
    BY <1>1 DEF StartInv, Asked, s
  <2>2. t = "rest"
    BY <2>1, <1>1, CmdFacts DEF CmdInv, Thread
  <2> QED
    BY <2>2, <1>1 DEF FedsInv, s
<1>11. s = "fedc" => t = "main" /\ job["main"].at = 5 /\ count["fedc"] = 0
                     /\ \A q \in alive : q.svc # "fedc"
  <2> SUFFICES ASSUME s = "fedc"
               PROVE  t = "main" /\ job["main"].at = 5 /\ count["fedc"] = 0
                      /\ \A q \in alive : q.svc # "fedc"
    OBVIOUS
  <2>1. job[t].cmd.status["fedc"] = "start"
    BY <1>1 DEF StartInv, Asked, s
  <2>2. t = "main"
    BY <2>1, <1>1, CmdFacts DEF CmdInv, Thread
  <2>3. job["main"].at = 5
    BY <2>2, <1>1, JobType, Lists DEF Svc, s
  <2>4. count["fedc"] = 0
    BY <2>2, <2>3, <1>1 DEF FedcInv
  <2>5. ASSUME NEW q \in alive, q.svc = "fedc" PROVE FALSE
    <3>1. q.n \in Nat \ {0} /\ q.n <= 0
      BY <2>4, <2>5, SupervisorAssumption DEF FedcInv, TypeOK, Proc
    <3> QED
      BY <3>1
  <2> QED
    BY <2>2, <2>3, <2>4, <2>5
<1>12. FedcInv'
  <2>1. \A q \in alive' : q.n <= count'[q.svc]
    <3> SUFFICES ASSUME NEW q \in alive' PROVE q.n <= count'[q.svc]
      OBVIOUS
    <3>1. q \in Proc /\ q.n \in Nat /\ q.svc \in Service
      BY <1>7, SupervisorAssumption DEF TypeOK, Proc
    <3>2. count[q.svc] \in Nat /\ count'[q.svc] = IF q.svc = s THEN count[q.svc] + 1 ELSE count[q.svc]
      BY <3>1, <1>4, SupervisorAssumption DEF TypeOK
    <3>3. CASE q \in alive
      BY <3>1, <3>2, <3>3 DEF FedcInv
    <3>4. CASE q = p
      BY <3>2, <3>4, <1>3
    <3> QED
      BY <3>3, <3>4, <1>4
  <2>2. ASSUME job'["main"] # <<>>, job'["main"].at <= 5
        PROVE  job["main"] # <<>> /\ job["main"].at <= 5 /\ s # "fedc"
    <3>1. job["main"].at \in Nat \/ t # "main"
      BY <1>1, JobType
    <3> QED
      BY <2>2, <3>1, <1>1, <1>5, <1>11 DEF Thread
  <2>3. s # "fedc" => count'["fedc"] = count["fedc"] /\ handle'["fedc"] = handle["fedc"]
    BY <1>2, <1>4, Lists DEF TypeOK, Attr
  <2> QED
    BY <2>1, <2>2, <2>3 DEF FedcInv
<1>13. FedsInv'
  <2> SUFFICES ASSUME (At("rest", "start") /\ Svc("rest") = "feds")', NEW q \in alive'
               PROVE  q.svc # "feds"
    BY DEF FedsInv
  <2>1. t # "rest" /\ job'["rest"] = job["rest"] /\ At("rest", "start")
    BY <1>8 DEF Thread
  <2>2. \A r \in alive : r.svc # "feds"
    BY <2>1 DEF FedsInv, Svc
  <2> QED
    BY <2>1, <2>2, <1>3, <1>4, <1>10
<1>14. FederationIsHeld'
  <2> SUFFICES ASSUME NEW q \in alive', q.svc \in Federation
               PROVE  handle'[q.svc] = q /\ sources'[q.svc] = q /\ receivers'[q.svc] = q
    BY DEF FederationIsHeld
  <2>1. q.svc \in {"fedc", "feds"} /\ q.svc \in Attrs /\ q.svc \in Names /\ q.svc \in Receiver
    BY Lists DEF Federation
  <2>2. CASE q = p
    BY <2>1, <2>2, <1>3, <1>4 DEF TypeOK, Attr, Name
  <2>3. CASE q \in alive /\ q # p
    <3>1. handle[q.svc] = q /\ sources[q.svc] = q /\ receivers[q.svc] = q
      BY <2>3 DEF FederationIsHeld
    <3>2. q.svc # s
      BY <2>1, <2>3, <1>10, <1>11
    <3>3. q.svc # Attr(s) /\ q.svc # Name(s)
      BY <2>1, <3>2 DEF Attr, Name
    <3> QED
      BY <3>1, <3>2, <3>3, <2>1, <1>4 DEF TypeOK
  <2> QED
    BY <2>2, <2>3, <1>4
<1>15. BothSides'
  <2> SUFFICES ASSUME NEW r \in Receiver PROVE sources'[r] = receivers'[r]
    BY DEF BothSides
  <2>1. sources[r] = receivers[r] /\ r \in Names /\ r # "dp"
    BY Lists DEF BothSides
  <2>2. r = Name(s) <=> r = s
    BY <2>1, <1>2, Lists DEF Name
  <2> QED
    BY <2>1, <2>2, <1>2, <1>4 DEF TypeOK
<1> QED
  BY <1>6, <1>7, <1>9, <1>12, <1>13, <1>14, <1>15

(* The end of start_all.                                                   *)
LEMMA ReturnStep ==
    ASSUME IInv, NEW t \in Thread, StartAllReturns(t)
    PROVE  IInv'
<1> USE DEF IInv
<1>1. /\ job[t] # <<>> /\ Finish(t)
      /\ UNCHANGED <<alive, count, handle, pipeList, sources, receivers, conf, confIp,
                     commands, rest, cmds, crashes, strays>>
  BY DEF StartAllReturns, bookVars, confVars
<1>2. /\ job' \in [Thread -> Job \cup {<<>>}]
      /\ replies' \in Seq({"status", "users", "done", "500"})
      /\ CmdInv' /\ StrayInv' /\ AnswerInv'
  BY <1>1, JobStep
<1>3. TypeOK'
  BY <1>1, <1>2 DEF TypeOK
<1>4. \A u \in Thread : job'[u] # <<>> => job'[u] = job[u]
  BY <1>1, FinishAfter
<1>5. StartInv'
  BY <1>4 DEF StartInv, At, Asked, Svc
<1>6. FedcInv'
  BY <1>1, <1>4 DEF FedcInv, Thread
<1>7. FedsInv'
  BY <1>1, <1>4 DEF FedsInv, At, Svc, Thread
<1>8. FederationIsHeld' /\ BothSides'
  BY <1>1 DEF FederationIsHeld, BothSides
<1> QED
  BY <1>2, <1>3, <1>5, <1>6, <1>7, <1>8

(* A process that dies.                                                    *)
LEMMA CrashStep ==
    ASSUME IInv, NEW p \in Proc, Crash(p)
    PROVE  IInv'
<1> USE DEF IInv
<1>1. /\ alive' \subseteq alive
      /\ crashes' \in 0 .. MaxCrashes
      /\ UNCHANGED <<count, handle, pipeList, sources, receivers, conf, confIp, job,
                     commands, replies, rest, cmds, strays>>
  BY SupervisorAssumption DEF Crash, bookVars, confVars, restVars, TypeOK
<1>2. TypeOK'
  BY <1>1 DEF TypeOK
<1>3. CmdInv' /\ StartInv'
  BY <1>1 DEF CmdInv, StartInv, At, Asked, Svc
<1>4. FedcInv' /\ FedsInv'
  BY <1>1 DEF FedcInv, FedsInv, At, Svc
<1>5. FederationIsHeld' /\ BothSides'
  BY <1>1 DEF FederationIsHeld, BothSides
<1>6. StrayInv' /\ AnswerInv'
  BY <1>1 DEF StrayInv, AnswerInv, Asking
<1> QED
  BY <1>2, <1>3, <1>4, <1>5, <1>6

-----------------------------------------------------------------------------
(* The commands of the REST process.  They leave processes and books alone.*)
LEMMA BooksAside ==
    ASSUME IInv,
           UNCHANGED <<alive, count, handle, pipeList, sources, receivers>>,
           \A t \in Thread : job'[t] # <<>> =>
               job'[t] = job[t] \/ (t = "rest" /\ job'[t].at = 1 /\ job'[t].stage = "check")
    PROVE  StartInv' /\ FedcInv' /\ FedsInv' /\ FederationIsHeld' /\ BothSides'
<1> USE DEF IInv
<1>1. StartInv'
  BY DEF StartInv, At, Asked, Svc
<1>2. FedcInv'
  BY DEF FedcInv, Thread
<1>3. FedsInv'
  BY DEF FedsInv, At, Svc, Thread
<1>4. FederationIsHeld' /\ BothSides'
  BY DEF FederationIsHeld, BothSides
<1> QED
  BY <1>1, <1>2, <1>3, <1>4

(* A request is made when nothing is waited for, so it is the only command *)
(* that asks for an answer.                                                *)
LEMMA RequestStep ==
    ASSUME IInv, NEW c \in Command, NEW wait \in {"idle", "any", "status"},
           Request(c, wait),
           c.kind = "start_all" => c.cmd \in RestCmds /\ wait = "any",
           c.kind = "federate" <=> wait = "idle",
           wait = "status" => c.kind = "status"
    PROVE  IInv'
<1> USE DEF IInv
<1>1. /\ rest = "idle" /\ cmds < MaxCmds /\ cmds' = cmds + 1
      /\ commands' = Append(commands, c) /\ rest' = wait
      /\ UNCHANGED <<alive, count, handle, pipeList, sources, receivers, conf, confIp,
                     job, replies, crashes, strays>>
  BY DEF Request, bookVars, confVars
<1>2. /\ Len(commands') = Len(commands) + 1 /\ DOMAIN commands' = 1 .. Len(commands) + 1
      /\ Len(commands) \in Nat /\ DOMAIN commands = 1 .. Len(commands)
      /\ commands'[Len(commands) + 1] = c
      /\ \A i \in 1 .. Len(commands) : commands'[i] = commands[i]
  BY <1>1 DEF TypeOK
<1>3. TypeOK'
  <2>1. commands' \in Seq(Command)
    BY <1>1 DEF TypeOK
  <2>2. cmds' \in 0 .. MaxCmds
    BY <1>1, SupervisorAssumption DEF TypeOK
  <2> QED
    BY <1>1, <2>1, <2>2 DEF TypeOK
<1>4. CmdInv'
  BY <1>1, <1>2 DEF CmdInv
<1>5. StrayInv'
  BY <1>1, <1>2, SupervisorAssumption DEF StrayInv, TypeOK
<1>6. AnswerInv'
  <2> SUFFICES ASSUME strays = 0 PROVE AnswerInv'
    BY <1>1 DEF AnswerInv
  <2>1. /\ replies = <<>> /\ job["rest"] = <<>>
        /\ \A i \in DOMAIN commands : ~Asking(i)
    BY <1>1 DEF AnswerInv
  <2>2. \A i \in DOMAIN commands' : Asking(i)' <=> (i = Len(commands') /\ wait # "idle")
    BY <1>2, <2>1 DEF Asking
  <2>3. commands' # <<>>
    BY <1>2
  <2> QED
    BY <1>1, <1>2, <2>1, <2>2, <2>3 DEF AnswerInv
<1>7. StartInv' /\ FedcInv' /\ FedsInv' /\ FederationIsHeld' /\ BothSides'
  BY <1>1, BooksAside
<1> QED
  BY <1>3, <1>4, <1>5, <1>6, <1>7

(* The four kinds of request.                                              *)
LEMMA RequestsStep ==
    ASSUME IInv, Requests
    PROVE  IInv'
<1>1. ASSUME NEW c \in RestCmds, Request([kind |-> "start_all", cmd |-> c], "any")
      PROVE  IInv'
  <2> DEFINE d == [kind |-> "start_all", cmd |-> c]
  <2>1. d \in Command /\ d.kind = "start_all" /\ d.cmd = c
    BY CmdFacts DEF Command
  <2> HIDE DEF d
  <2> QED
    BY <1>1, <2>1, RequestStep DEF d
<1>2. ASSUME NEW k \in {"status", "users"}, Request([kind |-> k], "any")
      PROVE  IInv'
  <2> DEFINE d == [kind |-> k]
  <2>1. d \in Command /\ d.kind = k
    BY DEF Command
  <2> HIDE DEF d
  <2> QED
    BY <1>2, <2>1, RequestStep DEF d
<1>3. ASSUME Request([kind |-> "status"], "status")
      PROVE  IInv'
  <2> DEFINE d == [kind |-> "status"]
  <2>1. d \in Command /\ d.kind = "status"
    BY DEF Command
  <2> HIDE DEF d
  <2> QED
    BY <1>3, <2>1, RequestStep DEF d
<1>4. ASSUME Request([kind |-> "federate"], "idle")
      PROVE  IInv'
  <2> DEFINE d == [kind |-> "federate"]
  <2>1. d \in Command /\ d.kind = "federate"
    BY DEF Command
  <2> HIDE DEF d
  <2> QED
    BY <1>4, <2>1, RequestStep DEF d
<1> QED
  BY <1>1, <1>2, <1>3, <1>4 DEF Requests

(* The REST process takes an answer: unless one is stray, its own.         *)
LEMMA TakeReplyStep ==
    ASSUME IInv, TakeReply
    PROVE  IInv'
<1> USE DEF IInv
<1>1. /\ rest # "idle" /\ replies # <<>> /\ replies' = Tail(replies)
      /\ rest' = IF rest = "any" \/ Head(replies) = "status" THEN "idle" ELSE rest
      /\ UNCHANGED <<alive, count, handle, pipeList, sources, receivers, conf, confIp,
                     job, commands, cmds, crashes, strays>>
  BY DEF TakeReply, bookVars, confVars
<1>2. TypeOK'
  <2>1. replies' \in Seq({"status", "users", "done", "500"})
    BY <1>1 DEF TypeOK
  <2> QED
    BY <2>1, <1>1 DEF TypeOK
<1>3. CmdInv' /\ StrayInv'
  BY <1>1 DEF CmdInv, StrayInv
<1>4. AnswerInv'
  <2> SUFFICES ASSUME strays = 0 PROVE AnswerInv'
    BY <1>1 DEF AnswerInv
  <2>1. /\ Len(replies) = 1 /\ job["rest"] = <<>>
        /\ rest = "status" => replies[1] = "status"
        /\ \A i \in DOMAIN commands : ~Asking(i)
    BY <1>1 DEF AnswerInv
  <2>2. replies' = <<>> /\ Head(replies) = replies[1]
    BY <1>1, <2>1 DEF TypeOK
  <2>3. rest' = "idle"
    BY <1>1, <2>1, <2>2 DEF TypeOK
  <2> QED
    BY <1>1, <2>1, <2>2, <2>3 DEF AnswerInv, Asking
<1>5. StartInv' /\ FedcInv' /\ FedsInv' /\ FederationIsHeld' /\ BothSides'
  BY <1>1, BooksAside
<1> QED
  BY <1>2, <1>3, <1>4, <1>5

(* The command thread takes the next command.                              *)
LEMMA TakeCommandStep ==
    ASSUME IInv, TakeCommand
    PROVE  IInv'
<1> USE DEF IInv
<1> DEFINE c == Head(commands)
           lost == c.kind = "federate" /\ count["fedc"] = 0
           j == [at |-> 1, stage |-> "check", cmd |-> c.cmd]
<1>1. /\ job["rest"] = <<>> /\ commands # <<>> /\ commands' = Tail(commands)
      /\ job' = IF c.kind = "start_all" THEN [job EXCEPT !["rest"] = j] ELSE job
      /\ replies' = CASE c.kind \in {"status", "users"} -> Append(replies, c.kind)
                      [] lost -> Append(replies, "500")
                      [] OTHER -> replies
      /\ strays' = IF lost THEN strays + 1 ELSE strays
      /\ UNCHANGED <<alive, count, handle, pipeList, sources, receivers, conf, confIp,
                     rest, cmds, crashes>>
  BY DEF TakeCommand, bookVars, confVars
<1>2. /\ Len(commands) \in Nat \ {0} /\ Len(commands') = Len(commands) - 1
      /\ commands' \in Seq(Command)
      /\ DOMAIN commands = 1 .. Len(commands) /\ DOMAIN commands' = 1 .. Len(commands) - 1
      /\ c = commands[1] /\ c \in Command
      /\ \A i \in 1 .. Len(commands) - 1 : commands'[i] = commands[i + 1]
  BY <1>1 DEF TypeOK
<1>3. /\ c.kind \in {"status", "users", "federate", "start_all"}
      /\ c.kind = "start_all" => c.cmd \in RestCmds /\ j \in Job
  <2>1. c.kind \in {"status", "users", "federate", "start_all"}
    BY <1>2 DEF Command
  <2>2. c.kind = "start_all" => c.cmd \in RestCmds
    BY <1>2 DEF CmdInv
  <2>3. c.kind = "start_all" => c.cmd \in Cmd
    BY <2>2, CmdFacts
  <2> QED
    BY <2>1, <2>2, <2>3, FirstJob
<1> HIDE DEF c
<1>4. /\ c.kind = "start_all" => job'["rest"] = j
      /\ c.kind # "start_all" => job'["rest"] = <<>>
      /\ job'["main"] = job["main"]
      /\ job' \in [Thread -> Job \cup {<<>>}]
  BY <1>1, <1>3 DEF TypeOK, Thread
<1>5. TypeOK'
  <2>1. replies' \in Seq({"status", "users", "done", "500"})
    BY <1>1, <1>3 DEF TypeOK
  <2>2. strays' \in 0 .. MaxCmds
    BY <1>1, <1>2, SupervisorAssumption DEF TypeOK, StrayInv
  <2> QED
    BY <2>1, <2>2, <1>1, <1>2, <1>4 DEF TypeOK
<1>6. CmdInv'
  <2>1. \A i \in DOMAIN commands' :
           commands'[i].kind = "start_all" => commands'[i].cmd \in RestCmds
    BY <1>2 DEF CmdInv
  <2>2. job'["rest"] # <<>> => job'["rest"].cmd \in RestCmds
    BY <1>3, <1>4
  <2> QED
    BY <2>1, <2>2, <1>4 DEF CmdInv
<1>7. StrayInv'
  BY <1>1, <1>2, SupervisorAssumption DEF StrayInv, TypeOK
<1>8. AnswerInv'
  <2> SUFFICES ASSUME strays' = 0 PROVE AnswerInv'
    BY DEF AnswerInv
  <2>1. strays = 0 /\ ~lost
    BY <1>1, SupervisorAssumption DEF TypeOK
  <2>2. \A i \in DOMAIN commands' : i + 1 \in DOMAIN commands /\ (Asking(i)' <=> Asking(i + 1))
    BY <1>2 DEF Asking
  <2>3. 1 \in DOMAIN commands /\ (Asking(1) <=> c.kind # "federate")
    BY <1>2 DEF Asking
  <2>4. CASE c.kind = "federate"
    <3>1. replies' = replies /\ job'["rest"] = job["rest"] /\ rest' = rest
      BY <1>1, <1>4, <2>1, <2>4
    <3>2. CASE \A i \in DOMAIN commands : ~Asking(i)
      <4>1. \A i \in DOMAIN commands' : ~Asking(i)'
        BY <3>2, <2>2
      <4> QED
        BY <2>1, <2>3, <2>4, <3>1, <3>2, <4>1 DEF AnswerInv
    <3>3. CASE \A i \in DOMAIN commands : Asking(i) <=> i = Len(commands)
      <4>1. Len(commands) > 1
        BY <3>3, <2>3, <2>4, <1>2
      <4>2. /\ commands' # <<>> /\ commands'[Len(commands')] = commands[Len(commands)]
            /\ \A i \in DOMAIN commands' : Asking(i)' <=> i = Len(commands')
        BY <3>3, <4>1, <2>2, <1>2
      <4>3. Asking(Len(commands))
        BY <3>3, <1>2
      <4>4. /\ rest # "idle" /\ replies = <<>> /\ job["rest"] = <<>>
            /\ rest = "status" => commands[Len(commands)].kind = "status"
        BY <2>1, <4>3, <1>2 DEF AnswerInv
      <4> QED
        BY <3>1, <4>2, <4>4 DEF AnswerInv
    <3> QED
      BY <3>2, <3>3, <2>1 DEF AnswerInv
  <2>5. CASE c.kind # "federate"
    <3>1. /\ rest # "idle" /\ replies = <<>>
          /\ \A i \in DOMAIN commands : Asking(i) <=> i = Len(commands)
          /\ rest = "status" => commands[Len(commands)].kind = "status"
      BY <2>1, <2>3, <2>5 DEF AnswerInv
    <3>2. Len(commands) = 1 /\ DOMAIN commands' = {}
      BY <3>1, <2>3, <2>5, <1>2
    <3>3. rest = "status" => c.kind = "status"
      BY <3>1, <3>2, <1>2
    <3>4. CASE c.kind = "start_all"
      <4>1. replies' = <<>> /\ job'["rest"] # <<>> /\ rest' = "any"
        BY <1>1, <1>3, <1>4, <3>1, <3>3, <3>4, <2>1, JobIsNone DEF TypeOK
      <4> QED
        BY <4>1, <3>2 DEF AnswerInv
    <3>5. CASE c.kind \in {"status", "users"}
      <4>1. replies' = Append(replies, c.kind) /\ job'["rest"] = <<>> /\ rest' = rest
        BY <1>1, <1>4, <3>5
      <4>2. Len(replies') = 1 /\ replies'[1] = c.kind
        BY <4>1, <3>1
      <4> QED
        BY <4>1, <4>2, <3>1, <3>2, <3>3 DEF AnswerInv
    <3> QED
      BY <3>4, <3>5, <2>5, <1>3
  <2> QED
    BY <2>4, <2>5
<1>9. StartInv' /\ FedcInv' /\ FedsInv' /\ FederationIsHeld' /\ BothSides'
  <2>1. \A t \in Thread : job'[t] # <<>> =>
           job'[t] = job[t] \/ (t = "rest" /\ job'[t].at = 1 /\ job'[t].stage = "check")
    BY <1>1, <1>4 DEF Thread
  <2> QED
    BY <1>1, <2>1, BooksAside
<1> QED
  BY <1>5, <1>6, <1>7, <1>8, <1>9

-----------------------------------------------------------------------------
(* Every step keeps the inductive invariant.                               *)
LEMMA NextInv ==
    ASSUME IInv, [Next]_vars
    PROVE  IInv'
<1>1. ASSUME NEW t \in Thread, StartAll(t)
      PROVE  IInv'
  BY <1>1, CheckStep, StartStep, ReturnStep DEF StartAll
<1>2. CASE UNCHANGED vars
  BY <1>2 DEF vars, bookVars, confVars, restVars, IInv, TypeOK, CmdInv, StartInv, FedcInv,
              FedsInv, FederationIsHeld, BothSides, StrayInv, AnswerInv, Asking, At, Asked, Svc
<1> QED
  BY <1>1, <1>2, TakeCommandStep, TakeReplyStep, RequestsStep, CrashStep DEF Next

(* The inductive invariant holds in every state.                           *)
THEOREM Invariance == Spec => []IInv
  BY InitInv, NextInv, PTL DEF Spec

(* The type of every variable, for every set of addresses and commands and *)
(* all bounds.                                                             *)
THEOREM TypeCorrect == Spec => []TypeOK
<1>1. IInv => TypeOK
  BY DEF IInv
<1> QED
  BY <1>1, Invariance, PTL

(* No federation process is orphaned or runs twice, however the two        *)
(* threads of the core run start_all side by side and whatever dies.       *)
THEOREM FederationHeld == Spec => []FederationIsHeld
<1>1. IInv => FederationIsHeld
  BY DEF IInv
<1> QED
  BY <1>1, Invariance, PTL

(* No start or stop of a service, also one that fails half way, leaves it  *)
(* on one side of the filter group only.                                   *)
THEOREM SidesAgree == Spec => []BothSides
<1>1. IInv => BothSides
  BY DEF IInv
<1> QED
  BY <1>1, Invariance, PTL

(* The REST process takes no answer for another request, unless a          *)
(* federation command came before there was a federation client.           *)
THEOREM AnswersMatch == Spec => []NoStaleAnswer
<1>1. IInv => NoStaleAnswer
  BY DEF IInv, AnswerInv, NoStaleAnswer, Asking
<1> QED
  BY <1>1, Invariance, PTL
=============================================================================
