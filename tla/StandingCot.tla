----------------------------- MODULE StandingCot ----------------------------
(***************************************************************************)
(* The messages a client has to get although it was not connected when     *)
(* they were sent: active emergencies (components/extended/emergency) and  *)
(* repeated geo objects (core/cot_management, the repeater).  Each of the  *)
(* two components keeps its messages in one file, a dictionary that is     *)
(* read, changed and written back as a whole.  Requests are run by several *)
(* routing workers with no lock between them.  When a client connects, the *)
(* CoT service registers it with the IAM component and asks both           *)
(* components for their messages, in three requests that any workers take; *)
(* alerts and private CoT go to the recipients a worker has looked up.     *)
(*                                                                         *)
(* From the digitalpy library (not in the repository) the model takes:     *)
(* a request is run by one of the workers; the action mapper constructs a  *)
(* component's facade and controllers anew for every request; the IAM      *)
(* component knows the connections that were registered with it;           *)
(* ValidateUsers keeps a list of recipients and reads "*" as all of them;  *)
(* a request that raised publishes nothing.                                *)
(***************************************************************************)
EXTENDS Integers, FiniteSets, FiniteSetsExt

CONSTANTS
    Worker,     \* routing workers
    Svc,        \* the CoT services
    Client,
    Home,       \* client -> its service
    Emergency,
    Geo,        \* geo objects to be repeated
    Cot,        \* private CoT
    Reach,      \* emergency -> the clients within EmergencyRadius of it,
                \* private CoT -> the clients its <marti> element names
    NoReq,
    MaxStimuli  \* bound on connections, alerts, crashes, ... from outside

Uid == Emergency \cup Geo \cup Cot
Store == {"emergencies", "repeated"}

ASSUME StandingAssumption ==
    /\ Home \in [Client -> Svc]
    /\ Reach \in [Emergency \cup Cot -> SUBSET Client]
    /\ IsFiniteSet(Uid)
    /\ MaxStimuli \in Nat

\* The actions of the requests and the messages or clients they are about.
Request ==
         [act : {"connection", "repeater", "emergencies"}, x : Client, to : {Svc}]
    \cup [act : {"alert", "cancel"}, x : Emergency, to : SUBSET Svc]
    \cup [act : {"repeat", "unrepeat"}, x : Geo, to : {Svc}]
    \cup [act : {"cot"}, x : Cot, to : {Svc}]

ASSUME NoReqAssumption == NoReq \notin Request

StoreOf(r) ==
    IF r.act \in {"alert", "cancel", "emergencies"} THEN "emergencies" ELSE "repeated"

VARIABLES
    everywhere, \* config.EmergencyRadius == 0
    file,       \* the file of each store
    queue,      \* requests that no worker has taken
    work,       \* worker -> its request, where it is in it, the dictionary its
                \* controller holds, and the recipients it has looked up
    conn,       \* connections of the CoT services
    iam,        \* connections the IAM component knows
    outbox,     \* published responses the services have not handled
    got,        \* client -> messages it was sent
    deleting,   \* emergencies whose DELETE waits for the answer to its first request
    stimuli,
    made,       \* history: the messages each store was asked to keep
    spoiled,    \* history: stores that were written on a stale copy, by two
                \* writers at once, or by one that died
    clash,      \* history: clients that connected while an emergency changed
    failed,     \* history: emergencies for which an alert request raised
    answered    \* history: clients whose request to the repeater was answered

env == <<everywhere, deleting, stimuli>>
net == <<queue, conn, iam, outbox, got>>
history == <<made, spoiled, clash, failed, answered>>
vars == <<env, file, net, work, history>>

\* A file that was opened for writing is empty until its writer closes it.  "len" is
\* its length in entries: more than there are in the dictionary when the end of a
\* longer text was left behind it.
File == [st : {"absent", "empty", "data"}, dict : SUBSET Uid, len : Nat]
Data(d) == [st |-> "data", dict |-> d, len |-> Cardinality(d)]
Absent == [st |-> "absent", dict |-> {}, len |-> 0]
Empty == [st |-> "empty", dict |-> {}, len |-> 0]

Step == {"register", "facade", "create", "fill", "load", "parse", "construct", "sync",
         "save", "dump", "publish", "tell"}
Task == [req : Request, pc : Step, mem : SUBSET Uid, rcpt : SUBSET Client]
Idle == [req |-> NoReq, pc |-> "idle", mem |-> {}, rcpt |-> {}]

(* The type of every variable.                                             *)
TypeOK ==
    /\ everywhere \in BOOLEAN
    /\ file \in [Store -> File]
    /\ queue \in SUBSET Request
    /\ work \in [Worker -> {Idle} \cup Task]
    /\ conn \in SUBSET Client /\ iam \in SUBSET Client
    /\ outbox \in SUBSET [msgs : SUBSET Uid, rcpt : SUBSET Client, to : SUBSET Svc]
    /\ got \in [Client -> SUBSET Uid]
    /\ deleting \in SUBSET Emergency /\ stimuli \in Nat
    /\ made \in [Store -> SUBSET Uid]
    /\ spoiled \in SUBSET Store
    /\ clash \in SUBSET Client /\ failed \in SUBSET Emergency
    /\ answered \in SUBSET Client

\* A fresh installation: repeated_messages.json comes with the package.
Init ==
    /\ everywhere \in BOOLEAN
    /\ file = [s \in Store |-> IF s = "emergencies" THEN Absent ELSE Data({})]
    /\ queue = {} /\ conn = {} /\ iam = {} /\ outbox = {}
    /\ work = [w \in Worker |-> Idle]
    /\ got = [c \in Client |-> {}]
    /\ deleting = {} /\ stimuli = 0
    /\ made = [s \in Store |-> {}] /\ spoiled = {}
    /\ clash = {} /\ failed = {} /\ answered = {}

-----------------------------------------------------------------------------
(* From outside: clients, and users of the REST API.                       *)

Stimulus == stimuli < MaxStimuli /\ stimuli' = stimuli + 1

\* A change of the emergencies is under way: at a worker, or perhaps half done because
\* the REST API made two requests of it.
Changing ==
    \/ \E r \in queue : r.act = "alert" /\ r.to # Svc
    \/ \E w \in Worker :
        /\ work[w].pc # "idle"
        /\ \/ work[w].req.act \in {"alert", "cancel"}
           \/ work[w].pc \in {"create", "fill"} /\ StoreOf(work[w].req) = "emergencies"

\* Faulty: the emergencies are not asked for.
ConnectRequestsNoEmergencies(c) ==
    {[act |-> a, x |-> c, to |-> Svc] : a \in {"connection", "repeater"}}

\* create_iam_request, create_send_repeated_messages_request and
\* create_send_emergencies_request.
ConnectRequests(c) ==
    {[act |-> a, x |-> c, to |-> Svc] : a \in {"connection", "repeater", "emergencies"}}

\* handle_connection, after create_client_connection has stored the connection.
\* (The greeting it ends with is not followed.)
Connect(c) ==
    /\ Stimulus /\ c \notin conn
    /\ conn' = conn \cup {c}
    /\ queue' = queue \cup ConnectRequests(c)
    /\ clash' = IF Changing THEN clash \cup {c} ELSE clash \ {c}
    /\ answered' = answered \ {c}
    /\ UNCHANGED <<everywhere, deleting, file, work, iam, outbox, got, made,
                   spoiled, failed>>

Enqueue(rs) ==
    /\ queue' = queue \cup rs
    /\ UNCHANGED <<everywhere, file, work, conn, iam, outbox, got, history>>

Submit(rs) == Stimulus /\ Enqueue(rs) /\ UNCHANGED deleting

\* A client's CoT; the service mapping names both services for the answer.
Alert(e) == Submit({[act |-> "alert", x |-> e, to |-> Svc]})
Cancel(e) == Submit({[act |-> "cancel", x |-> e, to |-> Svc]})
PrivateCot(m) == Submit({[act |-> "cot", x |-> m, to |-> Svc]})

\* The REST API makes one request for each CoT service.
PostEmergency(e) == Submit({[act |-> "alert", x |-> e, to |-> {s}] : s \in Svc})

\* For a deletion it passes the service where make_request expects to be told
\* whether to wait, so the second request is made after the answer to the first.
Deletion(e) == [act |-> "cancel", x |-> e, to |-> {}]

DeleteEmergency(e) ==
    /\ Stimulus /\ e \notin deleting
    /\ deleting' = deleting \cup {e}
    /\ Enqueue({Deletion(e)})

DeleteAgain(e) ==
    /\ e \in deleting
    /\ Deletion(e) \notin queue /\ \A w \in Worker : work[w].req # Deletion(e)
    /\ deleting' = deleting \ {e}
    /\ Enqueue({Deletion(e)})
    /\ UNCHANGED stimuli

PostGeoObject(g) == Submit({[act |-> "repeat", x |-> g, to |-> Svc]})
DeleteRepeated(g) == Submit({[act |-> "unrepeat", x |-> g, to |-> Svc]})

-----------------------------------------------------------------------------
(* The routing workers.                                                    *)

FirstStep(r) ==
    CASE r.act = "connection" -> "register"
      [] r.act = "cot" -> "parse"
      [] r.act \in {"repeater", "repeat", "unrepeat"} -> "load"
      [] OTHER -> "facade"

Pending(c) ==
    \/ \E r \in queue : r.x = c /\ r.act \in {"connection", "emergencies"}
    \/ \E w \in Worker : /\ work[w].pc # "idle" /\ work[w].req.x = c
                         /\ work[w].req.act \in {"connection", "emergencies"}

Take(w, r) ==
    /\ work[w].pc = "idle"
    /\ queue' = queue \ {r}
    /\ work' = [work EXCEPT ![w] = [Idle EXCEPT !.req = r, !.pc = FirstStep(r)]]
    /\ clash' = IF r.act \in {"alert", "cancel"}
                THEN clash \cup {c \in Client : Pending(c)} ELSE clash
    /\ UNCHANGED <<env, file, conn, iam, outbox, got, made, spoiled, failed, answered>>

Goto(w, step) == work' = [work EXCEPT ![w].pc = step]
GotoWith(w, step, d) == work' = [work EXCEPT ![w].pc = step, ![w].mem = d]
Finish(w) == work' = [work EXCEPT ![w] = Idle]

\* The execute method of the facade logs an exception and returns.
Raise(w) ==
    /\ Finish(w)
    /\ failed' = IF work[w].req.act = "alert" THEN failed \cup {work[w].req.x} ELSE failed

Register(w) ==
    /\ work[w].pc = "register"
    /\ iam' = iam \cup {work[w].req.x}
    /\ Finish(w)
    /\ UNCHANGED <<env, file, queue, conn, outbox, got, history>>

\* json.load fails on an empty file and on text after the dictionary; pickle.load
\* reads no further than its end.
Loads(s) ==
    /\ file[s].st = "data"
    /\ s = "emergencies" => file[s].len = Cardinality(file[s].dict)

\* Another process has the file open for writing.
Writing(w, s) == work[w].pc \in {"fill", "dump"} /\ StoreOf(work[w].req) = s

\* open(path, "w"): w replaces what it believes to be "expected".
Open(w, s, expected) ==
    /\ file' = [file EXCEPT ![s] = Empty]
    /\ spoiled' = IF file[s] = expected /\ \A v \in Worker \ {w} : ~Writing(v, s)
                  THEN spoiled ELSE spoiled \cup {s}

\* The text of d from the start of the file, and what is longer stays.
Overwrite(s, d) ==
    file' = [file EXCEPT ![s] = [st |-> "data", dict |-> d,
                                 len |-> Max({Cardinality(d), file[s].len})]]

\* EmergencyPersistence.__init__: run by the facade's constructor, and again for the
\* controller that saves, deletes or lists.  A cancellation has a parse step too,
\* whose only result is who is told.
Construct(w) ==
    LET next == IF work[w].req.act = "emergencies"
                THEN IF work[w].pc = "facade" THEN "construct" ELSE "sync"
                ELSE IF work[w].pc = "facade" THEN "parse" ELSE "save"
    IN  /\ work[w].pc \in {"facade", "construct"}
        /\ \/ /\ file["emergencies"].st = "absent"
              /\ Goto(w, "create")
              /\ UNCHANGED failed
           \/ /\ Loads("emergencies")
              /\ GotoWith(w, next, file["emergencies"].dict)
              /\ UNCHANGED failed
           \/ /\ file["emergencies"].st # "absent" /\ ~Loads("emergencies")
              /\ Raise(w)
        /\ UNCHANGED <<env, file, net, made, spoiled, clash, answered>>

AfterLoad(r) == IF r.act = "repeater" THEN "tell" ELSE "save"

\* _load_repeated_messages: a file that is not there or empty is replaced.
LoadRepeated(w) ==
    /\ work[w].pc = "load"
    /\ \/ /\ ~Loads("repeated")
          /\ Goto(w, "create")
       \/ /\ Loads("repeated")
          /\ GotoWith(w, AfterLoad(work[w].req), file["repeated"].dict)
    /\ UNCHANGED <<env, file, net, history>>

\* The file is created, or replaced, with an empty dictionary: opened ...
Create(w) ==
    LET s == StoreOf(work[w].req) IN
    /\ work[w].pc = "create"
    /\ Open(w, s, Absent)
    /\ clash' = IF s = "emergencies"
                THEN clash \cup ({c \in Client : Pending(c)} \ {work[w].req.x}) ELSE clash
    /\ GotoWith(w, "fill", {})
    /\ UNCHANGED <<env, net, made, failed, answered>>

\* ... and written.  The constructor then loads it, the repeater does not.
Fill(w) ==
    LET s == StoreOf(work[w].req) IN
    /\ work[w].pc = "fill"
    /\ Overwrite(s, work[w].mem)
    /\ Goto(w, IF s = "emergencies" THEN "facade" ELSE AfterLoad(work[w].req))
    /\ UNCHANGED <<env, net, history>>

\* Faulty: "*" is not replaced by the connections it stands for.
NearRecipientsUnresolved(e) == IF everywhere THEN {"*"} ELSE Reach[e] \cap iam

\* filter_by_distance and ValidateUsers.
NearRecipients(e) == IF everywhere THEN iam ELSE Reach[e] \cap iam

\* get_recipients: connections with a callsign that the CoT names.
NamedRecipients(m) == Reach[m] \cap iam

Address(w, rcpt, step) ==
    /\ work' = [work EXCEPT ![w].rcpt = rcpt, ![w].pc = step]
    /\ UNCHANGED <<env, file, net, history>>

ParseEmergencyOn(w) ==
    /\ work[w].pc = "parse" /\ work[w].req.act = "alert"
    /\ Address(w, NearRecipients(work[w].req.x), "construct")

ParseEmergencyOff(w) ==
    /\ work[w].pc = "parse" /\ work[w].req.act = "cancel"
    /\ Address(w, iam, "construct")

\* What it stores for missions is in TakApi.
HandleDefaultCot(w) ==
    /\ work[w].pc = "parse" /\ work[w].req.act = "cot"
    /\ Address(w, NamedRecipients(work[w].req.x), "publish")

\* _sync_persistence replaces the dictionary of dictionaries, while the list is made
\* from "emergencies", which the constructor read.
Sync(w) ==
    /\ work[w].pc = "sync"
    /\ \/ Loads("emergencies") /\ Goto(w, "tell") /\ UNCHANGED failed
       \/ ~Loads("emergencies") /\ Raise(w)
    /\ UNCHANGED <<env, file, net, made, spoiled, clash, answered>>

Changed(r, d) == IF r.act \in {"alert", "repeat"} THEN d \cup {r.x} ELSE d \ {r.x}

\* Faulty: the dictionary is written as it was loaded.
SaveUnchanged(w) ==
    LET s == StoreOf(work[w].req) IN
    /\ work[w].pc = "save"
    /\ Open(w, s, Data(work[w].mem))
    /\ Goto(w, "dump")
    /\ UNCHANGED <<env, net, made, clash, failed, answered>>

\* save_emergency, delete_emergency, create_repeated_messages and
\* delete_repeated_message up to the opening of the file.  The deletion of an
\* emergency that is not in the dictionary raises a KeyError.
Save(w) ==
    LET s == StoreOf(work[w].req) IN
    /\ work[w].pc = "save"
    /\ \/ /\ work[w].req.act = "cancel" => work[w].req.x \in work[w].mem
          /\ Open(w, s, Data(work[w].mem))
          /\ GotoWith(w, "dump", Changed(work[w].req, work[w].mem))
          /\ UNCHANGED failed
       \/ /\ work[w].req.act = "cancel" /\ work[w].req.x \notin work[w].mem
          /\ Raise(w)
          /\ UNCHANGED <<file, spoiled>>
    /\ UNCHANGED <<env, net, made, clash, answered>>

\* The end of _update_persistence and _save_repeated_messages.
Dump(w) ==
    LET s == StoreOf(work[w].req) IN
    /\ work[w].pc = "dump"
    /\ Overwrite(s, work[w].mem)
    /\ made' = [made EXCEPT ![s] = Changed(work[w].req, made[s])]
    /\ IF work[w].req.act = "alert" THEN Goto(w, "publish") ELSE Finish(w)
    /\ UNCHANGED <<env, net, spoiled, clash, failed, answered>>

\* The answer to an alert or a private CoT.  (The publishing of cancellations and of
\* geo objects is not followed.)
Publish(w) ==
    /\ work[w].pc = "publish"
    /\ outbox' = outbox \cup {[msgs |-> {work[w].req.x}, rcpt |-> work[w].rcpt,
                               to |-> work[w].req.to]}
    /\ Finish(w)
    /\ UNCHANGED <<env, file, queue, conn, iam, got, history>>

\* send_emergencies_to_client leaves out what is too far away; an answer without
\* messages sends nothing.
SendEmergenciesToClient(w) ==
    LET c == work[w].req.x
        msgs == {e \in work[w].mem : everywhere \/ c \in Reach[e]}
    IN  /\ work[w].pc = "tell" /\ work[w].req.act = "emergencies"
        /\ outbox' = IF msgs = {} THEN outbox
                     ELSE outbox \cup {[msgs |-> msgs, rcpt |-> {c}, to |-> Svc]}
        /\ Finish(w)
        /\ UNCHANGED <<env, file, queue, conn, iam, got, history>>

ConnectedUser(w) ==
    LET c == work[w].req.x
        msgs == work[w].mem
    IN  /\ work[w].pc = "tell" /\ work[w].req.act = "repeater"
        /\ outbox' = IF msgs = {} THEN outbox
                     ELSE outbox \cup {[msgs |-> msgs, rcpt |-> {c}, to |-> Svc]}
        /\ answered' = answered \cup {c}
        /\ Finish(w)
        /\ UNCHANGED <<env, file, queue, conn, iam, got, made, spoiled, clash, failed>>

\* determine_message_type: no recipients are all connections of the service.
Addressees(m) == {c \in conn : Home[c] \in m.to /\ (m.rcpt = {} \/ c \in m.rcpt)}

\* The services that subscribed handle the response at the same time; they share
\* nothing.
BroadcastResponse(m) ==
    /\ outbox' = outbox \ {m}
    /\ got' = [c \in Client |-> IF c \in Addressees(m) THEN got[c] \cup m.msgs ELSE got[c]]
    /\ UNCHANGED <<env, file, queue, work, conn, iam, history>>

\* The server stops, wherever its workers are, and is started again: what is left
\* is on disk.
Crash ==
    /\ Stimulus
    /\ queue' = {} /\ outbox' = {} /\ conn' = {} /\ iam' = {} /\ deleting' = {}
    /\ work' = [w \in Worker |-> Idle]
    /\ got' = [c \in Client |-> {}]
    /\ spoiled' = spoiled \cup {s \in Store : \E w \in Worker : Writing(w, s)}
    /\ clash' = {} /\ answered' = {}
    /\ UNCHANGED <<everywhere, file, made, failed>>

Outside ==
    \/ \E c \in Client : Connect(c)
    \/ \E e \in Emergency :
        Alert(e) \/ Cancel(e) \/ PostEmergency(e) \/ DeleteEmergency(e) \/ DeleteAgain(e)
    \/ \E m \in Cot : PrivateCot(m)
    \/ \E g \in Geo : PostGeoObject(g) \/ DeleteRepeated(g)

WorkerStep(w) ==
    \/ Register(w) \/ Construct(w) \/ LoadRepeated(w) \/ Create(w) \/ Fill(w)
    \/ ParseEmergencyOn(w) \/ ParseEmergencyOff(w) \/ HandleDefaultCot(w)
    \/ Sync(w) \/ Save(w) \/ Dump(w) \/ Publish(w)
    \/ SendEmergenciesToClient(w) \/ ConnectedUser(w)

Next ==
    \/ Outside
    \/ \E w \in Worker, r \in queue : Take(w, r)
    \/ \E w \in Worker : WorkerStep(w)
    \/ \E m \in outbox : BroadcastResponse(m)
    \/ Crash

Spec == Init /\ [][Next]_vars

-----------------------------------------------------------------------------
(* As long as no writer of a store was overtaken by another one and none   *)
(* died while it wrote, the file holds exactly the messages that requests  *)
(* have put there and not taken away again, and can be loaded, but for     *)
(* the moment in which one worker writes it.  So a message is only lost,   *)
(* or comes back, when two requests overlap.                               *)
StoresAreExact ==
    \A s \in Store \ spoiled :
        \/ file[s] = Data(made[s])
        \/ file[s] = Absent /\ made[s] = {}
        \/ file[s] = Empty /\ \E w \in Worker : Writing(w, s)

Quiet == queue = {} /\ outbox = {} /\ \A w \in Worker : work[w].pc = "idle"

(* When all is handled, a connected client has been served: the repeater   *)
(* answered it, whatever state a crash or other workers had left its file  *)
(* in, and it knows every active emergency within the radius, because it   *)
(* was sent the alert when it was registered before, and got it on         *)
(* connecting otherwise, after a restart too.  Of emergencies those are    *)
(* excepted that changed while it connected or for which an alert request  *)
(* raised, and all if the file was spoiled.                                *)
ConnectedIsServed ==
    Quiet =>
        /\ conn \subseteq answered
        /\ "emergencies" \notin spoiled =>
            \A c \in conn \ clash, e \in file["emergencies"].dict \ failed :
                everywhere \/ c \in Reach[e] => e \in got[c]
=============================================================================
