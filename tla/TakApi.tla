------------------------------- MODULE TakApi -------------------------------
(***************************************************************************)
(* The TAK API of the server: the endpoints of the HTTP, HTTPS and REST    *)
(* services (services/*/blueprints) and the controllers of the mission,    *)
(* ExCheck, enterprise sync and CoT management components they call, over  *)
(* the tables of Mission, ExCheck and EnterpriseSync.                      *)
(*                                                                         *)
(* A controller method is a program: the sequence of its commits, file     *)
(* operations and checks.  Nothing holds a transaction or a lock from one  *)
(* of them to the next, so the programs of all processes interleave there. *)
(* A process has a stack of programs: a call of another component          *)
(* (execute_sub_action) puts that component's program on top, a program    *)
(* that has ended is taken off.  An exception ends the innermost program,  *)
(* and only that one: the execute method of every facade logs it and       *)
(* returns, so the caller goes on, with a response that lacks the value.   *)
(*                                                                         *)
(* A synchronous request of an endpoint is run by a routing worker while   *)
(* the endpoint waits; the model lets the API process run it.  An          *)
(* asynchronous one is put on the queue, from which any routing worker     *)
(* takes any job: with several workers there is no order between jobs.     *)
(***************************************************************************)
EXTENDS EnterpriseSync, Mission, ExCheck, Bags

CONSTANTS Apis,             \* the API services; each serves one request at a time
          Workers,          \* routing workers
          ClientMissions,   \* the missions clients create
          TemplateMission,  \* "exchecktemplates"
          ExCheckClient,    \* "ExCheck", the creator of the component's missions
          Loaded,           \* the templates a previous session has stored
          Packages,         \* data packages: uid, hash and content are one name
          InnerOf,          \* zipped mission package -> the package inside it
          TasksOf,          \* template -> checklist -> uids its tasks get: those of
                            \* the template, or new ones where it has none
          HashLists,        \* the lists of hashes clients add to a mission in one request
          MissionLists,     \* the lists of missions of a log entry or a CoT
          Endpoints,        \* the endpoints clients use in this instance
          MaxRequests,      \* bound on client requests and CoT events
          MaxVersion        \* bound on the versions of a task

ASSUME TakApiAssumption ==
  /\ Apis \cap Workers = {}
  /\ ClientMissions \cup Checklists \cup {TemplateMission} \subseteq Missions
  /\ Packages \cup Templates \subseteq Uids \cap Data \cap Contents
  /\ Checklists \cup Tasks \subseteq Uids /\ Loaded \subseteq Templates
  /\ IsFiniteSet(Loaded) /\ IsFiniteSet(Apis \cup Workers)
  /\ Checklists \subseteq ExtUids /\ ExCheckClient \in Clients
  \* uids of checklists and tasks are drawn, and so no others
  /\ Checklists \cap (Tasks \cup ClientMissions \cup {TemplateMission}) = {}
  /\ (Checklists \cup Tasks) \cap (Packages \cup Templates) = {}
  /\ DOMAIN InnerOf \subseteq Packages /\ \A z \in DOMAIN InnerOf : InnerOf[z] \in Packages
  /\ TasksOf \in [Templates -> [Checklists -> Seq(Tasks)]]
  /\ HashLists \subseteq Seq(Packages) \ {<<>>} /\ MissionLists \subseteq Seq(ClientMissions)
  /\ MaxRequests \in Nat /\ MaxVersion \in Nat

\* A checklist document holds a version of each of its tasks, a task document
\* that of one task.
Doc == UNION {[S -> 0..MaxVersion] : S \in SUBSET Tasks}

ASSUME DocAssumption == Doc \subseteq Data /\ Doc \cap (Packages \cup Templates) = {}

VARIABLES proc,       \* process -> its stack of programs, the innermost last, and whether
                      \* the last program that it called ended without an exception
          queue,      \* bag of asynchronous jobs
          cotStore,   \* uids in the CoT management database
          published,  \* the notifications handed to the CoT services
          drawn,      \* uids of checklists that requests have drawn
          nreq        \* requests so far; also the source of new ids

vars == <<esVars, mVars, xVars, proc, queue, cotStore, published, drawn, nreq>>

Procs == Apis \cup Workers

TypeOK ==
  /\ EsTypeOK /\ MTypeOK /\ XTypeOK
  /\ links \subseteq Checklists \X Missions
  /\ DOMAIN proc = Procs
  /\ \A p \in Procs : proc[p].ok \in BOOLEAN
  /\ IsABag(queue)
  /\ cotStore \subseteq Cots
  /\ drawn \subseteq Checklists
  /\ nreq \in 0..MaxRequests

\* create_template_mission has run when the ExCheck component was registered, and
\* some templates were uploaded before the server was started.
Init ==
  /\ \E stored \in [1..Cardinality(Loaded) -> Loaded] :
        /\ Range(stored) = Loaded
        /\ rows = [i \in DOMAIN stored |->
                     [uid |-> stored[i], hash |-> stored[i], zip |-> FALSE, private |-> 0]]
        /\ changes = <<[type |-> "CREATE_MISSION", kind |-> "mission", of |-> None,
                        mission |-> TemplateMission]>>
                     \o [i \in DOMAIN stored |->
                           [type |-> "ADD_CONTENT", kind |-> "content", of |-> stored[i],
                            mission |-> TemplateMission]]
  /\ files = [u \in Uids |-> IF u \in Loaded THEN u ELSE NoData]
  /\ templates = Loaded
  /\ contents = {[id |-> t, mission |-> TemplateMission, linked |-> TRUE] : t \in Loaded}
  /\ checklists = {} /\ tasks = <<>> /\ links = {}
  /\ missions = [m \in {TemplateMission} |-> "MISSION_OWNER"]
  /\ subs = <<[id |-> 1, mission |-> TemplateMission, client |-> ExCheckClient, role |-> "MISSION_OWNER"]>>
  /\ invites = <<>> /\ cots = {} /\ logs = {} /\ mlogs = <<>> /\ ext = {} /\ rels = <<>>
  /\ proc = [p \in Procs |-> [stack |-> <<>>, ok |-> TRUE]]
  /\ queue = EmptyBag /\ cotStore = {} /\ published = {} /\ drawn = {} /\ nreq = 0

-----------------------------------------------------------------------------
(* Programs of the controllers. *)

Call(r)    == [op |-> "call", req |-> r]    \* execute_sub_action, make_request
Post(r)    == [op |-> "post", req |-> r]    \* an asynchronous request
NeedResult == [op |-> "need_result"]        \* uses a value of the last response
Throw      == [op |-> "raise"]
Record(m, kind, of) == [op |-> "change", type |-> "ADD_CONTENT", m |-> m, kind |-> kind, of |-> of]

\* Requests that several programs make; the method is the action's name.
SaveEnterpriseSyncData(u, d, h, zip, private) ==
  [method |-> "SaveEnterpriseSyncData", u |-> u, d |-> d, h |-> h, zip |-> zip, private |-> private]
UpdateEnterpriseSyncData(u, h, d) ==
  [method |-> "UpdateEnterpriseSyncData", u |-> u, h |-> h, d |-> d]
PutMission(m, c, role) == [method |-> "PutMission", m |-> m, c |-> c, role |-> role]
AddMissionContents(m, hs) == [method |-> "AddMissionContents", m |-> m, hs |-> hs]
AddMissionExternalData(m, e, u) == [method |-> "AddMissionExternalData", m |-> m, e |-> e, u |-> u]
Notify(kind, m, of) == [method |-> "Notify", kind |-> kind, m |-> m, of |-> of]

save_enterprise_sync_data(u, d, h, zip, private) ==
  << [op |-> "save_file", u |-> u, d |-> d],
     [op |-> "create_row", row |-> [uid |-> u, hash |-> h, zip |-> zip, private |-> private]] >>

update_enterprise_sync_data(u, h, d) ==
  << [op |-> "update_file", u |-> u, d |-> d], [op |-> "update_row", u |-> u, h |-> h, p |-> 0] >>

\* "private" is passed on only when the request has a value for it.
update_enterprise_sync_metadata(u, p) == << [op |-> "update_row", u |-> u, h |-> NoData, p |-> p] >>

\* Faulty: the row is deleted first.
DeleteRowFirst(h) == << [op |-> "delete_row", h |-> h], [op |-> "delete_file", h |-> h] >>

delete_enterprise_sync_data(h) ==
  << [op |-> "delete_file", h |-> h], [op |-> "delete_row", h |-> h] >>

\* The record of the creation is the last thing, after the answer was built.
put_mission(m, c, role) ==
  << [op |-> "create_mission", m |-> m, role |-> role],
     [op |-> "create_subscription", m |-> m, c |-> c],
     [op |-> "construct", m |-> m],
     [op |-> "change", type |-> "CREATE_MISSION", m |-> m, kind |-> "mission", of |-> None] >>

get_mission(m) == << [op |-> "construct", m |-> m] >>

add_contents_to_mission(m, hs) ==
  << [op |-> "get_metadata", m |-> m, hs |-> hs, todo |-> hs, mds |-> <<>>], [op |-> "construct", m |-> m] >>

\* Faulty: the change is recorded before the content is stored.
AddContentRecordFirst(m, md, d) ==
  << Record(m, "content", md.hash),
     [op |-> "create_content", m |-> m, x |-> md.hash],
     [op |-> "update_mission", m |-> m, x |-> md.hash] >>

\* Faulty: the hash is taken off the list before the change is recorded.
AddContentRaiseEarly(m, md, d) ==
  LET x == IF md.zip /\ d \in DOMAIN InnerOf THEN InnerOf[d] ELSE md.hash
  IN << [op |-> "create_content", m |-> m, x |-> x], [op |-> "update_mission", m |-> m, x |-> x] >>
     \o (IF md.zip THEN <<Throw>> ELSE << Record(m, "content", x) >>)

\* One round of its loop, for the metadata and the data that zip() pairs up.  A
\* mission package is unpacked: what is inside is saved by an asynchronous job
\* and becomes the content.  Its hash replaces that of the metadata object, and
\* removing that from the list of hashes raises, after everything was recorded.
AddContent(m, md, d) ==
  LET x == IF md.zip /\ d \in DOMAIN InnerOf THEN InnerOf[d] ELSE md.hash
      store == << [op |-> "create_content", m |-> m, x |-> x],
                  [op |-> "update_mission", m |-> m, x |-> x],
                  Record(m, "content", x) >>
  IN IF ~md.zip THEN store
     ELSE IF d \in DOMAIN InnerOf
          THEN <<Post(SaveEnterpriseSyncData(x, x, x, FALSE, 1))>> \o store \o <<Throw>>
          ELSE <<Throw>>   \* BadZipFile: the data of another object

\* The loops.  zip() ends with the shorter list.
ForContents(m, mds, data) ==
  IF mds = <<>> \/ data = <<>> THEN <<>>
  ELSE << [op |-> "for_contents", m |-> m, mds |-> mds, data |-> data] >>

ForMissions(ms, c) == IF ms = <<>> THEN <<>> ELSE << [op |-> "for_missions", ms |-> ms, c |-> c] >>

ForTasks(k, ts) == IF ts = <<>> THEN <<>> ELSE << [op |-> "for_tasks", k |-> k, ts |-> ts] >>

add_mission_subscription(m, c) ==
  << [op |-> "subscribe", m |-> m, c |-> c], [op |-> "complete_subscription", m |-> m] >>

delete_mission_subscription(m, c) == << [op |-> "delete_subscription", m |-> m, c |-> c] >>

notify(kind, m, of) == << [op |-> "notify", kind |-> kind, m |-> m, of |-> of] >>

send_invitation(m, c) ==
  add_mission_subscription(m, c)
    \o << [op |-> "create_invitation", m |-> m, c |-> c] >> \o notify("invitation", m, None)

add_mission_log(l, ms) ==
  << [op |-> "create_log", l |-> l, ms |-> ms] >> \o [i \in DOMAIN ms |-> Record(ms[i], "log", None)]

update_mission_log(l, ms) == << [op |-> "update_log", l |-> l, ms |-> ms] >>

delete_log(l) == << [op |-> "delete_log", l |-> l] >>

add_mission_external_data(m, e, u) ==
  << [op |-> "add_external_data", m |-> m, e |-> e, u |-> u], Record(m, "external", e) >>

add_child_to_parent(child, parent) == << [op |-> "add_parent", child |-> child, parent |-> parent] >>

delete_parent(child) == << [op |-> "remove_parent", child |-> child] >>

\* One round of its loop.
MissionCot(m, c) == << [op |-> "create_cot", m |-> m, c |-> c], Record(m, "cot", c) >>

create_mission_cots(ms, c) == ForMissions(ms, c) \o <<Post(Notify("cot", None, c))>>

\* Faulty: the missions are told first.
TellMissionsFirst(ms, c) ==
  << Post([method |-> "CreateMissionCots", ms |-> ms, c |-> c]), [op |-> "store_cot", c |-> c] >>

\* A CoT with missions among its destinations is stored before the missions are told.
cot_event_chain_of_command(ms, c) ==
  << [op |-> "store_cot", c |-> c], Post([method |-> "CreateMissionCots", ms |-> ms, c |-> c]) >>

create_template_prog(t) ==
  << [op |-> "create_template", t |-> t],
     Call(SaveEnterpriseSyncData(t, t, t, FALSE, 0)),
     Call(AddMissionContents(TemplateMission, <<t>>)) >>

\* The document of a task; sha256 makes its hash.
TaskDoc(t, v) == [x \in {t} |-> v]

\* _save_tasks_in_checklist, one round: the document, then the row.
SaveTask(k, t) ==
  << Call(SaveEnterpriseSyncData(t, TaskDoc(t, 0), TaskDoc(t, 0), FALSE, 0)),
     [op |-> "create_task", k |-> k, t |-> t] >>

\* The last two calls of start_checklist.
SaveChecklist(k, ts) ==
  LET doc == [x \in Range(ts) |-> 0]
  IN << Call(SaveEnterpriseSyncData(k, doc, doc, FALSE, 0)),
        Call(PutMission(k, ExCheckClient, "MISSION_OWNER")) >>

\* Faulty: the document of the checklist is saved before those of its tasks.
StartWithDocument(k, t) ==
  << [op |-> "read_document", u |-> t], [op |-> "create_checklist", k |-> k] >>
    \o SaveChecklist(k, TasksOf[t][k]) \o ForTasks(k, TasksOf[t][k])

\* A new checklist: its row, each task, its own document, its mission.
start_checklist(k, t) ==
  << [op |-> "read_document", u |-> t], [op |-> "create_checklist", k |-> k] >>
    \o ForTasks(k, TasksOf[t][k]) \o SaveChecklist(k, TasksOf[t][k])

update_checklist_task(k, t, v) ==
  << Call(UpdateEnterpriseSyncData(t, TaskDoc(t, v), TaskDoc(t, v))),
     [op |-> "replace_task", k |-> k, t |-> t, v |-> v] >>

add_checklist_to_mission(k, m, e) ==
  << [op |-> "read_document", u |-> k], Call(AddMissionExternalData(m, e, k)),
     [op |-> "link", k |-> k, m |-> m] >>

-----------------------------------------------------------------------------
(* Requests of the endpoints, each the set of its programs in this instance. *)

NewId == nreq + 1   \* the number of a request stands for the uuid it draws

Users == Clients \ {ExCheckClient}

PutMissionRequest ==
  {<<Call(PutMission(m, c, r)), Post(Notify("created", m, None))>> :
     m \in ClientMissions, c \in Users, r \in {"MISSION_SUBSCRIBER", None}}

AddMissionContentsRequest ==
  {<<Call(AddMissionContents(m, hs))>> \o [i \in DOMAIN hs |-> Post(Notify("content", None, hs[i]))] :
     m \in ClientMissions, hs \in HashLists}

\* Upload and addition in one; clients send mission packages this way.
MissionPackageRequest ==
  {<<Call(SaveEnterpriseSyncData(x, x, x, TRUE, 0)), NeedResult, Call(AddMissionContents(m, <<x>>))>> :
     m \in ClientMissions, x \in DOMAIN InnerOf}

AddLogEntryRequest ==
  {<<Call([method |-> "AddMissionLog", l |-> NewId, ms |-> ms]), NeedResult,
     Post(Notify("log", None, NewId))>> : ms \in MissionLists}

UpdateLogEntryRequest ==
  {<<Call([method |-> "UpdateMissionLog", l |-> l, ms |-> <<m>>])>> : l \in 1..nreq, m \in ClientMissions}

DeleteLogEntryRequest == {<<Call([method |-> "DeleteMissionLog", l |-> l])>> : l \in 1..nreq}

AddParentRequest ==
  {<<Call([method |-> "AddChildToParent", child |-> m, parent |-> n])>> :
     m \in ClientMissions, n \in ClientMissions}

DeleteParentRequest == {<<Call([method |-> "DeleteParent", child |-> m])>> : m \in ClientMissions}

SubscribeRequest ==
  {<<Call([method |-> "AddMissionSubscription", m |-> m, c |-> c])>> : m \in ClientMissions, c \in Users}

UnsubscribeRequest ==
  {<<Call([method |-> "DeleteMissionSubscription", m |-> m, c |-> c])>> : m \in ClientMissions, c \in Users}

\* The invitation is asked for only if GetMission answered with the mission.
InviteRequest ==
  {<<Call([method |-> "GetMission", m |-> m]), NeedResult,
     Post([method |-> "SendInvitation", m |-> m, c |-> c])>> : m \in ClientMissions, c \in Users}

ExternalDataRequest ==
  {<<Call(AddMissionExternalData(m, NewId, u))>> : m \in ClientMissions, u \in ExtUids}

UploadRequest == {<<Call(SaveEnterpriseSyncData(x, x, x, x \in DOMAIN InnerOf, 0))>> : x \in Packages}

\* Made private; made public is what every other update does as well.
PutToolRequest == {<<Post([method |-> "UpdateEnterpriseSyncMetaData", u |-> x, p |-> 1])>> : x \in Packages}

DeletePackageRequest == {<<Call([method |-> "DeleteEnterpriseSyncData", h |-> x])>> : x \in Packages}

TemplateRequest == {<<Post([method |-> "CreateTemplate", t |-> t])>> : t \in Templates \ Loaded}

\* start_checklist draws a new uid for the checklist.
StartChecklistRequest(k) == {<<Call([method |-> "StartChecklist", k |-> k, t |-> t])>> : t \in Templates}

\* A client knows the uid of a checklist from the answer to its start, whose last
\* part is the mission of the checklist, and the tasks from its document.
Started == {k \in Checklists : Exists(k) /\ files[k] # NoData}

UpdateTaskRequest ==
  UNION {{<<Call([method |-> "UpdateChecklistTask", k |-> k, t |-> t, v |-> v])>> :
            t \in DOMAIN files[k], v \in 1..MaxVersion} : k \in Started}

ChecklistMissionRequest ==
  {<<Call([method |-> "AddChecklistToMission", k |-> k, m |-> m, e |-> NewId]),
     Post(Notify("external", m, k))>> : k \in Started, m \in ClientMissions}

-----------------------------------------------------------------------------
(* The processes. *)

Idle(p) == proc[p].stack = <<>>

Top(p) == proc[p].stack[Len(proc[p].stack)]   \* the innermost program

Stmt(p) == Head(Top(p))

Rest(p) == Tail(Top(p))

Outer(p) == SubSeq(proc[p].stack, 1, Len(proc[p].stack) - 1)

\* Process p goes on with these programs; the innermost that have nothing left
\* have returned to their callers.
Resume(p, progs, ok) ==
  \E n \in 0..Len(progs) :
    /\ \A i \in (n+1)..Len(progs) : progs[i] = <<>>
    /\ n # 0 => progs[n] # <<>>
    /\ proc' = [proc EXCEPT ![p] = [stack |-> SubSeq(progs, 1, n), ok |-> ok \/ n # Len(progs)]]

Continue(p, code) == Resume(p, Append(Outer(p), code), proc[p].ok)

Advance(p) == Continue(p, Rest(p))

\* An exception: the facade of the innermost program logs it and returns.
Raise(p) == Resume(p, Outer(p), FALSE)

\* The action mapping: process p, with these programs to return to, runs the
\* program of request r.
Run(p, outer, r) ==
  LET start(prog) == Resume(p, Append(outer, prog), TRUE)
  IN \/ r.method = "SaveEnterpriseSyncData" /\ start(save_enterprise_sync_data(r.u, r.d, r.h, r.zip, r.private))
     \/ r.method = "UpdateEnterpriseSyncData" /\ start(update_enterprise_sync_data(r.u, r.h, r.d))
     \/ r.method = "UpdateEnterpriseSyncMetaData" /\ start(update_enterprise_sync_metadata(r.u, r.p))
     \/ r.method = "DeleteEnterpriseSyncData" /\ start(delete_enterprise_sync_data(r.h))
     \/ r.method = "PutMission" /\ start(put_mission(r.m, r.c, r.role))
     \/ r.method = "GetMission" /\ start(get_mission(r.m))
     \/ r.method = "AddMissionContents" /\ start(add_contents_to_mission(r.m, r.hs))
     \/ r.method = "AddMissionSubscription" /\ start(add_mission_subscription(r.m, r.c))
     \/ r.method = "DeleteMissionSubscription" /\ start(delete_mission_subscription(r.m, r.c))
     \/ r.method = "SendInvitation" /\ start(send_invitation(r.m, r.c))
     \/ r.method = "AddMissionLog" /\ start(add_mission_log(r.l, r.ms))
     \/ r.method = "UpdateMissionLog" /\ start(update_mission_log(r.l, r.ms))
     \/ r.method = "DeleteMissionLog" /\ start(delete_log(r.l))
     \/ r.method = "AddMissionExternalData" /\ start(add_mission_external_data(r.m, r.e, r.u))
     \/ r.method = "AddChildToParent" /\ start(add_child_to_parent(r.child, r.parent))
     \/ r.method = "DeleteParent" /\ start(delete_parent(r.child))
     \/ r.method = "CreateMissionCots" /\ start(create_mission_cots(r.ms, r.c))
     \/ r.method = "CotEvent" /\ start(cot_event_chain_of_command(r.ms, r.c))
     \/ r.method = "CreateTemplate" /\ start(create_template_prog(r.t))
     \/ r.method = "StartChecklist" /\ start(start_checklist(r.k, r.t))
     \/ r.method = "UpdateChecklistTask" /\ start(update_checklist_task(r.k, r.t, r.v))
     \/ r.method = "AddChecklistToMission" /\ start(add_checklist_to_mission(r.k, r.m, r.e))
     \/ r.method = "Notify" /\ start(notify(r.kind, r.m, r.of))

\* A statement on one of the stores: it has its effect if "can" holds and raises
\* otherwise.  Nothing else changes.
Attempt(p, can, effect, store) ==
  \/ can /\ effect /\ Advance(p)
  \/ ~can /\ UNCHANGED store /\ Raise(p)

OnMission(p, can, effect) ==
  /\ Attempt(p, can, effect, mVars) /\ UNCHANGED <<esVars, xVars, queue, cotStore, published, drawn, nreq>>

OnSync(p, can, effect) ==
  /\ Attempt(p, can, effect, esVars) /\ UNCHANGED <<mVars, xVars, queue, cotStore, published, drawn, nreq>>

OnExCheck(p, can, effect) ==
  /\ Attempt(p, can, effect, xVars) /\ UNCHANGED <<esVars, mVars, queue, cotStore, published, drawn, nreq>>

\* A bag of jobs with one more, and with one less.
With(jobs, job) == jobs (+) SetToBag({job})

Without(jobs, job) == jobs (-) SetToBag({job})

stores == <<esVars, mVars, xVars, cotStore, published>>

\* An API service takes a request, when it is idle (Serve); a CoT event comes from
\* a CoT service.
Accept(a, e, progs, ks) ==
  /\ e \in Endpoints
  /\ \E prog \in progs : Resume(a, <<prog>>, TRUE)
  /\ nreq' = nreq + 1
  /\ drawn' = drawn \cup ks
  /\ UNCHANGED <<stores, queue>>

Receive(a, e, progs) == Accept(a, e, progs, {})

StartChecklist(a) ==
  /\ drawn # Checklists
  /\ LET k == CHOOSE k \in Checklists : k \notin drawn
     IN Accept(a, "StartChecklist", StartChecklistRequest(k), {k})

CotEvent ==
  /\ "CotEvent" \in Endpoints /\ nreq < MaxRequests
  /\ \E c \in Cots, ms \in MissionLists :
       queue' = With(queue, [method |-> "CotEvent", ms |-> ms, c |-> c])
  /\ nreq' = nreq + 1
  /\ UNCHANGED <<stores, drawn, proc>>

TakeJob(w) ==
  /\ Idle(w)
  /\ \E job \in DOMAIN queue :
       /\ queue' = Without(queue, job)
       /\ Run(w, <<>>, job)
  /\ UNCHANGED <<stores, drawn, nreq>>

-----------------------------------------------------------------------------
(* Statements, one action each; s is the statement process p is at. *)

CallStep(p, s) ==
  s.op = "call" /\ Run(p, Append(Outer(p), Rest(p)), s.req) /\ UNCHANGED <<stores, queue, drawn, nreq>>

\* The next round of a loop.
ForContentsStep(p, s) ==
  /\ s.op = "for_contents"
  /\ Continue(p, AddContent(s.m, Head(s.mds), Head(s.data))
                   \o ForContents(s.m, Tail(s.mds), Tail(s.data)) \o Rest(p))
  /\ UNCHANGED <<stores, queue, drawn, nreq>>

ForMissionsStep(p, s) ==
  /\ s.op = "for_missions"
  /\ Continue(p, MissionCot(Head(s.ms), s.c) \o ForMissions(Tail(s.ms), s.c) \o Rest(p))
  /\ UNCHANGED <<stores, queue, drawn, nreq>>

ForTasksStep(p, s) ==
  /\ s.op = "for_tasks"
  /\ Continue(p, SaveTask(s.k, Head(s.ts)) \o ForTasks(s.k, Tail(s.ts)) \o Rest(p))
  /\ UNCHANGED <<stores, queue, drawn, nreq>>

PostStep(p, s) ==
  /\ s.op = "post"
  /\ queue' = With(queue, s.req)
  /\ Advance(p) /\ UNCHANGED <<stores, drawn, nreq>>

NeedStep(p, s) ==
  /\ s.op = "need_result"
  /\ IF proc[p].ok THEN Advance(p) ELSE Raise(p)
  /\ UNCHANGED <<stores, queue, drawn, nreq>>

RaiseStep(p, s) == s.op = "raise" /\ Raise(p) /\ UNCHANGED <<stores, queue, drawn, nreq>>

CreateMission(p, s) ==
  s.op = "create_mission" /\ OnMission(p, CanCreateMission(s.m), create_mission(s.m, s.role))

\* Faulty: a role that register() does not create.
CreateSubscriptionReadOnly(p, s) ==
  /\ s.op = "create_subscription"
  /\ OnMission(p, TRUE, create_subscription(s.m, s.c, "MISSION_READONLY_SUBSCRIBER"))

\* put_mission subscribes the creator as the owner
CreateSubscription(p, s) ==
  s.op = "create_subscription" /\ OnMission(p, TRUE, create_subscription(s.m, s.c, "MISSION_OWNER"))

Subscribe(p, s) ==
  /\ s.op = "subscribe"
  /\ OnMission(p, Exists(s.m), create_subscription(s.m, s.c, missions[s.m]))

\* mission_director.construct raises if the mission, its role, the metadata of a
\* content or a CoT is missing.
Constructible(m) ==
  /\ Exists(m) /\ missions[m] # None
  /\ \A r \in contents : r.mission = m => HasMetadata(r.id)
  /\ \A c \in Cots : <<c, m>> \in cots => c \in cotStore

Construct(p, s) == s.op = "construct" /\ OnMission(p, Constructible(s.m), UNCHANGED mVars)

CompleteSubscription(p, s) ==
  s.op = "complete_subscription" /\ OnMission(p, missions[s.m] # None, UNCHANGED mVars)

RecordChange(p, s) ==
  s.op = "change" /\ OnMission(p, TRUE, create_mission_change(s.type, s.m, s.kind, s.of))

DeleteSubscription(p, s) ==
  /\ s.op = "delete_subscription"
  /\ OnMission(p, CanDeleteSubscription(s.m, s.c), delete_subscription(s.m, s.c))

\* The first subscription of the client, which need not be the one just made,
\* and may be gone again.
CreateInvitation(p, s) ==
  /\ s.op = "create_invitation"
  /\ OnMission(p, SubOf(s.m, s.c) # {}, \E i \in SubOf(s.m, s.c) : create_invitation(s.m, subs[i].id))

CreateContent(p, s) ==
  s.op = "create_content" /\ OnMission(p, CanCreateContent(s.m, s.x), create_mission_content(s.m, s.x))

UpdateMission(p, s) ==
  s.op = "update_mission" /\ OnMission(p, Exists(s.m), update_mission(s.m, s.x))

CreateCot(p, s) ==
  s.op = "create_cot" /\ OnMission(p, CanCreateCot(s.m, s.c), create_mission_cot(s.m, s.c))

CreateLog(p, s) == s.op = "create_log" /\ OnMission(p, CanLog(s.ms), create_log(s.l, s.ms))

UpdateLog(p, s) ==
  s.op = "update_log" /\ OnMission(p, s.l \in logs /\ CanLog(s.ms), update_log(s.l, s.ms))

DeleteLog(p, s) == s.op = "delete_log" /\ OnMission(p, s.l \in logs, delete_mission_log(s.l))

AddExternalData(p, s) ==
  s.op = "add_external_data" /\ OnMission(p, Exists(s.m), add_external_data(s.m, s.e, s.u))

\* Nothing happens when one of the missions does not exist.
AddParent(p, s) ==
  /\ s.op = "add_parent"
  /\ OnMission(p, TRUE, IF Exists(s.child) /\ Exists(s.parent)
                        THEN add_parent_to_mission(s.child, s.parent) ELSE UNCHANGED mVars)

\* parent_missions[0] raises when the mission has no parent.
RemoveParent(p, s) ==
  /\ s.op = "remove_parent"
  /\ OnMission(p, Exists(s.child) => HasParent(s.child),
               IF Exists(s.child) THEN remove_parent_from_mission(s.child) ELSE UNCHANGED mVars)

\* What is announced: the mission of the first change of the content, the first
\* mission of the log entry, a mission of the CoT.  Whatever is missing raises.
Announced(s) ==
  {m \in Missions :
     \/ s.kind \in {"created", "invitation"} /\ m = s.m /\ (s.kind = "created" => Exists(m))
     \/ /\ s.kind = "content"
        /\ \E i \in FirstOf({j \in DOMAIN changes : changes[j].kind = "content" /\ changes[j].of = s.of}) :
             changes[i].mission = m
     \/ /\ s.kind = "log"
        /\ \E i \in FirstOf({j \in DOMAIN mlogs : mlogs[j][1] = s.of}) : mlogs[i][2] = m
     \/ s.kind = "cot" /\ Exists(m) /\ <<s.of, m>> \in cots
     \/ s.kind = "external" /\ m = s.m /\ \E r \in ext : r.uid = s.of /\ r.mission = m}

NotifyStep(p, s) ==
  /\ s.op = "notify"
  /\ \/ \E m \in Announced(s) :
          /\ published' = published \cup {[kind |-> s.kind, mission |-> m, of |-> s.of]}
          /\ Advance(p)
     \/ Announced(s) = {} /\ UNCHANGED published /\ Raise(p)
  /\ UNCHANGED <<esVars, mVars, xVars, cotStore, queue, drawn, nreq>>

SaveFile(p, s) == s.op = "save_file" /\ OnSync(p, TRUE, save_file(s.u, s.d))

CreateRow(p, s) == s.op = "create_row" /\ OnSync(p, TRUE, create_enterprise_sync_data_object(s.row))

UpdateFile(p, s) ==
  /\ s.op = "update_file"
  /\ OnSync(p, get_enterprise_sync_data_object(s.u, NoData) # {}, save_file(s.u, s.d))

UpdateRow(p, s) == s.op = "update_row" /\ OnSync(p, TRUE, update_enterprise_sync_object(s.u, s.h, s.p))

\* The file of the first row of this hash; os.remove raises when it is not there.
DeleteFile(p, s) ==
  LET hits == {r \in MetadataOf(s.h) : files[r.uid] # NoData}
  IN s.op = "delete_file" /\ OnSync(p, hits # {}, \E r \in hits : delete_file(r.uid))

DeleteRow(p, s) ==
  s.op = "delete_row" /\ OnSync(p, MetadataOf(s.h) # {}, delete_enterprise_sync_object(s.h))

\* GetMultipleEnterpriseSyncMetaData, then GetMultipleEnterpriseSyncData, each one
\* query per hash: another process may delete or add an object in between.
GetMetadata(p, s) ==
  LET next(mds) ==
        IF Len(s.todo) = 1
        THEN << [op |-> "get_data", m |-> s.m, todo |-> s.hs, mds |-> mds, data |-> <<>>] >>
        ELSE << [op |-> "get_metadata", m |-> s.m, hs |-> s.hs, todo |-> Tail(s.todo), mds |-> mds] >>
      found == MetadataOf(Head(s.todo))
  IN /\ s.op = "get_metadata"
     /\ \/ \E md \in found : Continue(p, next(Append(s.mds, md)) \o Rest(p))
        \/ found = {} /\ Continue(p, next(s.mds) \o Rest(p))
     /\ UNCHANGED <<stores, queue, drawn, nreq>>

GetData(p, s) ==
  LET next(data) ==
        IF Len(s.todo) = 1
        THEN ForContents(s.m, s.mds, data)
        ELSE << [op |-> "get_data", m |-> s.m, todo |-> Tail(s.todo), mds |-> s.mds, data |-> data] >>
      found == DataOf(Head(s.todo))
  IN /\ s.op = "get_data"
     /\ \/ \E d \in found : Continue(p, next(Append(s.data, d)) \o Rest(p))
        \/ found = {} /\ Continue(p, next(s.data) \o Rest(p))
     /\ UNCHANGED <<stores, queue, drawn, nreq>>

StoreCot(p, s) ==
  /\ s.op = "store_cot"
  /\ cotStore' = cotStore \cup {s.c}
  /\ Advance(p) /\ UNCHANGED <<esVars, mVars, xVars, published, queue, drawn, nreq>>

CreateTemplate(p, s) == s.op = "create_template" /\ OnExCheck(p, TRUE, create_template(s.t))

CreateChecklist(p, s) == s.op = "create_checklist" /\ OnExCheck(p, TRUE, create_checklist(s.k))

CreateTask(p, s) ==
  s.op = "create_task" /\ OnExCheck(p, s.t \notin DOMAIN tasks, create_checklist_task(s.k, s.t))

ReadDocument(p, s) == s.op = "read_document" /\ OnExCheck(p, Readable(s.u), UNCHANGED xVars)

LinkChecklist(p, s) == s.op = "link" /\ OnExCheck(p, TRUE, add_mission_checklist_mapping(s.k, s.m))

\* The checklist document is read here and written back, with one task
\* replaced, by the program called; the hash given with it is still that of
\* the task.
ReplaceTask(p, s) ==
  /\ s.op = "replace_task"
  /\ IF Readable(s.k) /\ s.t \in DOMAIN files[s.k]
     THEN Continue(p, <<Call(UpdateEnterpriseSyncData(s.k, TaskDoc(s.t, s.v), [files[s.k] EXCEPT ![s.t] = s.v]))>>
                        \o Rest(p))
     ELSE Raise(p)
  /\ UNCHANGED <<stores, queue, drawn, nreq>>

-----------------------------------------------------------------------------
(* The statements of each component, and of the programs themselves. *)

SyncOps == {"save_file", "update_file", "create_row", "update_row", "delete_file", "delete_row"}

MissionOps ==
  {"change", "notify", "create_mission", "construct", "complete_subscription",
   "create_subscription", "subscribe", "delete_subscription", "create_invitation", "create_content",
   "update_mission", "create_cot", "create_log", "update_log", "delete_log", "add_external_data",
   "add_parent", "remove_parent", "store_cot"}

ExCheckOps ==
  {"create_template", "create_checklist", "create_task", "read_document", "link", "replace_task"}

ControlOps ==
  {"call", "post", "need_result", "raise", "get_metadata", "get_data", "for_contents", "for_missions",
   "for_tasks"}

SyncStep(p, s) ==
  /\ s.op \in SyncOps
  /\ \/ SaveFile(p, s) \/ UpdateFile(p, s) \/ CreateRow(p, s) \/ UpdateRow(p, s)
     \/ DeleteFile(p, s) \/ DeleteRow(p, s)

MissionStep(p, s) ==
  /\ s.op \in MissionOps
  /\ \/ CreateMission(p, s) \/ CreateSubscription(p, s) \/ Subscribe(p, s) \/ Construct(p, s)
     \/ CompleteSubscription(p, s) \/ RecordChange(p, s) \/ DeleteSubscription(p, s)
     \/ CreateInvitation(p, s) \/ CreateContent(p, s) \/ UpdateMission(p, s) \/ CreateCot(p, s)
     \/ CreateLog(p, s) \/ UpdateLog(p, s) \/ DeleteLog(p, s) \/ AddExternalData(p, s)
     \/ AddParent(p, s) \/ RemoveParent(p, s) \/ NotifyStep(p, s) \/ StoreCot(p, s)

ExCheckStep(p, s) ==
  /\ s.op \in ExCheckOps
  /\ \/ CreateTemplate(p, s) \/ CreateChecklist(p, s) \/ CreateTask(p, s)
     \/ ReadDocument(p, s) \/ LinkChecklist(p, s) \/ ReplaceTask(p, s)

ControlStep(p, s) ==
  /\ s.op \in ControlOps
  /\ \/ CallStep(p, s) \/ PostStep(p, s) \/ NeedStep(p, s) \/ RaiseStep(p, s)
     \/ ForContentsStep(p, s) \/ ForMissionsStep(p, s) \/ ForTasksStep(p, s)
     \/ GetMetadata(p, s) \/ GetData(p, s)

Step(p) ==
  /\ ~Idle(p)
  /\ LET s == Stmt(p)
     IN SyncStep(p, s) \/ MissionStep(p, s) \/ ExCheckStep(p, s) \/ ControlStep(p, s)

Serve(a) ==
  /\ nreq < MaxRequests /\ Idle(a)
  /\ \/ Receive(a, "PutMission", PutMissionRequest)
     \/ Receive(a, "AddMissionContents", AddMissionContentsRequest)
     \/ Receive(a, "MissionPackage", MissionPackageRequest)
     \/ Receive(a, "AddLogEntry", AddLogEntryRequest)
     \/ Receive(a, "UpdateLogEntry", UpdateLogEntryRequest)
     \/ Receive(a, "DeleteLogEntry", DeleteLogEntryRequest)
     \/ Receive(a, "AddParent", AddParentRequest)
     \/ Receive(a, "DeleteParent", DeleteParentRequest)
     \/ Receive(a, "Subscribe", SubscribeRequest)
     \/ Receive(a, "Unsubscribe", UnsubscribeRequest)
     \/ Receive(a, "Invite", InviteRequest)
     \/ Receive(a, "ExternalData", ExternalDataRequest)
     \/ Receive(a, "Upload", UploadRequest)
     \/ Receive(a, "PutTool", PutToolRequest)
     \/ Receive(a, "DeletePackage", DeletePackageRequest)
     \/ Receive(a, "Template", TemplateRequest)
     \/ StartChecklist(a)
     \/ Receive(a, "UpdateTask", UpdateTaskRequest)
     \/ Receive(a, "ChecklistMission", ChecklistMissionRequest)

Next ==
  \/ \E a \in Apis : Serve(a)
  \/ CotEvent
  \/ \E w \in Workers : TakeJob(w)
  \/ \E p \in Procs : Step(p)

Spec == Init /\ [][Next]_vars

-----------------------------------------------------------------------------
(* Properties. *)

\* Nothing is running and nothing is waiting for a worker.
Quiet == queue = EmptyBag /\ \A p \in Procs : Idle(p)

\* A mission is created once, whichever services and workers try at the same
\* time: the table of changes (create_mission_change at the end of put_mission)
\* never has two CREATE_MISSION records of one mission.
CreatedOnce ==
  \A i, j \in DOMAIN changes :
    /\ changes[i].type = "CREATE_MISSION" /\ changes[j].type = "CREATE_MISSION"
    /\ changes[i].mission = changes[j].mission
    => i = j

\* A record of a change, and a notification sent to the subscribers, never speak
\* of something their mission does not hold: the change controller and the
\* notification controller run after the row was committed, also when another
\* process added the same content to another mission.
RecordsAreBacked ==
  /\ \A i \in DOMAIN changes :
       LET x == changes[i] IN x.mission # None => x.of \in Backing(x.mission)[x.kind]
  /\ \A n \in published :
       n.kind \in {"content", "cot"} => n.of \in Backing(n.mission)[n.kind]

\* When the server is quiet every content that reached its mission, every CoT and
\* every external datum of a mission has its record of change, although the row
\* and the record are separate commits and a later step of the loop may raise.
RecordedWhenQuiet ==
  Quiet =>
    LET Recorded(kind, of, ms) ==
          \E i \in DOMAIN changes :
            changes[i].kind = kind /\ changes[i].of = of /\ changes[i].mission \in ms
    IN /\ \A r \in contents : r.linked => Recorded("content", r.id, {r.mission})
       /\ \A x \in cots : Recorded("cot", x[1], {x[2], None})
       /\ \A r \in ext : Recorded("external", r.id, {r.mission})

\* The CoT of a mission is always in the CoT store that mission_director looks it
\* up in: cot_event_chain_of_command stores it before it tells the missions,
\* which another worker may do at once.
MissionCotsResolve == \A x \in cots : x[1] \in cotStore

\* A checklist that can be read has all of its tasks, as rows of its own and as
\* documents, also while it is being started and when its start was broken off
\* because a task was taken by an earlier checklist of the same template; and a
\* checklist has a mission only once it can be read.
DocumentsComplete ==
  \A k \in Checklists :
    /\ files[k] # NoData =>
         \A t \in DOMAIN files[k] : t \in DOMAIN tasks /\ tasks[t] = k /\ files[t] # NoData
    /\ Exists(k) => files[k] # NoData

\* When the server is quiet every stored file has a metadata row, so that it can
\* be found and deleted, however uploads and deletions of the same object were
\* interleaved (the converse is false: after two uploads a deletion leaves a row
\* without a file).
NoOrphanFiles ==
  Quiet => \A u \in Uids : files[u] # NoData => \E i \in DOMAIN rows : rows[i].uid = u
=============================================================================
