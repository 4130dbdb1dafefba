---------------------------- MODULE TakApi_proofs ----------------------------
(***************************************************************************)
(* The invariants of TakApi, for any number of API services, workers,      *)
(* missions, packages, templates and requests.                             *)
(***************************************************************************)
EXTENDS TakApi, FiniteSetTheorems, SequenceTheorems, TLAPS

-----------------------------------------------------------------------------
(* Types of requests and statements. *)

\* Objects whose hash, uid and content are one name; all others hold documents.
Objects == Packages \cup Templates

ContentOf(u) == IF u \in Objects THEN {u} ELSE Doc

Kinds == {"mission", "content", "cot", "external", "log"}
Notices == {"created", "content", "log", "cot", "external", "invitation"}
Subjects == Contents \cup Cots \cup Nat \cup {None}

\* Metadata rows of objects
Meta == {r \in Row : r.hash \in Objects}

NonEmpty(S) == Seq(S) \ {<<>>}

SyncRequest ==
  {r \in [method : {"SaveEnterpriseSyncData"}, u : Uids, d : Data, h : Data, zip : BOOLEAN,
          private : 0..1] : r.d \in ContentOf(r.u) /\ r.h \in ContentOf(r.u)}
  \cup {r \in [method : {"UpdateEnterpriseSyncData"}, u : Checklists \cup Tasks, h : Data, d : Data] :
          r.d \in ContentOf(r.u) /\ r.h \in ContentOf(r.u)}
  \cup [method : {"UpdateEnterpriseSyncMetaData"}, u : Packages, p : 0..1]
  \cup [method : {"DeleteEnterpriseSyncData"}, h : Packages]

MissionRequest ==
  [method : {"PutMission"}, m : Missions, c : Clients, role : Roles \cup {None}]
  \cup [method : {"GetMission"}, m : Missions]
  \cup [method : {"AddMissionContents"}, m : Missions, hs : NonEmpty(Objects)]
  \cup [method : {"AddMissionSubscription", "DeleteMissionSubscription", "SendInvitation"},
        m : Missions, c : Clients]
  \cup [method : {"AddMissionLog", "UpdateMissionLog"}, l : Nat, ms : Seq(Missions)]
  \cup [method : {"DeleteMissionLog"}, l : Nat]
  \cup [method : {"AddMissionExternalData"}, m : Missions, e : Nat, u : ExtUids]
  \cup [method : {"AddChildToParent"}, child : Missions, parent : Missions]
  \cup [method : {"DeleteParent"}, child : Missions]
  \cup [method : {"CreateMissionCots", "CotEvent"}, ms : Seq(Missions), c : Cots]
  \cup [method : {"Notify"}, kind : Notices, m : Missions \cup {None}, of : Subjects \cup ExtUids]

ExCheckRequest ==
  [method : {"CreateTemplate"}, t : Templates]
  \cup [method : {"StartChecklist"}, k : Checklists, t : Templates]
  \cup [method : {"UpdateChecklistTask"}, k : Checklists, t : Tasks, v : 0..MaxVersion]
  \cup [method : {"AddChecklistToMission"}, k : Checklists, m : Missions, e : Nat]

Request == SyncRequest \cup MissionRequest \cup ExCheckRequest

SyncStatement ==
  {s \in [op : {"save_file"}, u : Uids, d : Data] : s.d \in ContentOf(s.u)}
  \cup {s \in [op : {"update_file"}, u : Checklists \cup Tasks, d : Data] : s.d \in ContentOf(s.u)}
  \cup [op : {"create_row"}, row : {r \in Row : r.hash \in ContentOf(r.uid)}]
  \cup {s \in [op : {"update_row"}, u : Uids, h : Data \cup {NoData}, p : 0..1] :
          s.h = NoData \/ s.h \in ContentOf(s.u)}
  \cup [op : {"delete_file", "delete_row"}, h : Packages]

MissionStatement ==
  [op : {"change"}, type : {"CREATE_MISSION", "ADD_CONTENT"}, m : Missions, kind : Kinds, of : Subjects]
  \cup [op : {"notify"}, kind : Notices, m : Missions \cup {None}, of : Subjects \cup ExtUids]
  \cup [op : {"create_mission"}, m : Missions, role : Roles \cup {None}]
  \cup [op : {"construct", "complete_subscription"}, m : Missions]
  \cup [op : {"create_subscription", "subscribe", "delete_subscription", "create_invitation"},
        m : Missions, c : Clients]
  \cup [op : {"create_content", "update_mission"}, m : Missions, x : Objects]
  \cup [op : {"create_cot"}, m : Missions, c : Cots]
  \cup [op : {"create_log", "update_log"}, l : Nat, ms : Seq(Missions)]
  \cup [op : {"delete_log"}, l : Nat]
  \cup [op : {"add_external_data"}, m : Missions, e : Nat, u : ExtUids]
  \cup [op : {"add_parent"}, child : Missions, parent : Missions]
  \cup [op : {"remove_parent"}, child : Missions]
  \cup [op : {"store_cot"}, c : Cots]

ExCheckStatement ==
  [op : {"create_template"}, t : Templates]
  \cup [op : {"create_checklist"}, k : Checklists]
  \cup [op : {"create_task"}, k : Checklists, t : Tasks]
  \cup [op : {"read_document"}, u : Uids]
  \cup [op : {"link"}, k : Checklists, m : Missions]
  \cup [op : {"replace_task"}, k : Checklists, t : Tasks, v : 0..MaxVersion]

ControlStatement ==
  [op : {"call", "post"}, req : Request]
  \cup [op : {"need_result", "raise"}]
  \cup [op : {"get_metadata"}, m : Missions, hs : NonEmpty(Objects), todo : NonEmpty(Objects), mds : Seq(Meta)]
  \cup [op : {"get_data"}, m : Missions, todo : NonEmpty(Objects), mds : Seq(Meta), data : Seq(Data)]
  \cup [op : {"for_contents"}, m : Missions, mds : NonEmpty(Meta), data : NonEmpty(Data)]
  \cup [op : {"for_missions"}, ms : NonEmpty(Missions), c : Cots]
  \cup [op : {"for_tasks"}, k : Checklists, ts : NonEmpty(Tasks)]

Statement == SyncStatement \cup MissionStatement \cup ExCheckStatement \cup ControlStatement

Program == Seq(Statement)

\* A process is idle or its innermost program has something left.
ProcType ==
  /\ proc \in [Procs -> [stack : Seq(Program), ok : BOOLEAN]]
  /\ \A p \in Procs : proc[p].stack # <<>> => Top(p) # <<>>

StoreType ==
  /\ \A u \in Uids : files[u] \in ContentOf(u) \cup {NoData}
  /\ \A i \in DOMAIN rows : rows[i].hash \in ContentOf(rows[i].uid)

TypeInv == TypeOK /\ ProcType /\ StoreType /\ DOMAIN queue \subseteq Request

-----------------------------------------------------------------------------
(* What a statement relies on, and where that comes from: it is so already,  *)
(* or an earlier statement of the program (one of before) makes it so, or    *)
(* the statement at the head of the program called (the one of above) does.  *)

\* What statements may rely on: which tasks have their row and their document,
\* which uids of checklists and tasks have a document, which CoTs are stored,
\* and what missions hold.
WorldOf(fs, ts, stored, cont, cs, ex) ==
  [done |-> {x \in Checklists \X Tasks : x[2] \in DOMAIN ts /\ ts[x[2]] = x[1] /\ fs[x[2]] # NoData},
   saved |-> {u \in Checklists \cup Tasks : fs[u] # NoData},
   stored |-> stored,
   held |-> {<<r.mission, "content", r.id>> : r \in cont} \cup {<<x[2], "cot", x[1]>> : x \in cs}
              \cup {<<r.mission, "external", r.id>> : r \in ex}]

World == WorldOf(files, tasks, cotStore, contents, cots, ext)

TaskReady(w, k, t, before) ==
  \/ <<k, t>> \in w.done
  \/ \E h \in before : \/ h.op = "create_task" /\ h.k = k /\ h.t = t
                       \/ h.op = "for_tasks" /\ h.k = k /\ t \in Range(h.ts)

SavedReady(w, u, before, above) ==
  \/ u \in w.saved
  \/ \E h \in before : h.op = "call" /\ h.req.method = "SaveEnterpriseSyncData" /\ h.req.u = u
  \/ \E h \in above : h.op = "save_file" /\ h.u = u

CotReady(w, c, before) == c \in w.stored \/ \E h \in before : h.op = "store_cot" /\ h.c = c

HeldReady(w, m, kind, of, before) ==
  \/ kind \in {"mission", "log"} /\ of = None
  \/ <<m, kind, of>> \in w.held
  \/ \E h \in before : \/ kind = "content" /\ h.op = "create_content" /\ h.m = m /\ h.x = of
                       \/ kind = "cot" /\ h.op = "create_cot" /\ h.m = m /\ h.c = of
                       \/ kind = "external" /\ h.op = "add_external_data" /\ h.m = m /\ h.e = of

RequestReady(w, r, before, above) ==
  /\ r.method = "CreateMissionCots" => CotReady(w, r.c, before)
  /\ r.method \in {"SaveEnterpriseSyncData", "UpdateEnterpriseSyncData"} /\ r.u \in Checklists
       => \A t \in DOMAIN r.d : TaskReady(w, r.u, t, before)
  /\ r.method = "PutMission" /\ r.m \in Checklists => SavedReady(w, r.m, before, above)

Ready(w, s, before, above) ==
  /\ s.op \in {"call", "post"} => RequestReady(w, s.req, before, above)
  /\ s.op \in {"create_cot", "for_missions"} => CotReady(w, s.c, before)
  /\ s.op = "change" => HeldReady(w, s.m, s.kind, s.of, before)
  /\ s.op \in {"save_file", "update_file"} /\ s.u \in Checklists
       => \A t \in DOMAIN s.d : TaskReady(w, s.u, t, before)
  /\ s.op = "create_task" => SavedReady(w, s.t, before, above)
  /\ s.op = "create_mission" /\ s.m \in Checklists => s.m \in w.saved

Before(f, i) == {f[j] : j \in 1..(i-1)}

Above(st, n) == IF n < Len(st) /\ st[n+1] # <<>> THEN {Head(st[n+1])} ELSE {}

ProgramReady(w, f, above) == \A i \in DOMAIN f : Ready(w, f[i], Before(f, i), above)

StackReady(w, st) == \A n \in DOMAIN st : ProgramReady(w, st[n], Above(st, n))

\* The stores are right.
StoresRight ==
  /\ MissionCotsResolve
  /\ DocumentsComplete
  /\ \A i \in DOMAIN changes :
       LET x == changes[i] IN x.mission # None => HeldReady(World, x.mission, x.kind, x.of, {})
  /\ \A n \in published : n.kind \in {"content", "cot"} => <<n.mission, n.kind, n.of>> \in World.held

ReadyInv ==
  /\ StoresRight
  /\ \A r \in DOMAIN queue : RequestReady(World, r, {}, {})
  /\ \A p \in Procs : StackReady(World, proc[p].stack)

-----------------------------------------------------------------------------
(* The shape of programs: what follows what. *)

IsCreation(s) == s.op = "change" /\ s.type = "CREATE_MISSION"

Follows(a, b) ==
  /\ a.op = "update_mission" => b = Record(a.m, "content", a.x)
  /\ a.op = "create_cot" => b = Record(a.m, "cot", a.c)
  /\ a.op = "add_external_data" => b = Record(a.m, "external", a.e)
  /\ a.op = "save_file" => b.op = "create_row" /\ b.row.uid = a.u
  /\ b.op = "delete_row" => a.op = "delete_file" /\ a.h = b.h
  /\ ~IsCreation(a)

Ends(a) == a.op \notin {"update_mission", "create_cot", "add_external_data", "save_file"}

Shape(f) == \A i \in DOMAIN f : IF i < Len(f) THEN Follows(f[i], f[i+1]) ELSE Ends(f[i])

\* A program that has called another is not about to delete a row.
StackShape(st) ==
  /\ \A n \in DOMAIN st : Shape(st[n])
  /\ \A n \in DOMAIN st : n < Len(st) /\ st[n] # <<>> => Head(st[n]).op # "delete_row"

ShapeInv == \A p \in Procs : StackShape(proc[p].stack)

-----------------------------------------------------------------------------
(* The creation of a mission has been committed and is still to be recorded  *)
(* by program n of process p.                                                *)
Owes(f, m) ==
  /\ f # <<>> /\ IsCreation(f[Len(f)]) /\ f[Len(f)].m = m
  /\ \A i \in DOMAIN f : ~(f[i].op = "create_mission" /\ f[i].m = m)

Created(m) == \E i \in DOMAIN changes : changes[i].type = "CREATE_MISSION" /\ changes[i].mission = m

CreationsExist ==
  \A i \in DOMAIN changes : changes[i].type = "CREATE_MISSION" => changes[i].mission \in DOMAIN missions

Debts ==
  \A p \in Procs : \A n \in DOMAIN proc[p].stack : \A m \in Missions :
    Owes(proc[p].stack[n], m) =>
      /\ Exists(m) /\ ~Created(m)
      /\ \A q \in Procs : \A l \in DOMAIN proc[q].stack : Owes(proc[q].stack[l], m) => q = p /\ l = n

CreateInv == CreatedOnce /\ CreationsExist /\ Debts

-----------------------------------------------------------------------------
(* Rows that are still to be recorded. *)

Recorded(kind, of, ms) ==
  \E i \in DOMAIN changes : changes[i].kind = kind /\ changes[i].of = of /\ changes[i].mission \in ms

AtRecord(m, kind, of) == \E p \in Procs : ~Idle(p) /\ Stmt(p) = Record(m, kind, of)

RecordInv ==
  /\ \A r \in contents : r.linked =>
       Exists(r.mission) /\ (Recorded("content", r.id, {r.mission}) \/ AtRecord(r.mission, "content", r.id))
  /\ \A x \in cots : Recorded("cot", x[1], {x[2], None}) \/ AtRecord(x[2], "cot", x[1])
  /\ \A r \in ext :
       Exists(r.mission) /\ (Recorded("external", r.id, {r.mission}) \/ AtRecord(r.mission, "external", r.id))

-----------------------------------------------------------------------------
(* Rows of an object against what processes are about to add and to delete.  *)

RowsOf(u) == {i \in DOMAIN rows : rows[i].uid = u}

Adding(u) == {p \in Procs : ~Idle(p) /\ Stmt(p).op = "create_row" /\ Stmt(p).row.uid = u}

Deleting(u) == {p \in Procs : ~Idle(p) /\ Stmt(p).op = "delete_row" /\ Stmt(p).h = u}

CountInv ==
  \A u \in Uids :
    LET n == Cardinality(RowsOf(u)) + Cardinality(Adding(u))
    IN n >= Cardinality(Deleting(u)) /\ (files[u] # NoData => n > Cardinality(Deleting(u)))

-----------------------------------------------------------------------------
(* Statements and requests: their fields. *)

\* A statement belongs to the group of its operation.
LEMMA StatementGroups ==
  ASSUME NEW s \in Statement
  PROVE  /\ s.op \in SyncOps \cup MissionOps \cup ExCheckOps \cup ControlOps
         /\ s.op \in SyncOps => s \in SyncStatement
         /\ s.op \in MissionOps => s \in MissionStatement
         /\ s.op \in ExCheckOps => s \in ExCheckStatement
         /\ s.op \in ControlOps => s \in ControlStatement
<1>1. s \in SyncStatement => s.op \in SyncOps
  BY DEF SyncStatement, SyncOps
<1>2. s \in MissionStatement => s.op \in MissionOps
  BY DEF MissionStatement, MissionOps
<1>3. s \in ExCheckStatement => s.op \in ExCheckOps
  BY DEF ExCheckStatement, ExCheckOps
<1>4. s \in ControlStatement => s.op \in ControlOps
  BY DEF ControlStatement, ControlOps
<1>5. \A x \in SyncOps : x \notin MissionOps /\ x \notin ExCheckOps /\ x \notin ControlOps
  BY DEF SyncOps, MissionOps, ExCheckOps, ControlOps
<1>6. \A x \in MissionOps : x \notin ExCheckOps /\ x \notin ControlOps
  BY DEF MissionOps, ExCheckOps, ControlOps
<1>7. \A x \in ExCheckOps : x \notin ControlOps
  BY DEF ExCheckOps, ControlOps
<1> QED BY <1>1, <1>2, <1>3, <1>4, <1>5, <1>6, <1>7 DEF Statement

LEMMA SyncFields ==
  ASSUME NEW s \in Statement
  PROVE  /\ s.op \in {"save_file", "update_file"} =>
              s.u \in Uids /\ s.d \in Data /\ s.d \in ContentOf(s.u)
         /\ s.op = "update_file" => s.u \in Checklists \cup Tasks
         /\ s.op = "create_row" => s.row \in Row /\ s.row.hash \in ContentOf(s.row.uid)
         /\ s.op = "update_row" =>
              s.u \in Uids /\ (s.h = NoData \/ (s.h \in Data /\ s.h \in ContentOf(s.u))) /\ s.p \in 0..1
         /\ s.op \in {"delete_file", "delete_row"} => s.h \in Packages
<1>1. s.op \in SyncOps => s \in SyncStatement
  BY StatementGroups
<1>2. Checklists \cup Tasks \subseteq Uids
  BY TakApiAssumption
<1> QED BY <1>1, <1>2 DEF SyncStatement, SyncOps

LEMMA MissionFields ==
  ASSUME NEW s \in Statement
  PROVE  /\ s.op = "change" =>
              /\ s = [op |-> "change", type |-> s.type, m |-> s.m, kind |-> s.kind, of |-> s.of]
              /\ s.type \in {"CREATE_MISSION", "ADD_CONTENT"} /\ s.m \in Missions /\ s.kind \in Kinds
              /\ s.of \in Subjects
         /\ s.op = "create_mission" => s.m \in Missions /\ s.role \in Roles \cup {None}
         /\ s.op \in {"construct", "complete_subscription", "create_subscription", "subscribe",
                      "delete_subscription", "create_invitation", "create_content", "update_mission",
                      "create_cot", "add_external_data"} => s.m \in Missions
         /\ s.op \in {"create_subscription", "subscribe", "delete_subscription", "create_invitation"} =>
              s.c \in Clients
         /\ s.op \in {"create_content", "update_mission"} => s.x \in Objects
         /\ s.op \in {"create_cot", "store_cot"} => s.c \in Cots
         /\ s.op \in {"create_log", "update_log", "delete_log"} => s.l \in Nat
         /\ s.op \in {"create_log", "update_log"} => s.ms \in Seq(Missions)
         /\ s.op = "add_external_data" => s.e \in Nat /\ s.u \in ExtUids
         /\ s.op \in {"add_parent", "remove_parent"} => s.child \in Missions
         /\ s.op = "add_parent" => s.parent \in Missions
<1>1. s.op \in MissionOps => s \in MissionStatement
  BY StatementGroups
<1> QED BY <1>1 DEF MissionStatement, MissionOps

LEMMA ExCheckFields ==
  ASSUME NEW s \in Statement
  PROVE  /\ s.op = "create_template" => s.t \in Templates
         /\ s.op \in {"create_checklist", "create_task", "link", "replace_task"} => s.k \in Checklists
         /\ s.op \in {"create_task", "replace_task"} => s.t \in Tasks
         /\ s.op = "link" => s.m \in Missions
         /\ s.op = "replace_task" => s.v \in 0..MaxVersion
<1>1. s.op \in ExCheckOps => s \in ExCheckStatement
  BY StatementGroups
<1> QED BY <1>1 DEF ExCheckStatement, ExCheckOps

LEMMA ControlFields ==
  ASSUME NEW s \in Statement
  PROVE  /\ s.op \in {"call", "post"} => s.req \in Request
         /\ s.op \in {"get_metadata", "get_data", "for_contents"} => s.m \in Missions
         /\ s.op = "get_metadata" => s.hs \in NonEmpty(Objects)
         /\ s.op \in {"get_metadata", "get_data"} => s.todo \in NonEmpty(Objects) /\ s.mds \in Seq(Meta)
         /\ s.op = "get_data" => s.data \in Seq(Data)
         /\ s.op = "for_contents" => s.mds \in NonEmpty(Meta) /\ s.data \in NonEmpty(Data)
         /\ s.op = "for_missions" => s.ms \in NonEmpty(Missions) /\ s.c \in Cots
         /\ s.op = "for_tasks" => s.k \in Checklists /\ s.ts \in NonEmpty(Tasks)
<1>1. s.op \in ControlOps => s \in ControlStatement
  BY StatementGroups
<1> QED BY <1>1 DEF ControlStatement, ControlOps

SyncMethods ==
  {"SaveEnterpriseSyncData", "UpdateEnterpriseSyncData", "UpdateEnterpriseSyncMetaData",
   "DeleteEnterpriseSyncData"}

MissionMethods ==
  {"PutMission", "GetMission", "AddMissionContents", "AddMissionSubscription",
   "DeleteMissionSubscription", "SendInvitation", "AddMissionLog", "UpdateMissionLog",
   "DeleteMissionLog", "AddMissionExternalData", "AddChildToParent", "DeleteParent",
   "CreateMissionCots", "CotEvent", "Notify"}

ExCheckMethods == {"CreateTemplate", "StartChecklist", "UpdateChecklistTask", "AddChecklistToMission"}

LEMMA RequestGroups ==
  ASSUME NEW r \in Request
  PROVE  /\ r.method \in SyncMethods => r \in SyncRequest
         /\ r.method \in MissionMethods => r \in MissionRequest
         /\ r.method \in ExCheckMethods => r \in ExCheckRequest
<1>1. r \in SyncRequest => r.method \in SyncMethods
  BY DEF SyncRequest, SyncMethods
<1>2. r \in MissionRequest => r.method \in MissionMethods
  BY DEF MissionRequest, MissionMethods
<1>3. r \in ExCheckRequest => r.method \in ExCheckMethods
  BY DEF ExCheckRequest, ExCheckMethods
<1>4. \A x \in SyncMethods : x \notin MissionMethods /\ x \notin ExCheckMethods
  BY DEF SyncMethods, MissionMethods, ExCheckMethods
<1>5. \A x \in MissionMethods : x \notin ExCheckMethods
  BY DEF MissionMethods, ExCheckMethods
<1> QED BY <1>1, <1>2, <1>3, <1>4, <1>5 DEF Request

LEMMA SyncRequestFields ==
  ASSUME NEW r \in Request
  PROVE  /\ r.method \in {"SaveEnterpriseSyncData", "UpdateEnterpriseSyncData"} =>
              /\ r.u \in Uids /\ r.d \in Data /\ r.h \in Data
              /\ r.d \in ContentOf(r.u) /\ r.h \in ContentOf(r.u)
         /\ r.method = "UpdateEnterpriseSyncData" => r.u \in Checklists \cup Tasks
         /\ r.method = "SaveEnterpriseSyncData" => r.zip \in BOOLEAN /\ r.private \in 0..1
         /\ r.method = "UpdateEnterpriseSyncMetaData" => r.u \in Packages /\ r.p \in 0..1
         /\ r.method = "DeleteEnterpriseSyncData" => r.h \in Packages
<1>1. r.method \in SyncMethods => r \in SyncRequest
  BY RequestGroups
<1>2. Checklists \cup Tasks \subseteq Uids
  BY TakApiAssumption
<1> QED BY <1>1, <1>2 DEF SyncRequest, SyncMethods

LEMMA MissionRequestFields ==
  ASSUME NEW r \in Request
  PROVE  /\ r.method \in {"PutMission", "GetMission", "AddMissionContents", "AddMissionSubscription",
                          "DeleteMissionSubscription", "SendInvitation", "AddMissionExternalData"} =>
              r.m \in Missions
         /\ r.method \in {"PutMission", "AddMissionSubscription", "DeleteMissionSubscription",
                          "SendInvitation"} => r.c \in Clients
         /\ r.method = "PutMission" => r.role \in Roles \cup {None}
         /\ r.method = "AddMissionContents" => r.hs \in NonEmpty(Objects)
         /\ r.method \in {"AddMissionLog", "UpdateMissionLog", "DeleteMissionLog"} => r.l \in Nat
         /\ r.method \in {"AddMissionLog", "UpdateMissionLog", "CreateMissionCots", "CotEvent"} =>
              r.ms \in Seq(Missions)
         /\ r.method = "AddMissionExternalData" => r.e \in Nat /\ r.u \in ExtUids
         /\ r.method \in {"AddChildToParent", "DeleteParent"} => r.child \in Missions
         /\ r.method = "AddChildToParent" => r.parent \in Missions
         /\ r.method \in {"CreateMissionCots", "CotEvent"} => r.c \in Cots
         /\ r.method = "Notify" =>
              r.kind \in Notices /\ r.m \in Missions \cup {None} /\ r.of \in Subjects \cup ExtUids
<1>1. r.method \in MissionMethods => r \in MissionRequest
  BY RequestGroups
<1> QED BY <1>1 DEF MissionRequest, MissionMethods

LEMMA ExCheckRequestFields ==
  ASSUME NEW r \in Request
  PROVE  /\ r.method \in {"CreateTemplate", "StartChecklist"} => r.t \in Templates
         /\ r.method \in {"StartChecklist", "UpdateChecklistTask", "AddChecklistToMission"} =>
              r.k \in Checklists
         /\ r.method = "UpdateChecklistTask" => r.t \in Tasks /\ r.v \in 0..MaxVersion
         /\ r.method = "AddChecklistToMission" => r.m \in Missions /\ r.e \in Nat
<1>1. r.method \in ExCheckMethods => r \in ExCheckRequest
  BY RequestGroups
<1> QED BY <1>1 DEF ExCheckRequest, ExCheckMethods

-----------------------------------------------------------------------------
(* Statements and requests: how they are made. *)

LEMMA MakeRequest ==
  /\ \A u \in Uids, d \in Data, h \in Data, zip \in BOOLEAN, private \in 0..1 :
       d \in ContentOf(u) /\ h \in ContentOf(u) =>
         SaveEnterpriseSyncData(u, d, h, zip, private) \in Request
  /\ \A u \in Checklists \cup Tasks, d \in Data, h \in Data :
       d \in ContentOf(u) /\ h \in ContentOf(u) => UpdateEnterpriseSyncData(u, h, d) \in Request
  /\ \A m \in Missions, c \in Clients, role \in Roles \cup {None} : PutMission(m, c, role) \in Request
  /\ \A m \in Missions, hs \in NonEmpty(Objects) : AddMissionContents(m, hs) \in Request
  /\ \A m \in Missions, e \in Nat, u \in ExtUids : AddMissionExternalData(m, e, u) \in Request
  /\ \A kind \in Notices, m \in Missions \cup {None}, of \in Subjects \cup ExtUids :
       Notify(kind, m, of) \in Request
  /\ \A ms \in Seq(Missions), c \in Cots :
       [method |-> "CreateMissionCots", ms |-> ms, c |-> c] \in Request
<1>1. \A u \in Uids, d \in Data, h \in Data, zip \in BOOLEAN, private \in 0..1 :
       d \in ContentOf(u) /\ h \in ContentOf(u) =>
         SaveEnterpriseSyncData(u, d, h, zip, private) \in SyncRequest
  BY DEF SyncRequest, SaveEnterpriseSyncData
<1>2. \A u \in Checklists \cup Tasks, d \in Data, h \in Data :
       d \in ContentOf(u) /\ h \in ContentOf(u) => UpdateEnterpriseSyncData(u, h, d) \in SyncRequest
  BY DEF SyncRequest, UpdateEnterpriseSyncData
<1>3. \A m \in Missions, c \in Clients, role \in Roles \cup {None} :
        PutMission(m, c, role) \in MissionRequest
  BY DEF MissionRequest, PutMission
<1>4. \A m \in Missions, hs \in NonEmpty(Objects) : AddMissionContents(m, hs) \in MissionRequest
  BY DEF MissionRequest, AddMissionContents
<1>5. \A m \in Missions, e \in Nat, u \in ExtUids : AddMissionExternalData(m, e, u) \in MissionRequest
  BY DEF MissionRequest, AddMissionExternalData
<1>6. \A kind \in Notices, m \in Missions \cup {None}, of \in Subjects \cup ExtUids :
        Notify(kind, m, of) \in MissionRequest
  BY DEF MissionRequest, Notify
<1>7. \A ms \in Seq(Missions), c \in Cots :
        [method |-> "CreateMissionCots", ms |-> ms, c |-> c] \in MissionRequest
  BY DEF MissionRequest
<1> QED BY <1>1, <1>2, <1>3, <1>4, <1>5, <1>6, <1>7 DEF Request

\* The requests of one endpoint each.
LEMMA MakeEndpointRequest ==
  /\ \A l \in Nat, ms \in Seq(Missions) : [method |-> "AddMissionLog", l |-> l, ms |-> ms] \in Request
  /\ \A l \in Nat, ms \in Seq(Missions) : [method |-> "UpdateMissionLog", l |-> l, ms |-> ms] \in Request
  /\ \A l \in Nat : [method |-> "DeleteMissionLog", l |-> l] \in Request
  /\ \A m \in Missions, n \in Missions :
       [method |-> "AddChildToParent", child |-> m, parent |-> n] \in Request
  /\ \A m \in Missions : [method |-> "DeleteParent", child |-> m] \in Request
  /\ \A m \in Missions, c \in Clients : [method |-> "AddMissionSubscription", m |-> m, c |-> c] \in Request
  /\ \A m \in Missions, c \in Clients :
       [method |-> "DeleteMissionSubscription", m |-> m, c |-> c] \in Request
  /\ \A m \in Missions : [method |-> "GetMission", m |-> m] \in Request
  /\ \A m \in Missions, c \in Clients : [method |-> "SendInvitation", m |-> m, c |-> c] \in Request
  /\ \A x \in Packages, p \in 0..1 : [method |-> "UpdateEnterpriseSyncMetaData", u |-> x, p |-> p] \in Request
  /\ \A x \in Packages : [method |-> "DeleteEnterpriseSyncData", h |-> x] \in Request
  /\ \A t \in Templates : [method |-> "CreateTemplate", t |-> t] \in Request
  /\ \A k \in Checklists, t \in Templates : [method |-> "StartChecklist", k |-> k, t |-> t] \in Request
  /\ \A k \in Checklists, t \in Tasks, v \in 0..MaxVersion :
       [method |-> "UpdateChecklistTask", k |-> k, t |-> t, v |-> v] \in Request
  /\ \A k \in Checklists, m \in Missions, e \in Nat :
       [method |-> "AddChecklistToMission", k |-> k, m |-> m, e |-> e] \in Request
  /\ \A ms \in Seq(Missions), c \in Cots : [method |-> "CotEvent", ms |-> ms, c |-> c] \in Request
<1>1. /\ \A l \in Nat, ms \in Seq(Missions) : [method |-> "AddMissionLog", l |-> l, ms |-> ms] \in MissionRequest
      /\ \A l \in Nat, ms \in Seq(Missions) : [method |-> "UpdateMissionLog", l |-> l, ms |-> ms] \in MissionRequest
      /\ \A l \in Nat : [method |-> "DeleteMissionLog", l |-> l] \in MissionRequest
      /\ \A ms \in Seq(Missions), c \in Cots : [method |-> "CotEvent", ms |-> ms, c |-> c] \in MissionRequest
  BY DEF MissionRequest
<1>2. /\ \A m \in Missions, n \in Missions :
           [method |-> "AddChildToParent", child |-> m, parent |-> n] \in MissionRequest
      /\ \A m \in Missions : [method |-> "DeleteParent", child |-> m] \in MissionRequest
      /\ \A m \in Missions : [method |-> "GetMission", m |-> m] \in MissionRequest
  BY DEF MissionRequest
<1>3. /\ \A m \in Missions, c \in Clients :
           [method |-> "AddMissionSubscription", m |-> m, c |-> c] \in MissionRequest
      /\ \A m \in Missions, c \in Clients :
           [method |-> "DeleteMissionSubscription", m |-> m, c |-> c] \in MissionRequest
      /\ \A m \in Missions, c \in Clients : [method |-> "SendInvitation", m |-> m, c |-> c] \in MissionRequest
  BY DEF MissionRequest
<1>4. /\ \A x \in Packages, p \in 0..1 :
           [method |-> "UpdateEnterpriseSyncMetaData", u |-> x, p |-> p] \in SyncRequest
      /\ \A x \in Packages : [method |-> "DeleteEnterpriseSyncData", h |-> x] \in SyncRequest
  BY DEF SyncRequest
<1>5. /\ \A t \in Templates : [method |-> "CreateTemplate", t |-> t] \in ExCheckRequest
      /\ \A k \in Checklists, t \in Templates : [method |-> "StartChecklist", k |-> k, t |-> t] \in ExCheckRequest
      /\ \A k \in Checklists, t \in Tasks, v \in 0..MaxVersion :
           [method |-> "UpdateChecklistTask", k |-> k, t |-> t, v |-> v] \in ExCheckRequest
      /\ \A k \in Checklists, m \in Missions, e \in Nat :
           [method |-> "AddChecklistToMission", k |-> k, m |-> m, e |-> e] \in ExCheckRequest
  BY DEF ExCheckRequest
<1> QED BY <1>1, <1>2, <1>3, <1>4, <1>5 DEF Request

LEMMA MakeControl ==
  /\ \A r \in Request : Call(r) \in Statement /\ Post(r) \in Statement
  /\ NeedResult \in Statement /\ Throw \in Statement
  /\ \A m \in Missions, hs \in NonEmpty(Objects), todo \in NonEmpty(Objects), mds \in Seq(Meta) :
       [op |-> "get_metadata", m |-> m, hs |-> hs, todo |-> todo, mds |-> mds] \in Statement
  /\ \A m \in Missions, todo \in NonEmpty(Objects), mds \in Seq(Meta), data \in Seq(Data) :
       [op |-> "get_data", m |-> m, todo |-> todo, mds |-> mds, data |-> data] \in Statement
  /\ \A m \in Missions, mds \in NonEmpty(Meta), data \in NonEmpty(Data) :
       [op |-> "for_contents", m |-> m, mds |-> mds, data |-> data] \in Statement
  /\ \A ms \in NonEmpty(Missions), c \in Cots : [op |-> "for_missions", ms |-> ms, c |-> c] \in Statement
  /\ \A k \in Checklists, ts \in NonEmpty(Tasks) : [op |-> "for_tasks", k |-> k, ts |-> ts] \in Statement
<1>1. ControlStatement \subseteq Statement  BY DEF Statement
<1>2. \A r \in Request : Call(r) \in ControlStatement /\ Post(r) \in ControlStatement
  BY DEF ControlStatement, Call, Post
<1>3. NeedResult \in ControlStatement /\ Throw \in ControlStatement
  BY DEF ControlStatement, NeedResult, Throw
<1>4. \A m \in Missions, hs \in NonEmpty(Objects), todo \in NonEmpty(Objects), mds \in Seq(Meta) :
        [op |-> "get_metadata", m |-> m, hs |-> hs, todo |-> todo, mds |-> mds] \in ControlStatement
  BY DEF ControlStatement
<1>5. \A m \in Missions, todo \in NonEmpty(Objects), mds \in Seq(Meta), data \in Seq(Data) :
        [op |-> "get_data", m |-> m, todo |-> todo, mds |-> mds, data |-> data] \in ControlStatement
  BY DEF ControlStatement
<1>6. \A m \in Missions, mds \in NonEmpty(Meta), data \in NonEmpty(Data) :
        [op |-> "for_contents", m |-> m, mds |-> mds, data |-> data] \in ControlStatement
  BY DEF ControlStatement
<1>7. \A ms \in NonEmpty(Missions), c \in Cots : [op |-> "for_missions", ms |-> ms, c |-> c] \in ControlStatement
  BY DEF ControlStatement
<1>8. \A k \in Checklists, ts \in NonEmpty(Tasks) : [op |-> "for_tasks", k |-> k, ts |-> ts] \in ControlStatement
  BY DEF ControlStatement
<1> QED BY <1>1, <1>2, <1>3, <1>4, <1>5, <1>6, <1>7, <1>8

LEMMA MakeSync ==
  /\ \A u \in Uids, d \in Data : d \in ContentOf(u) =>
       [op |-> "save_file", u |-> u, d |-> d] \in Statement
  /\ \A u \in Checklists \cup Tasks, d \in Data : d \in ContentOf(u) =>
       [op |-> "update_file", u |-> u, d |-> d] \in Statement
  /\ \A row \in Row : row.hash \in ContentOf(row.uid) => [op |-> "create_row", row |-> row] \in Statement
  /\ \A u \in Uids, h \in Data \cup {NoData}, p \in 0..1 : h = NoData \/ h \in ContentOf(u) =>
       [op |-> "update_row", u |-> u, h |-> h, p |-> p] \in Statement
  /\ \A h \in Packages : /\ [op |-> "delete_file", h |-> h] \in Statement
                         /\ [op |-> "delete_row", h |-> h] \in Statement
<1>1. SyncStatement \subseteq Statement  BY DEF Statement
<1> QED BY <1>1 DEF SyncStatement

LEMMA MakeMission ==
  /\ \A m \in Missions, kind \in Kinds, of \in Subjects, type \in {"CREATE_MISSION", "ADD_CONTENT"} :
       [op |-> "change", type |-> type, m |-> m, kind |-> kind, of |-> of] \in Statement
  /\ \A kind \in Notices, m \in Missions \cup {None}, of \in Subjects \cup ExtUids :
       [op |-> "notify", kind |-> kind, m |-> m, of |-> of] \in Statement
  /\ \A m \in Missions, role \in Roles \cup {None} :
       [op |-> "create_mission", m |-> m, role |-> role] \in Statement
  /\ \A m \in Missions, op \in {"construct", "complete_subscription"} : [op |-> op, m |-> m] \in Statement
  /\ \A m \in Missions, c \in Clients,
        op \in {"create_subscription", "subscribe", "delete_subscription", "create_invitation"} :
       [op |-> op, m |-> m, c |-> c] \in Statement
  /\ \A m \in Missions, x \in Objects, op \in {"create_content", "update_mission"} :
       [op |-> op, m |-> m, x |-> x] \in Statement
  /\ \A m \in Missions, c \in Cots : [op |-> "create_cot", m |-> m, c |-> c] \in Statement
  /\ \A l \in Nat, ms \in Seq(Missions), op \in {"create_log", "update_log"} :
       [op |-> op, l |-> l, ms |-> ms] \in Statement
  /\ \A l \in Nat : [op |-> "delete_log", l |-> l] \in Statement
  /\ \A m \in Missions, e \in Nat, u \in ExtUids :
       [op |-> "add_external_data", m |-> m, e |-> e, u |-> u] \in Statement
  /\ \A m \in Missions, n \in Missions : [op |-> "add_parent", child |-> m, parent |-> n] \in Statement
  /\ \A m \in Missions : [op |-> "remove_parent", child |-> m] \in Statement
  /\ \A c \in Cots : [op |-> "store_cot", c |-> c] \in Statement
<1>1. MissionStatement \subseteq Statement  BY DEF Statement
<1>2. /\ \A m \in Missions, kind \in Kinds, of \in Subjects, type \in {"CREATE_MISSION", "ADD_CONTENT"} :
           [op |-> "change", type |-> type, m |-> m, kind |-> kind, of |-> of] \in MissionStatement
      /\ \A kind \in Notices, m \in Missions \cup {None}, of \in Subjects \cup ExtUids :
           [op |-> "notify", kind |-> kind, m |-> m, of |-> of] \in MissionStatement
      /\ \A m \in Missions, role \in Roles \cup {None} :
           [op |-> "create_mission", m |-> m, role |-> role] \in MissionStatement
  BY DEF MissionStatement
<1>3. /\ \A m \in Missions, op \in {"construct", "complete_subscription"} :
           [op |-> op, m |-> m] \in MissionStatement
      /\ \A m \in Missions, c \in Clients,
            op \in {"create_subscription", "subscribe", "delete_subscription", "create_invitation"} :
           [op |-> op, m |-> m, c |-> c] \in MissionStatement
      /\ \A m \in Missions, x \in Objects, op \in {"create_content", "update_mission"} :
           [op |-> op, m |-> m, x |-> x] \in MissionStatement
  BY DEF MissionStatement
<1>4. /\ \A m \in Missions, c \in Cots : [op |-> "create_cot", m |-> m, c |-> c] \in MissionStatement
      /\ \A l \in Nat, ms \in Seq(Missions), op \in {"create_log", "update_log"} :
           [op |-> op, l |-> l, ms |-> ms] \in MissionStatement
      /\ \A l \in Nat : [op |-> "delete_log", l |-> l] \in MissionStatement
  BY DEF MissionStatement
<1>5. /\ \A m \in Missions, e \in Nat, u \in ExtUids :
           [op |-> "add_external_data", m |-> m, e |-> e, u |-> u] \in MissionStatement
      /\ \A m \in Missions, n \in Missions :
           [op |-> "add_parent", child |-> m, parent |-> n] \in MissionStatement
      /\ \A m \in Missions : [op |-> "remove_parent", child |-> m] \in MissionStatement
      /\ \A c \in Cots : [op |-> "store_cot", c |-> c] \in MissionStatement
  BY DEF MissionStatement
<1> QED BY <1>1, <1>2, <1>3, <1>4, <1>5

LEMMA MakeExCheck ==
  /\ \A t \in Templates : [op |-> "create_template", t |-> t] \in Statement
  /\ \A k \in Checklists : [op |-> "create_checklist", k |-> k] \in Statement
  /\ \A k \in Checklists, t \in Tasks : [op |-> "create_task", k |-> k, t |-> t] \in Statement
  /\ \A u \in Uids : [op |-> "read_document", u |-> u] \in Statement
  /\ \A k \in Checklists, m \in Missions : [op |-> "link", k |-> k, m |-> m] \in Statement
  /\ \A k \in Checklists, t \in Tasks, v \in 0..MaxVersion :
       [op |-> "replace_task", k |-> k, t |-> t, v |-> v] \in Statement
<1>1. ExCheckStatement \subseteq Statement  BY DEF Statement
<1> QED BY <1>1 DEF ExCheckStatement

-----------------------------------------------------------------------------
(* The programs of the action mapping. *)

\* What a program is when it is called.
Fresh(f) ==
  /\ f \in Program /\ f # <<>> /\ Shape(f)
  /\ Head(f).op # "delete_row"
  /\ \A m \in Missions : ~Owes(f, m)

\* Tuples put together.
LEMMA Joined ==
  /\ \A a, b \in Statement : <<a>> \o <<b>> = <<a, b>>
  /\ \A a, b, c \in Statement : <<a, b>> \o <<c>> = <<a, b, c>>
  /\ \A a, b, c, d \in Statement : <<a, b, c>> \o <<d>> = <<a, b, c, d>>
  /\ \A a, b, c, d, e \in Statement : <<a, b, c, d>> \o <<e>> = <<a, b, c, d, e>>
  /\ \A a, b, c, d \in Statement : <<a>> \o <<b, c, d>> = <<a, b, c, d>>
  /\ \A a, b, c, d \in Statement : <<a, b>> \o <<c, d>> = <<a, b, c, d>>
  /\ \A a, b, c, d, e \in Statement : <<a, b, c>> \o <<d, e>> = <<a, b, c, d, e>>
<1>1. \A a, b \in Statement : <<a>> \o <<b>> = <<a, b>>
  <2> SUFFICES ASSUME NEW a \in Statement, NEW b \in Statement PROVE <<a>> \o <<b>> = <<a, b>>
    OBVIOUS
  <2>1. <<a>> \in Seq(Statement) /\ <<b>> \in Seq(Statement) /\ <<a, b>> \in Seq(Statement)
    OBVIOUS
  <2>2. Len(<<a>> \o <<b>>) = 2 /\ Len(<<a, b>>) = 2 /\ <<a>> \o <<b>> \in Seq(Statement)
    BY <2>1
  <2>3. \A i \in 1..2 : (<<a>> \o <<b>>)[i] = <<a, b>>[i]
    BY <2>1
  <2> QED BY <2>1, <2>2, <2>3, SeqEqual
<1>2. \A a, b, c \in Statement : <<a, b>> \o <<c>> = <<a, b, c>>
  <2> SUFFICES ASSUME NEW a \in Statement, NEW b \in Statement, NEW c \in Statement PROVE <<a, b>> \o <<c>> = <<a, b, c>>
    OBVIOUS
  <2>1. <<a, b>> \in Seq(Statement) /\ <<c>> \in Seq(Statement) /\ <<a, b, c>> \in Seq(Statement)
    OBVIOUS
  <2>2. Len(<<a, b>> \o <<c>>) = 3 /\ Len(<<a, b, c>>) = 3 /\ <<a, b>> \o <<c>> \in Seq(Statement)
    BY <2>1
  <2>3. \A i \in 1..3 : (<<a, b>> \o <<c>>)[i] = <<a, b, c>>[i]
    BY <2>1
  <2> QED BY <2>1, <2>2, <2>3, SeqEqual
<1>3. \A a, b, c, d \in Statement : <<a, b, c>> \o <<d>> = <<a, b, c, d>>
  <2> SUFFICES ASSUME NEW a \in Statement, NEW b \in Statement, NEW c \in Statement, NEW d \in Statement PROVE <<a, b, c>> \o <<d>> = <<a, b, c, d>>
    OBVIOUS
  <2>1. <<a, b, c>> \in Seq(Statement) /\ <<d>> \in Seq(Statement) /\ <<a, b, c, d>> \in Seq(Statement)
    OBVIOUS
  <2>2. Len(<<a, b, c>> \o <<d>>) = 4 /\ Len(<<a, b, c, d>>) = 4 /\ <<a, b, c>> \o <<d>> \in Seq(Statement)
    BY <2>1
  <2>3. \A i \in 1..4 : (<<a, b, c>> \o <<d>>)[i] = <<a, b, c, d>>[i]
    BY <2>1
  <2> QED BY <2>1, <2>2, <2>3, SeqEqual
<1>4. \A a, b, c, d, e \in Statement : <<a, b, c, d>> \o <<e>> = <<a, b, c, d, e>>
  <2> SUFFICES ASSUME NEW a \in Statement, NEW b \in Statement, NEW c \in Statement, NEW d \in Statement, NEW e \in Statement PROVE <<a, b, c, d>> \o <<e>> = <<a, b, c, d, e>>
    OBVIOUS
  <2>1. <<a, b, c, d>> \in Seq(Statement) /\ <<e>> \in Seq(Statement) /\ <<a, b, c, d, e>> \in Seq(Statement)
    OBVIOUS
  <2>2. Len(<<a, b, c, d>> \o <<e>>) = 5 /\ Len(<<a, b, c, d, e>>) = 5 /\ <<a, b, c, d>> \o <<e>> \in Seq(Statement)
    BY <2>1
  <2>3. \A i \in 1..5 : (<<a, b, c, d>> \o <<e>>)[i] = <<a, b, c, d, e>>[i]
    BY <2>1
  <2> QED BY <2>1, <2>2, <2>3, SeqEqual
<1>5. \A a, b, c, d \in Statement : <<a>> \o <<b, c, d>> = <<a, b, c, d>>
  <2> SUFFICES ASSUME NEW a \in Statement, NEW b \in Statement, NEW c \in Statement, NEW d \in Statement PROVE <<a>> \o <<b, c, d>> = <<a, b, c, d>>
    OBVIOUS
  <2>1. <<a>> \in Seq(Statement) /\ <<b, c, d>> \in Seq(Statement) /\ <<a, b, c, d>> \in Seq(Statement)
    OBVIOUS
  <2>2. Len(<<a>> \o <<b, c, d>>) = 4 /\ Len(<<a, b, c, d>>) = 4 /\ <<a>> \o <<b, c, d>> \in Seq(Statement)
    BY <2>1
  <2>3. \A i \in 1..4 : (<<a>> \o <<b, c, d>>)[i] = <<a, b, c, d>>[i]
    BY <2>1
  <2> QED BY <2>1, <2>2, <2>3, SeqEqual
<1>6. \A a, b, c, d \in Statement : <<a, b>> \o <<c, d>> = <<a, b, c, d>>
  <2> SUFFICES ASSUME NEW a \in Statement, NEW b \in Statement, NEW c \in Statement, NEW d \in Statement PROVE <<a, b>> \o <<c, d>> = <<a, b, c, d>>
    OBVIOUS
  <2>1. <<a, b>> \in Seq(Statement) /\ <<c, d>> \in Seq(Statement) /\ <<a, b, c, d>> \in Seq(Statement)
    OBVIOUS
  <2>2. Len(<<a, b>> \o <<c, d>>) = 4 /\ Len(<<a, b, c, d>>) = 4 /\ <<a, b>> \o <<c, d>> \in Seq(Statement)
    BY <2>1
  <2>3. \A i \in 1..4 : (<<a, b>> \o <<c, d>>)[i] = <<a, b, c, d>>[i]
    BY <2>1
  <2> QED BY <2>1, <2>2, <2>3, SeqEqual
<1>7. \A a, b, c, d, e \in Statement : <<a, b, c>> \o <<d, e>> = <<a, b, c, d, e>>
  <2> SUFFICES ASSUME NEW a \in Statement, NEW b \in Statement, NEW c \in Statement, NEW d \in Statement, NEW e \in Statement PROVE <<a, b, c>> \o <<d, e>> = <<a, b, c, d, e>>
    OBVIOUS
  <2>1. <<a, b, c>> \in Seq(Statement) /\ <<d, e>> \in Seq(Statement) /\ <<a, b, c, d, e>> \in Seq(Statement)
    OBVIOUS
  <2>2. Len(<<a, b, c>> \o <<d, e>>) = 5 /\ Len(<<a, b, c, d, e>>) = 5 /\ <<a, b, c>> \o <<d, e>> \in Seq(Statement)
    BY <2>1
  <2>3. \A i \in 1..5 : (<<a, b, c>> \o <<d, e>>)[i] = <<a, b, c, d, e>>[i]
    BY <2>1
  <2> QED BY <2>1, <2>2, <2>3, SeqEqual
<1> QED BY <1>1, <1>2, <1>3, <1>4, <1>5, <1>6, <1>7

\* A program with these statements is ready, whatever is called before it.
LEMMA OneStatement ==
  ASSUME NEW w, NEW a \in Statement, Ends(a), a.op # "delete_row", ~IsCreation(a), Ready(w, a, {}, {}),
         NEW f, f = <<a>>
  PROVE  Fresh(f) /\ ProgramReady(w, f, {}) /\ Head(f) = a /\ f[Len(f)] = a
<1>1. f \in Program /\ f # <<>> /\ Len(f) = 1 /\ DOMAIN f = 1..1 /\ f[1] = a /\ Head(f) = a
  BY DEF Program
<1>2. \A i \in DOMAIN f : i = 1
  BY <1>1
<1>3. Shape(f)
  BY <1>1, <1>2 DEF Shape
<1>4. \A m \in Missions : ~Owes(f, m)
  BY <1>1 DEF Owes
<1>5. Before(f, 1) = {}
  BY DEF Before
<1>6. ProgramReady(w, f, {})
  BY <1>1, <1>2, <1>5 DEF ProgramReady
<1> QED BY <1>1, <1>3, <1>4, <1>6 DEF Fresh

LEMMA TwoStatements ==
  ASSUME NEW w, NEW a \in Statement, NEW b \in Statement, Follows(a, b), Ends(b), a.op # "delete_row",
         ~IsCreation(b), Ready(w, a, {}, {}), Ready(w, b, {a}, {}),
         NEW f, f = <<a, b>>
  PROVE  Fresh(f) /\ ProgramReady(w, f, {}) /\ Head(f) = a /\ f[Len(f)] = b
<1>1. f \in Program /\ f # <<>> /\ Len(f) = 2 /\ DOMAIN f = 1..2 /\ f[1] = a /\ f[2] = b /\ Head(f) = a
  BY DEF Program
<1>2. \A i \in DOMAIN f : i = 1 \/ i = 2
  BY <1>1
<1>3. Shape(f)
  BY <1>1, <1>2 DEF Shape
<1>4. \A m \in Missions : ~Owes(f, m)
  BY <1>1 DEF Owes
<1>5. Before(f, 1) = {} /\ Before(f, 2) = {a}
  BY <1>1 DEF Before
<1>6. ProgramReady(w, f, {})
  BY <1>1, <1>2, <1>5, Zenon DEF ProgramReady
<1> QED BY <1>1, <1>3, <1>4, <1>6 DEF Fresh

LEMMA ThreeStatements ==
  ASSUME NEW w, NEW a \in Statement, NEW b \in Statement, NEW c \in Statement, Follows(a, b), Follows(b, c),
         Ends(c), a.op # "delete_row", ~IsCreation(c),
         Ready(w, a, {}, {}), Ready(w, b, {a}, {}), Ready(w, c, {a, b}, {}),
         NEW f, f = <<a, b, c>>
  PROVE  Fresh(f) /\ ProgramReady(w, f, {}) /\ Head(f) = a /\ f[Len(f)] = c
<1>1. /\ f \in Program /\ f # <<>> /\ Len(f) = 3 /\ DOMAIN f = 1..3
      /\ f[1] = a /\ f[2] = b /\ f[3] = c /\ Head(f) = a
  BY DEF Program
<1>2. \A i \in DOMAIN f : i = 1 \/ i = 2 \/ i = 3
  BY <1>1
<1>3. Shape(f)
  BY <1>1, <1>2 DEF Shape
<1>4. \A m \in Missions : ~Owes(f, m)
  BY <1>1 DEF Owes
<1>5. Before(f, 1) = {} /\ Before(f, 2) = {a} /\ Before(f, 3) = {a, b}
  BY <1>1 DEF Before
<1>6. ProgramReady(w, f, {})
  BY <1>1, <1>2, <1>5, Zenon DEF ProgramReady
<1> QED BY <1>1, <1>3, <1>4, <1>6 DEF Fresh

LEMMA FreshSave ==
  ASSUME NEW w, NEW r \in Request, r.method = "SaveEnterpriseSyncData", RequestReady(w, r, {}, {}),
         NEW f, f = save_enterprise_sync_data(r.u, r.d, r.h, r.zip, r.private)
  PROVE  Fresh(f) /\ ProgramReady(w, f, {}) /\ Head(f).op = "save_file" /\ Head(f).u = r.u
<1> DEFINE a == [op |-> "save_file", u |-> r.u, d |-> r.d]
           b == [op |-> "create_row", row |-> [uid |-> r.u, hash |-> r.h, zip |-> r.zip, private |-> r.private]]
<1>1. r.u \in Uids /\ r.d \in Data /\ r.h \in Data /\ r.d \in ContentOf(r.u) /\ r.h \in ContentOf(r.u)
      /\ r.zip \in BOOLEAN /\ r.private \in 0..1
  BY SyncRequestFields
<1>2. b.row \in Row /\ b.row.hash \in ContentOf(b.row.uid)
  BY <1>1 DEF Row
<1>3. a \in Statement /\ b \in Statement
  BY <1>1, <1>2, MakeSync
<1>4. Follows(a, b) /\ Ends(b) /\ ~IsCreation(b) /\ Ready(w, b, {a}, {})
  BY DEF Follows, Ends, IsCreation, Ready
<1>5. Ready(w, a, {}, {})
  BY DEF Ready, RequestReady
<1>6. f = <<a, b>> /\ a.op = "save_file" /\ a.u = r.u
  BY DEF save_enterprise_sync_data
<1> HIDE DEF a, b
<1> QED BY <1>3, <1>4, <1>5, <1>6, TwoStatements

LEMMA FourStatements ==
  ASSUME NEW w, NEW a \in Statement, NEW b \in Statement, NEW c \in Statement, NEW d \in Statement,
         Follows(a, b), Follows(b, c), Follows(c, d), Ends(d), a.op # "delete_row",
         Ready(w, a, {}, {}), Ready(w, b, {a}, {}), Ready(w, c, {a, b}, {}), Ready(w, d, {a, b, c}, {}),
         ~IsCreation(d) \/ (a.op = "create_mission" /\ a.m = d.m),
         NEW f, f = <<a, b, c, d>>
  PROVE  Fresh(f) /\ ProgramReady(w, f, {}) /\ Head(f) = a /\ f[Len(f)] = d
<1>1. /\ f \in Program /\ f # <<>> /\ Len(f) = 4 /\ DOMAIN f = 1..4
      /\ f[1] = a /\ f[2] = b /\ f[3] = c /\ f[4] = d /\ Head(f) = a
  BY DEF Program
<1>2. \A i \in DOMAIN f : i = 1 \/ i = 2 \/ i = 3 \/ i = 4
  BY <1>1
<1>3. Shape(f)
  BY <1>1, <1>2 DEF Shape
<1>4. \A m \in Missions : ~Owes(f, m)
  BY <1>1 DEF Owes
<1>5. Before(f, 1) = {} /\ Before(f, 2) = {a} /\ Before(f, 3) = {a, b} /\ Before(f, 4) = {a, b, c}
  BY <1>1 DEF Before
<1>6. ProgramReady(w, f, {})
  BY <1>1, <1>2, <1>5, Zenon DEF ProgramReady
<1> QED BY <1>1, <1>3, <1>4, <1>6 DEF Fresh

LEMMA FiveStatements ==
  ASSUME NEW w, NEW a \in Statement, NEW b \in Statement, NEW c \in Statement, NEW d \in Statement,
         NEW e \in Statement, Follows(a, b), Follows(b, c), Follows(c, d), Follows(d, e), Ends(e),
         a.op # "delete_row", ~IsCreation(e), Ready(w, a, {}, {}), Ready(w, b, {a}, {}),
         Ready(w, c, {a, b}, {}), Ready(w, d, {a, b, c}, {}), Ready(w, e, {a, b, c, d}, {}),
         NEW f, f = <<a, b, c, d, e>>
  PROVE  Fresh(f) /\ ProgramReady(w, f, {}) /\ Head(f) = a /\ f[Len(f)] = e
<1>1. /\ f \in Program /\ f # <<>> /\ Len(f) = 5 /\ DOMAIN f = 1..5
      /\ f[1] = a /\ f[2] = b /\ f[3] = c /\ f[4] = d /\ f[5] = e /\ Head(f) = a
  BY DEF Program
<1>2. \A i \in DOMAIN f : i = 1 \/ i = 2 \/ i = 3 \/ i = 4 \/ i = 5
  BY <1>1
<1>3. Shape(f)
  BY <1>1, <1>2 DEF Shape
<1>4. \A m \in Missions : ~Owes(f, m)
  BY <1>1 DEF Owes
<1>5. /\ Before(f, 1) = {} /\ Before(f, 2) = {a} /\ Before(f, 3) = {a, b} /\ Before(f, 4) = {a, b, c}
      /\ Before(f, 5) = {a, b, c, d}
  BY <1>1 DEF Before
<1>6. ProgramReady(w, f, {})
  BY <1>1, <1>2, <1>5, Zenon DEF ProgramReady
<1> QED BY <1>1, <1>3, <1>4, <1>6 DEF Fresh

\* Statements that rely on nothing, and do not belong to a pair.
Free(s) ==
  /\ s.op \notin {"create_cot", "for_missions", "change", "save_file", "update_file", "create_task",
                  "create_mission", "update_mission", "add_external_data", "delete_row"}
  /\ s.op \in {"call", "post"} =>
       s.req.method \notin {"CreateMissionCots", "SaveEnterpriseSyncData", "UpdateEnterpriseSyncData",
                            "PutMission"}

LEMMA FreeStatement ==
  ASSUME NEW w, NEW s, Free(s)
  PROVE  /\ \A before, above : Ready(w, s, before, above)
         /\ \A b : b.op # "delete_row" => Follows(s, b)
         /\ Ends(s) /\ ~IsCreation(s) /\ s.op # "delete_row"
BY DEF Free, Ready, RequestReady, Follows, Ends, IsCreation

LEMMA FreshUpdate ==
  ASSUME NEW w, NEW r \in Request, r.method = "UpdateEnterpriseSyncData", RequestReady(w, r, {}, {}),
         NEW f, f = update_enterprise_sync_data(r.u, r.h, r.d)
  PROVE  Fresh(f) /\ ProgramReady(w, f, {})
<1> DEFINE a == [op |-> "update_file", u |-> r.u, d |-> r.d]
           b == [op |-> "update_row", u |-> r.u, h |-> r.h, p |-> 0]
<1>1. /\ r.u \in Uids /\ r.u \in Checklists \cup Tasks /\ r.d \in Data /\ r.h \in Data
      /\ r.d \in ContentOf(r.u) /\ r.h \in ContentOf(r.u)
  BY SyncRequestFields
<1>2. a \in Statement /\ b \in Statement
  <2>1. 0 \in 0..1  OBVIOUS
  <2> QED BY <1>1, <2>1, MakeSync
<1>3. Follows(a, b) /\ Ends(b) /\ ~IsCreation(b) /\ Ready(w, b, {a}, {})
  BY DEF Follows, Ends, IsCreation, Ready
<1>4. Ready(w, a, {}, {})
  BY DEF Ready, RequestReady
<1>5. f = <<a, b>> /\ a.op # "delete_row"
  BY DEF update_enterprise_sync_data
<1> HIDE DEF a, b
<1> QED BY <1>2, <1>3, <1>4, <1>5, TwoStatements

LEMMA FreshDelete ==
  ASSUME NEW w, NEW r \in Request, r.method = "DeleteEnterpriseSyncData",
         NEW f, f = delete_enterprise_sync_data(r.h)
  PROVE  Fresh(f) /\ ProgramReady(w, f, {})
<1> DEFINE a == [op |-> "delete_file", h |-> r.h]
           b == [op |-> "delete_row", h |-> r.h]
<1>1. a \in Statement /\ b \in Statement
  BY SyncRequestFields, MakeSync
<1>2. Follows(a, b) /\ Ends(b) /\ ~IsCreation(b) /\ Ready(w, a, {}, {}) /\ Ready(w, b, {a}, {})
  BY DEF Follows, Ends, IsCreation, Ready
<1>3. f = <<a, b>> /\ a.op # "delete_row"
  BY DEF delete_enterprise_sync_data
<1> HIDE DEF a, b
<1> QED BY <1>1, <1>2, <1>3, TwoStatements

LEMMA FreshPutMission ==
  ASSUME NEW w, NEW r \in Request, r.method = "PutMission", RequestReady(w, r, {}, {}),
         NEW f, f = put_mission(r.m, r.c, r.role)
  PROVE  Fresh(f) /\ ProgramReady(w, f, {})
<1> DEFINE a == [op |-> "create_mission", m |-> r.m, role |-> r.role]
           b == [op |-> "create_subscription", m |-> r.m, c |-> r.c]
           c == [op |-> "construct", m |-> r.m]
           d == [op |-> "change", type |-> "CREATE_MISSION", m |-> r.m, kind |-> "mission", of |-> None]
<1>1. r.m \in Missions /\ r.c \in Clients /\ r.role \in Roles \cup {None}
  BY MissionRequestFields
<1>2. a \in Statement /\ b \in Statement /\ c \in Statement /\ d \in Statement
  BY <1>1, MakeMission DEF Kinds, Subjects
<1>3. Follows(a, b) /\ Follows(b, c) /\ Follows(c, d) /\ Ends(d)
  BY DEF Follows, Ends, IsCreation
<1>4. Ready(w, b, {a}, {}) /\ Ready(w, c, {a, b}, {}) /\ Ready(w, d, {a, b, c}, {})
  BY DEF Ready, HeldReady
<1>5. Ready(w, a, {}, {})
  BY DEF Ready, RequestReady, SavedReady
<1>6. f = <<a, b, c, d>> /\ a.op = "create_mission" /\ a.m = d.m
  BY DEF put_mission
<1> HIDE DEF a, b, c, d
<1> QED BY <1>2, <1>3, <1>4, <1>5, <1>6, FourStatements

LEMMA FreshAddContents ==
  ASSUME NEW w, NEW r \in Request, r.method = "AddMissionContents",
         NEW f, f = add_contents_to_mission(r.m, r.hs)
  PROVE  Fresh(f) /\ ProgramReady(w, f, {})
<1> DEFINE a == [op |-> "get_metadata", m |-> r.m, hs |-> r.hs, todo |-> r.hs, mds |-> <<>>]
           b == [op |-> "construct", m |-> r.m]
<1>1. r.m \in Missions /\ r.hs \in NonEmpty(Objects) /\ <<>> \in Seq(Meta)
  BY MissionRequestFields
<1>2. a \in Statement /\ b \in Statement
  BY <1>1, MakeMission, MakeControl
<1>3. Free(a) /\ Free(b)
  BY DEF Free
<1>4. f = <<a, b>>
  BY DEF add_contents_to_mission
<1> HIDE DEF a, b
<1> QED BY <1>2, <1>3, <1>4, FreeStatement, TwoStatements

LEMMA FreshSubscription ==
  ASSUME NEW w, NEW r \in Request, r.method = "AddMissionSubscription",
         NEW f, f = add_mission_subscription(r.m, r.c)
  PROVE  Fresh(f) /\ ProgramReady(w, f, {})
<1> DEFINE a == [op |-> "subscribe", m |-> r.m, c |-> r.c]
           b == [op |-> "complete_subscription", m |-> r.m]
<1>1. a \in Statement /\ b \in Statement
  BY MissionRequestFields, MakeMission
<1>2. Free(a) /\ Free(b)
  BY DEF Free
<1>3. f = <<a, b>>
  BY DEF add_mission_subscription
<1> HIDE DEF a, b
<1> QED BY <1>1, <1>2, <1>3, FreeStatement, TwoStatements

LEMMA FreshInvitation ==
  ASSUME NEW w, NEW r \in Request, r.method = "SendInvitation",
         NEW f, f = send_invitation(r.m, r.c)
  PROVE  Fresh(f) /\ ProgramReady(w, f, {})
<1> DEFINE a == [op |-> "subscribe", m |-> r.m, c |-> r.c]
           b == [op |-> "complete_subscription", m |-> r.m]
           c == [op |-> "create_invitation", m |-> r.m, c |-> r.c]
           d == [op |-> "notify", kind |-> "invitation", m |-> r.m, of |-> None]
<1>1. r.m \in Missions /\ r.c \in Clients
  BY MissionRequestFields
<1>2. a \in Statement /\ b \in Statement /\ c \in Statement /\ d \in Statement
  BY <1>1, MakeMission DEF Notices, Subjects
<1>3. Free(a) /\ Free(b) /\ Free(c) /\ Free(d)
  BY DEF Free
<1>4. f = <<a, b>> \o <<c>> \o <<d>>
  BY DEF send_invitation, add_mission_subscription, notify
<1> HIDE DEF a, b, c, d
<1>5. f = <<a, b, c, d>>
  <2>1. <<a, b>> \o <<c>> = <<a, b, c>>
    BY <1>2, Joined
  <2>2. <<a, b, c>> \o <<d>> = <<a, b, c, d>>
    BY <1>2, Joined
  <2> QED BY <1>4, <2>1, <2>2
<1>6. /\ Follows(a, b) /\ Follows(b, c) /\ Follows(c, d) /\ Ends(d) /\ a.op # "delete_row"
      /\ Ready(w, a, {}, {}) /\ Ready(w, b, {a}, {}) /\ Ready(w, c, {a, b}, {})
      /\ Ready(w, d, {a, b, c}, {}) /\ ~IsCreation(d)
  BY <1>3, FreeStatement
<1> QED BY <1>2, <1>5, <1>6, FourStatements

LEMMA FreshExternalData ==
  ASSUME NEW w, NEW r \in Request, r.method = "AddMissionExternalData",
         NEW f, f = add_mission_external_data(r.m, r.e, r.u)
  PROVE  Fresh(f) /\ ProgramReady(w, f, {})
<1> DEFINE a == [op |-> "add_external_data", m |-> r.m, e |-> r.e, u |-> r.u]
           b == Record(r.m, "external", r.e)
<1>1. r.m \in Missions /\ r.e \in Nat /\ r.u \in ExtUids
  BY MissionRequestFields
<1>2. a \in Statement /\ b \in Statement
  BY <1>1, MakeMission DEF Record, Kinds, Subjects
<1>3. Follows(a, b) /\ Ends(b) /\ ~IsCreation(b)
  BY DEF Follows, Ends, IsCreation, Record
<1>4. Ready(w, a, {}, {}) /\ Ready(w, b, {a}, {})
  BY DEF Ready, HeldReady, Record
<1>5. f = <<a, b>> /\ a.op # "delete_row"
  BY DEF add_mission_external_data
<1> HIDE DEF a, b
<1> QED BY <1>2, <1>3, <1>4, <1>5, TwoStatements

LEMMA FreshCots ==
  ASSUME NEW w, NEW r \in Request, r.method = "CreateMissionCots", RequestReady(w, r, {}, {}),
         NEW f, f = create_mission_cots(r.ms, r.c)
  PROVE  Fresh(f) /\ ProgramReady(w, f, {})
<1> DEFINE a == [op |-> "for_missions", ms |-> r.ms, c |-> r.c]
           b == Post(Notify("cot", None, r.c))
<1>1. r.ms \in Seq(Missions) /\ r.c \in Cots
  BY MissionRequestFields
<1>2. b \in Statement /\ Free(b)
  BY <1>1, MakeRequest, MakeControl DEF Notices, Subjects, Free, Post, Notify
<1>3. CASE r.ms = <<>>
  <2>1. f = <<b>>
    BY <1>3 DEF create_mission_cots, ForMissions
  <2> HIDE DEF b
  <2> QED BY <1>2, <2>1, FreeStatement, OneStatement
<1>4. CASE r.ms # <<>>
  <2>1. a \in Statement
    BY <1>1, <1>4, MakeControl DEF NonEmpty
  <2>2. Follows(a, b) /\ a.op # "delete_row"
    BY DEF Follows, IsCreation, Post
  <2>3. Ready(w, a, {}, {})
    BY DEF Ready, RequestReady
  <2>4. f = <<a>> \o <<b>>
    BY <1>4 DEF create_mission_cots, ForMissions
  <2> HIDE DEF a, b
  <2>5. f = <<a, b>>
    BY <1>2, <2>1, <2>4, Joined
  <2> QED BY <1>2, <2>1, <2>2, <2>3, <2>5, FreeStatement, TwoStatements
<1> QED BY <1>3, <1>4

LEMMA FreshCotEvent ==
  ASSUME NEW w, NEW r \in Request, r.method = "CotEvent",
         NEW f, f = cot_event_chain_of_command(r.ms, r.c)
  PROVE  Fresh(f) /\ ProgramReady(w, f, {})
<1> DEFINE q == [method |-> "CreateMissionCots", ms |-> r.ms, c |-> r.c]
           a == [op |-> "store_cot", c |-> r.c]
           b == Post(q)
<1>1. r.ms \in Seq(Missions) /\ r.c \in Cots
  BY MissionRequestFields
<1>2. a \in Statement
  BY <1>1, MakeMission
<1>3. b \in Statement
  BY <1>1, MakeRequest, MakeControl
<1>4. Follows(a, b) /\ Ends(b) /\ ~IsCreation(b) /\ a.op # "delete_row" /\ Ready(w, a, {}, {})
  BY DEF Follows, Ends, IsCreation, Ready, Post
<1>5. Ready(w, b, {a}, {})
  BY DEF Ready, Post, RequestReady, CotReady
<1>6. f = <<a, b>>
  BY DEF cot_event_chain_of_command
<1> HIDE DEF a, b
<1> QED BY <1>2, <1>3, <1>4, <1>5, <1>6, TwoStatements

\* What a program becomes with another after it.
LEMMA Concat ==
  ASSUME NEW f \in Program, NEW g \in Program, f # <<>>, g # <<>>
  PROVE  /\ f \o g \in Program /\ f \o g # <<>> /\ Len(f \o g) = Len(f) + Len(g)
         /\ Head(f \o g) = Head(f) /\ (f \o g)[Len(f \o g)] = g[Len(g)]
         /\ \A i \in DOMAIN (f \o g) :
              \/ i \in DOMAIN f /\ (f \o g)[i] = f[i]
              \/ i - Len(f) \in DOMAIN g /\ i > Len(f) /\ (f \o g)[i] = g[i - Len(f)]
<1>1. /\ f \o g \in Seq(Statement) /\ Len(f \o g) = Len(f) + Len(g)
      /\ \A i \in 1..(Len(f) + Len(g)) : (f \o g)[i] = IF i <= Len(f) THEN f[i] ELSE g[i - Len(f)]
  BY ConcatProperties DEF Program
<1>2. Len(f) \in Nat \ {0} /\ Len(g) \in Nat \ {0} /\ DOMAIN f = 1..Len(f) /\ DOMAIN g = 1..Len(g)
      /\ DOMAIN (f \o g) = 1..(Len(f) + Len(g))
  BY <1>1 DEF Program
<1>3. Head(f) = f[1] /\ Head(f \o g) = (f \o g)[1]
  BY <1>1, <1>2 DEF Program
<1>4. (f \o g)[1] = f[1] /\ (f \o g)[Len(f) + Len(g)] = g[Len(g)]
  BY <1>1, <1>2
<1>5. f \o g # <<>>
  BY <1>1, <1>2
<1> QED BY <1>1, <1>2, <1>3, <1>4, <1>5 DEF Program

LEMMA FreshLog ==
  ASSUME NEW w, NEW r \in Request, r.method = "AddMissionLog",
         NEW f, f = add_mission_log(r.l, r.ms)
  PROVE  Fresh(f) /\ ProgramReady(w, f, {})
<1> DEFINE a == [op |-> "create_log", l |-> r.l, ms |-> r.ms]
           g == [i \in DOMAIN r.ms |-> Record(r.ms[i], "log", None)]
<1>1. r.l \in Nat /\ r.ms \in Seq(Missions)
  BY MissionRequestFields
<1>2. a \in Statement /\ Free(a)
  BY <1>1, MakeMission DEF Free
<1>3. \A m \in Missions : /\ Record(m, "log", None) \in Statement
                          /\ Record(m, "log", None).op = "change"
                          /\ ~IsCreation(Record(m, "log", None))
                          /\ \A before : Ready(w, Record(m, "log", None), before, {})
  BY MakeMission DEF Record, Kinds, Subjects, IsCreation, Ready, HeldReady
<1>4. \A i \in DOMAIN r.ms : r.ms[i] \in Missions
  BY <1>1
<1>5. g \in Program /\ Len(g) = Len(r.ms) /\ DOMAIN g = DOMAIN r.ms
  <2>1. DOMAIN r.ms = 1..Len(r.ms) /\ Len(r.ms) \in Nat
    BY <1>1
  <2>2. \A i \in DOMAIN r.ms : Record(r.ms[i], "log", None) \in Statement
    BY <1>3, <1>4
  <2> QED BY <2>1, <2>2, IsASeq DEF Program
<1>6. \A i \in DOMAIN g : /\ g[i].op = "change" /\ ~IsCreation(g[i])
                          /\ \A before : Ready(w, g[i], before, {})
  BY <1>3, <1>4, <1>5
<1>7. f = <<a>> \o g
  BY DEF add_mission_log
<1> HIDE DEF a, g
<1>8. <<a>> \in Program /\ <<a>> # <<>> /\ Len(<<a>>) = 1 /\ DOMAIN <<a>> = 1..1 /\ <<a>>[1] = a
      /\ Head(<<a>>) = a
  BY <1>2 DEF Program
<1>9. CASE g = <<>>
  <2>1. f = <<a>>
    <3>1. <<a>> \o <<>> = <<a>>
      BY <1>8, ConcatEmptySeq DEF Program
    <3> QED BY <1>7, <1>9, <3>1
  <2> QED BY <1>2, <2>1, FreeStatement, OneStatement
<1>10. CASE g # <<>>
  <2>1. /\ f \in Program /\ f # <<>> /\ Len(f) = 1 + Len(g) /\ Head(f) = a /\ f[Len(f)] = g[Len(g)]
        /\ \A i \in DOMAIN f : \/ i \in DOMAIN <<a>> /\ f[i] = <<a>>[i]
                               \/ i - 1 \in DOMAIN g /\ i > 1 /\ f[i] = g[i - 1]
    <3>1. <<a>> \o g = f  BY <1>7
    <3>2. /\ <<a>> \o g \in Program /\ <<a>> \o g # <<>> /\ Len(<<a>> \o g) = Len(<<a>>) + Len(g)
          /\ Head(<<a>> \o g) = Head(<<a>>) /\ (<<a>> \o g)[Len(<<a>> \o g)] = g[Len(g)]
          /\ \A i \in DOMAIN (<<a>> \o g) :
               \/ i \in DOMAIN <<a>> /\ (<<a>> \o g)[i] = <<a>>[i]
               \/ i - Len(<<a>>) \in DOMAIN g /\ i > Len(<<a>>) /\ (<<a>> \o g)[i] = g[i - Len(<<a>>)]
      <4>1. <<a>> \in Program /\ g \in Program /\ <<a>> # <<>> /\ g # <<>>
        BY <1>5, <1>8, <1>10
      <4> QED BY ONLY <4>1, Concat
    <3> QED BY <1>8, <3>1, <3>2
  <2>2. \A i \in DOMAIN f : \/ i = 1 /\ f[i] = a
                            \/ f[i].op = "change" /\ ~IsCreation(f[i]) /\ \A before : Ready(w, f[i], before, {})
    BY <1>6, <1>8, <2>1
  <2>3. DOMAIN f = 1..Len(f) /\ Len(f) \in Nat /\ Len(f) > 1
    BY <1>5, <1>8, <1>10, <2>1 DEF Program
  <2>4. a.op # "delete_row" /\ ~IsCreation(a) /\ a.op # "change" /\ Ends(a)
        /\ (\A before : Ready(w, a, before, {})) /\ (\A b : b.op # "delete_row" => Follows(a, b))
    <3>1. a.op = "create_log"  BY DEF a
    <3> QED BY <1>2, <3>1, FreeStatement
  <2>5. ProgramReady(w, f, {})
    BY <2>2, <2>4, Zenon DEF ProgramReady
  <2>6. \A x, b : x.op = "change" /\ ~IsCreation(x) /\ b.op # "delete_row" => Follows(x, b) /\ Ends(x)
    BY DEF Follows, Ends
  <2>7. Shape(f)
    <3> SUFFICES ASSUME NEW i \in DOMAIN f
                 PROVE  IF i < Len(f) THEN Follows(f[i], f[i+1]) ELSE Ends(f[i])
      BY DEF Shape
    <3>1. CASE i < Len(f)
      <4>1. i + 1 \in DOMAIN f /\ i + 1 # 1
        BY <2>3, <3>1
      <4>2. f[i+1].op = "change"
        BY <2>2, <4>1
      <4> QED BY <2>2, <2>4, <2>6, <3>1, <4>2
    <3>2. CASE ~(i < Len(f))
      BY <2>2, <2>4, <2>6, <3>2
    <3> QED BY <3>1, <3>2
  <2>8. \A m \in Missions : ~Owes(f, m)
    BY <2>2, <2>3, <2>4 DEF Owes
  <2> QED BY <2>1, <2>4, <2>5, <2>7, <2>8 DEF Fresh
<1> QED BY <1>9, <1>10

\* Objects hold themselves, other uids documents.
LEMMA Contained ==
  /\ \A x \in Objects : x \in Uids /\ x \in Data /\ x \in Contents /\ x \in ContentOf(x)
  /\ \A u \in Checklists \cup Tasks : u \in Uids /\ ContentOf(u) = Doc
  /\ \A d \in Doc : d \in Data /\ d # NoData /\ d \notin Objects
  /\ \A t \in Tasks, v \in 0..MaxVersion : TaskDoc(t, v) \in Doc
  /\ \A S \in SUBSET Tasks : \A d : d \in [S -> 0..MaxVersion] => d \in Doc
  /\ \A d \in Doc : DOMAIN d \subseteq Tasks /\ d \in [DOMAIN d -> 0..MaxVersion]
<1>1. \A x \in Objects : x \in Uids /\ x \in Data /\ x \in Contents /\ x \in ContentOf(x)
  BY TakApiAssumption DEF Objects, ContentOf
<1>2. \A u \in Checklists \cup Tasks : u \in Uids /\ ContentOf(u) = Doc
  BY TakApiAssumption DEF Objects, ContentOf
<1>3. \A d \in Doc : d \in Data /\ d # NoData /\ d \notin Objects
  BY DocAssumption, NoDataAssumption DEF Objects
<1>4. \A S \in SUBSET Tasks : \A d : d \in [S -> 0..MaxVersion] => d \in Doc
  BY DEF Doc
<1>5. \A t \in Tasks, v \in 0..MaxVersion : TaskDoc(t, v) \in [{t} -> 0..MaxVersion]
  BY DEF TaskDoc
<1>6. \A t \in Tasks, v \in 0..MaxVersion : TaskDoc(t, v) \in Doc
  <2> TAKE t \in Tasks, v \in 0..MaxVersion
  <2>1. {t} \in SUBSET Tasks
    OBVIOUS
  <2> QED BY <1>4, <1>5, <2>1
<1>7. \A d \in Doc : DOMAIN d \subseteq Tasks /\ d \in [DOMAIN d -> 0..MaxVersion]
  <2> SUFFICES ASSUME NEW d \in Doc
               PROVE  DOMAIN d \subseteq Tasks /\ d \in [DOMAIN d -> 0..MaxVersion]
    OBVIOUS
  <2>1. PICK S \in SUBSET Tasks : d \in [S -> 0..MaxVersion]
    BY DEF Doc
  <2> QED BY <2>1
<1> QED BY <1>1, <1>2, <1>3, <1>4, <1>6, <1>7

\* Programs of one statement.
LEMMA FreshSingle ==
  ASSUME NEW w, NEW r \in Request, NEW f,
         \/ r.method = "UpdateEnterpriseSyncMetaData" /\ f = update_enterprise_sync_metadata(r.u, r.p)
         \/ r.method = "GetMission" /\ f = get_mission(r.m)
         \/ r.method = "DeleteMissionSubscription" /\ f = delete_mission_subscription(r.m, r.c)
         \/ r.method = "UpdateMissionLog" /\ f = update_mission_log(r.l, r.ms)
         \/ r.method = "DeleteMissionLog" /\ f = delete_log(r.l)
         \/ r.method = "AddChildToParent" /\ f = add_child_to_parent(r.child, r.parent)
         \/ r.method = "DeleteParent" /\ f = delete_parent(r.child)
         \/ r.method = "Notify" /\ f = notify(r.kind, r.m, r.of)
  PROVE  Fresh(f) /\ ProgramReady(w, f, {})
<1>1. CASE r.method = "UpdateEnterpriseSyncMetaData" /\ f = update_enterprise_sync_metadata(r.u, r.p)
  <2> DEFINE a == [op |-> "update_row", u |-> r.u, h |-> NoData, p |-> r.p]
  <2>1. a \in Statement
    BY <1>1, SyncRequestFields, MakeSync, TakApiAssumption
  <2>2. Free(a)  BY DEF Free
  <2>3. f = <<a>>  BY <1>1 DEF update_enterprise_sync_metadata
  <2> QED BY <2>1, <2>2, <2>3, FreeStatement, OneStatement
<1>2. CASE r.method = "GetMission" /\ f = get_mission(r.m)
  <2> DEFINE a == [op |-> "construct", m |-> r.m]
  <2>1. a \in Statement
    BY <1>2, MissionRequestFields, MakeMission
  <2>2. Free(a)  BY DEF Free
  <2>3. f = <<a>>  BY <1>2 DEF get_mission
  <2> QED BY <2>1, <2>2, <2>3, FreeStatement, OneStatement
<1>3. CASE r.method = "DeleteMissionSubscription" /\ f = delete_mission_subscription(r.m, r.c)
  <2> DEFINE a == [op |-> "delete_subscription", m |-> r.m, c |-> r.c]
  <2>1. a \in Statement
    BY <1>3, MissionRequestFields, MakeMission
  <2>2. Free(a)  BY DEF Free
  <2>3. f = <<a>>  BY <1>3 DEF delete_mission_subscription
  <2> QED BY <2>1, <2>2, <2>3, FreeStatement, OneStatement
<1>4. CASE r.method = "UpdateMissionLog" /\ f = update_mission_log(r.l, r.ms)
  <2> DEFINE a == [op |-> "update_log", l |-> r.l, ms |-> r.ms]
  <2>1. a \in Statement
    BY <1>4, MissionRequestFields, MakeMission
  <2>2. Free(a)  BY DEF Free
  <2>3. f = <<a>>  BY <1>4 DEF update_mission_log
  <2> QED BY <2>1, <2>2, <2>3, FreeStatement, OneStatement
<1>5. CASE r.method = "DeleteMissionLog" /\ f = delete_log(r.l)
  <2> DEFINE a == [op |-> "delete_log", l |-> r.l]
  <2>1. a \in Statement
    BY <1>5, MissionRequestFields, MakeMission
  <2>2. Free(a)  BY DEF Free
  <2>3. f = <<a>>  BY <1>5 DEF delete_log
  <2> QED BY <2>1, <2>2, <2>3, FreeStatement, OneStatement
<1>6. CASE r.method = "AddChildToParent" /\ f = add_child_to_parent(r.child, r.parent)
  <2> DEFINE a == [op |-> "add_parent", child |-> r.child, parent |-> r.parent]
  <2>1. a \in Statement
    BY <1>6, MissionRequestFields, MakeMission
  <2>2. Free(a)  BY DEF Free
  <2>3. f = <<a>>  BY <1>6 DEF add_child_to_parent
  <2> QED BY <2>1, <2>2, <2>3, FreeStatement, OneStatement
<1>7. CASE r.method = "DeleteParent" /\ f = delete_parent(r.child)
  <2> DEFINE a == [op |-> "remove_parent", child |-> r.child]
  <2>1. a \in Statement
    BY <1>7, MissionRequestFields, MakeMission
  <2>2. Free(a)  BY DEF Free
  <2>3. f = <<a>>  BY <1>7 DEF delete_parent
  <2> QED BY <2>1, <2>2, <2>3, FreeStatement, OneStatement
<1>8. CASE r.method = "Notify" /\ f = notify(r.kind, r.m, r.of)
  <2> DEFINE a == [op |-> "notify", kind |-> r.kind, m |-> r.m, of |-> r.of]
  <2>1. a \in Statement
    BY <1>8, MissionRequestFields, MakeMission
  <2>2. Free(a)  BY DEF Free
  <2>3. f = <<a>>  BY <1>8 DEF notify
  <2> QED BY <2>1, <2>2, <2>3, FreeStatement, OneStatement
<1> QED BY <1>1, <1>2, <1>3, <1>4, <1>5, <1>6, <1>7, <1>8

LEMMA FreshTemplate ==
  ASSUME NEW w, NEW r \in Request, r.method = "CreateTemplate",
         NEW f, f = create_template_prog(r.t)
  PROVE  Fresh(f) /\ ProgramReady(w, f, {})
<1> DEFINE x == SaveEnterpriseSyncData(r.t, r.t, r.t, FALSE, 0)
           y == AddMissionContents(TemplateMission, <<r.t>>)
           a == [op |-> "create_template", t |-> r.t]
           b == Call(x)
           c == Call(y)
<1>1. r.t \in Templates /\ r.t \in Objects /\ r.t \notin Checklists
  BY ExCheckRequestFields, TakApiAssumption DEF Objects
<1>2. x \in Request
  <2>1. r.t \in Uids /\ r.t \in Data /\ r.t \in ContentOf(r.t)
    BY <1>1, Contained
  <2>2. FALSE \in BOOLEAN /\ 0 \in 0..1
    OBVIOUS
  <2> QED BY <2>1, <2>2, MakeRequest, Zenon
<1>3. y \in Request
  <2>1. <<r.t>> \in NonEmpty(Objects) /\ TemplateMission \in Missions
    BY <1>1, TakApiAssumption DEF NonEmpty
  <2> QED BY <2>1, MakeRequest
<1>4. a \in Statement /\ b \in Statement /\ c \in Statement
  BY <1>1, <1>2, <1>3, MakeExCheck, MakeControl
<1>5. Free(a) /\ Free(c)
  BY DEF Free, Call, AddMissionContents
<1>6. b.op = "call" /\ Ready(w, b, {a}, {})
  BY <1>1 DEF Ready, Call, RequestReady, SaveEnterpriseSyncData
<1>7. Follows(b, c)
  BY DEF Follows, Call, IsCreation
<1>8. f = <<a, b, c>>
  BY DEF create_template_prog
<1> HIDE DEF a, b, c
<1>9. /\ Follows(a, b) /\ Ends(c) /\ a.op # "delete_row" /\ ~IsCreation(c)
      /\ Ready(w, a, {}, {}) /\ Ready(w, c, {a, b}, {})
  BY <1>5, <1>6, FreeStatement
<1> QED BY <1>4, <1>6, <1>7, <1>8, <1>9, ThreeStatements

LEMMA FreshUpdateTask ==
  ASSUME NEW w, NEW r \in Request, r.method = "UpdateChecklistTask",
         NEW f, f = update_checklist_task(r.k, r.t, r.v)
  PROVE  Fresh(f) /\ ProgramReady(w, f, {})
<1> DEFINE x == UpdateEnterpriseSyncData(r.t, TaskDoc(r.t, r.v), TaskDoc(r.t, r.v))
           a == Call(x)
           b == [op |-> "replace_task", k |-> r.k, t |-> r.t, v |-> r.v]
<1>1. r.k \in Checklists /\ r.t \in Tasks /\ r.v \in 0..MaxVersion /\ r.t \notin Checklists
  BY ExCheckRequestFields, TakApiAssumption
<1>2. x \in Request
  <2>1. r.t \in Checklists \cup Tasks /\ TaskDoc(r.t, r.v) \in Data /\ TaskDoc(r.t, r.v) \in ContentOf(r.t)
    BY <1>1, Contained
  <2> QED BY <2>1, MakeRequest
<1>3. a \in Statement /\ b \in Statement
  BY <1>1, <1>2, MakeExCheck, MakeControl
<1>4. Ready(w, a, {}, {})
  BY <1>1 DEF Ready, Call, RequestReady, UpdateEnterpriseSyncData
<1>5. Free(b) /\ b.op # "delete_row"
  BY DEF Free
<1>6. Follows(a, b) /\ a.op # "delete_row"
  BY DEF Follows, IsCreation, Call
<1>7. f = <<a, b>>
  BY DEF update_checklist_task
<1> HIDE DEF a, b
<1> QED BY <1>3, <1>4, <1>5, <1>6, <1>7, FreeStatement, TwoStatements

LEMMA FreshChecklistMission ==
  ASSUME NEW w, NEW r \in Request, r.method = "AddChecklistToMission",
         NEW f, f = add_checklist_to_mission(r.k, r.m, r.e)
  PROVE  Fresh(f) /\ ProgramReady(w, f, {})
<1> DEFINE x == AddMissionExternalData(r.m, r.e, r.k)
           a == [op |-> "read_document", u |-> r.k]
           b == Call(x)
           c == [op |-> "link", k |-> r.k, m |-> r.m]
<1>1. r.k \in Checklists /\ r.m \in Missions /\ r.e \in Nat /\ r.k \in ExtUids /\ r.k \in Uids
  BY ExCheckRequestFields, TakApiAssumption
<1>2. x \in Request
  BY <1>1, MakeRequest
<1>3. a \in Statement /\ b \in Statement /\ c \in Statement
  BY <1>1, <1>2, MakeExCheck, MakeControl
<1>4. Free(a) /\ Free(b) /\ Free(c)
  BY DEF Free, Call, AddMissionExternalData
<1>5. f = <<a, b, c>>
  BY DEF add_checklist_to_mission
<1> HIDE DEF a, b, c
<1>6. /\ Follows(a, b) /\ Follows(b, c) /\ Ends(c) /\ a.op # "delete_row" /\ ~IsCreation(c)
      /\ Ready(w, a, {}, {}) /\ Ready(w, b, {a}, {}) /\ Ready(w, c, {a, b}, {})
  BY <1>4, FreeStatement
<1> QED BY <1>3, <1>5, <1>6, ThreeStatements

LEMMA FreshStart ==
  ASSUME NEW w, NEW r \in Request, r.method = "StartChecklist",
         NEW f, f = start_checklist(r.k, r.t)
  PROVE  Fresh(f) /\ ProgramReady(w, f, {})
<1> DEFINE ts == TasksOf[r.t][r.k]
           doc == [z \in Range(ts) |-> 0]
           x == SaveEnterpriseSyncData(r.k, doc, doc, FALSE, 0)
           y == PutMission(r.k, ExCheckClient, "MISSION_OWNER")
           a == [op |-> "read_document", u |-> r.t]
           b == [op |-> "create_checklist", k |-> r.k]
           c == [op |-> "for_tasks", k |-> r.k, ts |-> ts]
           d == Call(x)
           e == Call(y)
<1>1. /\ r.k \in Checklists /\ r.t \in Templates /\ r.t \in Objects /\ r.t \in Uids
      /\ r.k \in Missions /\ ExCheckClient \in Clients
  BY ExCheckRequestFields, TakApiAssumption DEF Objects
<1>2. ts \in Seq(Tasks)
  BY <1>1, TakApiAssumption
<1>3. Range(ts) \subseteq Tasks
  BY <1>2 DEF Range
<1>4. doc \in Doc
  <2>1. doc \in [Range(ts) -> 0..MaxVersion] /\ Range(ts) \in SUBSET Tasks
    BY <1>3, TakApiAssumption
  <2> QED BY <2>1, Contained
<1>5. x \in Request
  <2>1. r.k \in Uids /\ doc \in Data /\ doc \in ContentOf(r.k)
    BY <1>1, <1>4, Contained
  <2>2. FALSE \in BOOLEAN /\ 0 \in 0..1
    OBVIOUS
  <2> HIDE DEF doc
  <2> QED BY <2>1, <2>2, MakeRequest, Zenon
<1>6. y \in Request
  <2>1. "MISSION_OWNER" \in Roles \cup {None}
    BY DEF Roles
  <2> QED BY <1>1, <2>1, MakeRequest
<1>7. a \in Statement /\ b \in Statement /\ d \in Statement /\ e \in Statement
  BY <1>1, <1>5, <1>6, MakeExCheck, MakeControl
<1>8. Free(a) /\ Free(b)
  BY DEF Free
<1>9. /\ d.op = "call" /\ e.op = "call" /\ Follows(d, e) /\ Ends(e) /\ ~IsCreation(e)
      /\ d.req.method = "SaveEnterpriseSyncData" /\ d.req.u = r.k /\ d.req.d = doc
      /\ e.req.method = "PutMission" /\ e.req.m = r.k
  BY DEF Call, Follows, Ends, IsCreation, SaveEnterpriseSyncData, PutMission
<1>10. \A before : d \in before => Ready(w, e, before, {})
  BY <1>9 DEF Ready, RequestReady, SavedReady
<1>11. f = <<a, b>> \o ForTasks(r.k, ts) \o <<d, e>>
  BY DEF start_checklist, SaveChecklist
<1>12. CASE ts = <<>>
  <2>1. Range(ts) = {}
    BY <1>12 DEF Range
  <2>2. Ready(w, d, {a, b}, {})
    BY <1>9, <2>1 DEF Ready, RequestReady
  <2>3. <<a, b>> \o <<>> = <<a, b>>
    BY <1>7, ConcatEmptySeq
  <2> HIDE DEF a, b, d, e
  <2>4. f = <<a, b, d, e>>
    BY <1>7, <1>11, <1>12, <2>3, Joined DEF ForTasks
  <2>5. Ready(w, e, {a, b, d}, {})
    BY <1>10
  <2>6. a.op # "delete_row" /\ Ready(w, a, {}, {}) /\ Ready(w, b, {a}, {}) /\ Follows(a, b) /\ Follows(b, d)
    BY <1>8, <1>9, FreeStatement
  <2>7. Follows(d, e) /\ Ends(e) /\ ~IsCreation(e)
    BY <1>9
  <2> QED BY ONLY <1>7, <2>2, <2>4, <2>5, <2>6, <2>7, FourStatements
<1>13. CASE ts # <<>>
  <2>1. c \in Statement
    BY <1>1, <1>2, <1>13, MakeControl DEF NonEmpty
  <2>2. c.op = "for_tasks" /\ c.k = r.k /\ c.ts = ts
    OBVIOUS
  <2>3. Ready(w, c, {a, b}, {}) /\ Follows(c, d)
    BY <1>9, <2>2 DEF Ready, Follows, IsCreation
  <2>4. \A before : c \in before => Ready(w, d, before, {})
    <3>1. DOMAIN doc = Range(c.ts)
      BY <2>2
    <3> HIDE DEF c, d, doc
    <3> QED BY <1>9, <2>2, <3>1 DEF Ready, RequestReady, TaskReady
  <2>5. f = <<a, b>> \o <<c>> \o <<d, e>>
    BY <1>11, <1>13 DEF ForTasks
  <2> HIDE DEF a, b, c, d, e
  <2>6. f = <<a, b, c, d, e>>
    <3>1. <<a, b>> \o <<c>> = <<a, b, c>>
      BY <1>7, <2>1, Joined
    <3>2. <<a, b, c>> \o <<d, e>> = <<a, b, c, d, e>>
      BY <1>7, <2>1, Joined
    <3> QED BY <2>5, <3>1, <3>2
  <2>7. Ready(w, d, {a, b, c}, {}) /\ Ready(w, e, {a, b, c, d}, {})
    BY <1>10, <2>4
  <2>8. a.op # "delete_row" /\ Ready(w, a, {}, {}) /\ Ready(w, b, {a}, {}) /\ Follows(a, b) /\ Follows(b, c)
    BY <1>8, <2>2, FreeStatement
  <2> QED BY <1>7, <1>9, <2>1, <2>3, <2>6, <2>7, <2>8, FiveStatements
<1> QED BY <1>12, <1>13

\* The action mapping: f is the program of request r.
IsBody(r, f) ==
  \/ r.method = "SaveEnterpriseSyncData" /\ f = save_enterprise_sync_data(r.u, r.d, r.h, r.zip, r.private)
  \/ r.method = "UpdateEnterpriseSyncData" /\ f = update_enterprise_sync_data(r.u, r.h, r.d)
  \/ r.method = "UpdateEnterpriseSyncMetaData" /\ f = update_enterprise_sync_metadata(r.u, r.p)
  \/ r.method = "DeleteEnterpriseSyncData" /\ f = delete_enterprise_sync_data(r.h)
  \/ r.method = "PutMission" /\ f = put_mission(r.m, r.c, r.role)
  \/ r.method = "GetMission" /\ f = get_mission(r.m)
  \/ r.method = "AddMissionContents" /\ f = add_contents_to_mission(r.m, r.hs)
  \/ r.method = "AddMissionSubscription" /\ f = add_mission_subscription(r.m, r.c)
  \/ r.method = "DeleteMissionSubscription" /\ f = delete_mission_subscription(r.m, r.c)
  \/ r.method = "SendInvitation" /\ f = send_invitation(r.m, r.c)
  \/ r.method = "AddMissionLog" /\ f = add_mission_log(r.l, r.ms)
  \/ r.method = "UpdateMissionLog" /\ f = update_mission_log(r.l, r.ms)
  \/ r.method = "DeleteMissionLog" /\ f = delete_log(r.l)
  \/ r.method = "AddMissionExternalData" /\ f = add_mission_external_data(r.m, r.e, r.u)
  \/ r.method = "AddChildToParent" /\ f = add_child_to_parent(r.child, r.parent)
  \/ r.method = "DeleteParent" /\ f = delete_parent(r.child)
  \/ r.method = "CreateMissionCots" /\ f = create_mission_cots(r.ms, r.c)
  \/ r.method = "CotEvent" /\ f = cot_event_chain_of_command(r.ms, r.c)
  \/ r.method = "CreateTemplate" /\ f = create_template_prog(r.t)
  \/ r.method = "StartChecklist" /\ f = start_checklist(r.k, r.t)
  \/ r.method = "UpdateChecklistTask" /\ f = update_checklist_task(r.k, r.t, r.v)
  \/ r.method = "AddChecklistToMission" /\ f = add_checklist_to_mission(r.k, r.m, r.e)
  \/ r.method = "Notify" /\ f = notify(r.kind, r.m, r.of)

\* The program of a request that is ready is ready, and does not owe anything.
LEMMA BodyFresh ==
  ASSUME NEW w, NEW r \in Request, RequestReady(w, r, {}, {}), NEW f, IsBody(r, f)
  PROVE  /\ Fresh(f) /\ ProgramReady(w, f, {})
         /\ r.method = "SaveEnterpriseSyncData" => Head(f).op = "save_file" /\ Head(f).u = r.u
<1>1. CASE r.method = "SaveEnterpriseSyncData"
  <2>1. f = save_enterprise_sync_data(r.u, r.d, r.h, r.zip, r.private)
    BY <1>1 DEF IsBody
  <2> QED BY <1>1, <2>1, FreshSave
<1>2. CASE r.method = "UpdateEnterpriseSyncData"
  <2>1. f = update_enterprise_sync_data(r.u, r.h, r.d)
    BY <1>2 DEF IsBody
  <2> QED BY <1>2, <2>1, FreshUpdate
<1>3. CASE r.method = "DeleteEnterpriseSyncData"
  <2>1. f = delete_enterprise_sync_data(r.h)
    BY <1>3 DEF IsBody
  <2> QED BY <1>3, <2>1, FreshDelete
<1>4. CASE r.method = "PutMission"
  <2>1. f = put_mission(r.m, r.c, r.role)
    BY <1>4 DEF IsBody
  <2> QED BY <1>4, <2>1, FreshPutMission
<1>5. CASE r.method = "AddMissionContents"
  <2>1. f = add_contents_to_mission(r.m, r.hs)
    BY <1>5 DEF IsBody
  <2> QED BY <1>5, <2>1, FreshAddContents
<1>6. CASE r.method = "AddMissionSubscription"
  <2>1. f = add_mission_subscription(r.m, r.c)
    BY <1>6 DEF IsBody
  <2> QED BY <1>6, <2>1, FreshSubscription
<1>7. CASE r.method = "SendInvitation"
  <2>1. f = send_invitation(r.m, r.c)
    BY <1>7 DEF IsBody
  <2> QED BY <1>7, <2>1, FreshInvitation
<1>8. CASE r.method = "AddMissionLog"
  <2>1. f = add_mission_log(r.l, r.ms)
    BY <1>8 DEF IsBody
  <2> QED BY <1>8, <2>1, FreshLog
<1>9. CASE r.method = "AddMissionExternalData"
  <2>1. f = add_mission_external_data(r.m, r.e, r.u)
    BY <1>9 DEF IsBody
  <2> QED BY <1>9, <2>1, FreshExternalData
<1>10. CASE r.method = "CreateMissionCots"
  <2>1. f = create_mission_cots(r.ms, r.c)
    BY <1>10 DEF IsBody
  <2> QED BY <1>10, <2>1, FreshCots
<1>11. CASE r.method = "CotEvent"
  <2>1. f = cot_event_chain_of_command(r.ms, r.c)
    BY <1>11 DEF IsBody
  <2> QED BY <1>11, <2>1, FreshCotEvent
<1>12. CASE r.method = "CreateTemplate"
  <2>1. f = create_template_prog(r.t)
    BY <1>12 DEF IsBody
  <2> QED BY <1>12, <2>1, FreshTemplate
<1>13. CASE r.method = "StartChecklist"
  <2>1. f = start_checklist(r.k, r.t)
    BY <1>13 DEF IsBody
  <2> QED BY <1>13, <2>1, FreshStart
<1>14. CASE r.method = "UpdateChecklistTask"
  <2>1. f = update_checklist_task(r.k, r.t, r.v)
    BY <1>14 DEF IsBody
  <2> QED BY <1>14, <2>1, FreshUpdateTask
<1>15. CASE r.method = "AddChecklistToMission"
  <2>1. f = add_checklist_to_mission(r.k, r.m, r.e)
    BY <1>15 DEF IsBody
  <2> QED BY <1>15, <2>1, FreshChecklistMission
<1>16. CASE r.method \in {"UpdateEnterpriseSyncMetaData", "GetMission", "DeleteMissionSubscription",
                          "UpdateMissionLog", "DeleteMissionLog", "AddChildToParent", "DeleteParent", "Notify"}
  <2>1. \/ r.method = "UpdateEnterpriseSyncMetaData" /\ f = update_enterprise_sync_metadata(r.u, r.p)
        \/ r.method = "GetMission" /\ f = get_mission(r.m)
        \/ r.method = "DeleteMissionSubscription" /\ f = delete_mission_subscription(r.m, r.c)
        \/ r.method = "UpdateMissionLog" /\ f = update_mission_log(r.l, r.ms)
        \/ r.method = "DeleteMissionLog" /\ f = delete_log(r.l)
        \/ r.method = "AddChildToParent" /\ f = add_child_to_parent(r.child, r.parent)
        \/ r.method = "DeleteParent" /\ f = delete_parent(r.child)
        \/ r.method = "Notify" /\ f = notify(r.kind, r.m, r.of)
    BY <1>16 DEF IsBody
  <2> QED BY <1>16, <2>1, FreshSingle
<1> QED BY <1>1, <1>2, <1>3, <1>4, <1>5, <1>6, <1>7, <1>8, <1>9, <1>10, <1>11, <1>12, <1>13, <1>14,
           <1>15, <1>16 DEF IsBody

-----------------------------------------------------------------------------
(* Programs taken apart and put together. *)

\* A statement after which anything but the deletion of a row may come, or nothing.
Closed(x) == Ends(x) /\ ~IsCreation(x) /\ \A b : b.op # "delete_row" => Follows(x, b)

LEMMA ClosedStatement ==
  ASSUME NEW x, Free(x) \/ (x.op = "change" /\ ~IsCreation(x)) \/ x.op = "create_task"
  PROVE  Closed(x)
BY DEF Free, Closed, Ends, IsCreation, Follows

LEMMA TailProgram ==
  ASSUME NEW f \in Program, f # <<>>
  PROVE  /\ Tail(f) \in Program /\ Len(Tail(f)) = Len(f) - 1 /\ Len(f) \in Nat \ {0}
         /\ DOMAIN f = 1..Len(f) /\ DOMAIN Tail(f) = 1..(Len(f) - 1)
         /\ \A i \in DOMAIN Tail(f) : i + 1 \in DOMAIN f /\ Tail(f)[i] = f[i+1]
         /\ Head(f) = f[1] /\ Head(f) \in Statement /\ \A i \in DOMAIN f : f[i] \in Statement
         /\ Tail(f) # <<>> => /\ Len(f) > 1 /\ Head(Tail(f)) = f[2]
                              /\ Tail(f)[Len(Tail(f))] = f[Len(f)]
         /\ Tail(f) = <<>> => Len(f) = 1
<1>1. Len(f) \in Nat \ {0} /\ DOMAIN f = 1..Len(f) /\ Head(f) = f[1] /\ \A i \in DOMAIN f : f[i] \in Statement
  BY DEF Program
<1>2. /\ Tail(f) \in Seq(Statement) /\ Len(Tail(f)) = Len(f) - 1
      /\ \A i \in 1..(Len(f) - 1) : Tail(f)[i] = f[i+1]
  BY <1>1 DEF Program
<1>3. DOMAIN Tail(f) = 1..(Len(f) - 1)
  BY <1>2
<1>4. \A i \in DOMAIN Tail(f) : i + 1 \in DOMAIN f /\ Tail(f)[i] = f[i+1]
  BY <1>1, <1>2, <1>3
<1>5. ASSUME Tail(f) # <<>>
      PROVE  Len(f) > 1 /\ Head(Tail(f)) = f[2] /\ Tail(f)[Len(Tail(f))] = f[Len(f)]
  <2>1. Len(f) - 1 \in Nat /\ Len(f) - 1 # 0
    BY <1>1, <1>2, <1>5
  <2>2. 1 \in 1..(Len(f) - 1) /\ Len(f) - 1 \in 1..(Len(f) - 1) /\ (Len(f) - 1) + 1 = Len(f)
    BY <1>1, <2>1
  <2>3. Tail(f)[1] = f[2] /\ Tail(f)[Len(f) - 1] = f[Len(f)]
    BY <1>1, <1>2, <1>3, <2>1, <2>2
  <2>4. Head(Tail(f)) = Tail(f)[1]
    BY <1>2, <1>5
  <2> QED BY <1>1, <1>2, <2>1, <2>3, <2>4
<1>6. Tail(f) = <<>> => Len(f) = 1
  <2>1. Tail(f) \in Seq(Statement) /\ Tail(f) = <<>> => Len(Tail(f)) = 0
    BY EmptySeq
  <2> QED BY <1>1, <1>2, <2>1
<1> QED BY <1>1, <1>2, <1>3, <1>4, <1>5, <1>6 DEF Program

LEMMA TailShape ==
  ASSUME NEW f \in Program, f # <<>>, Shape(f)
  PROVE  /\ Shape(Tail(f))
         /\ Tail(f) # <<>> => Follows(Head(f), Head(Tail(f)))
         /\ Tail(f) = <<>> => Ends(Head(f))
<1>1. Len(f) \in Nat \ {0} /\ DOMAIN f = 1..Len(f) /\ DOMAIN Tail(f) = 1..(Len(f) - 1)
      /\ Len(Tail(f)) = Len(f) - 1 /\ \A i \in DOMAIN Tail(f) : i + 1 \in DOMAIN f /\ Tail(f)[i] = f[i+1]
  BY TailProgram
<1>2. Shape(Tail(f))
  <2> SUFFICES ASSUME NEW i \in DOMAIN Tail(f)
               PROVE  IF i < Len(Tail(f)) THEN Follows(Tail(f)[i], Tail(f)[i+1]) ELSE Ends(Tail(f)[i])
    BY DEF Shape
  <2>1. IF i + 1 < Len(f) THEN Follows(f[i+1], f[i+2]) ELSE Ends(f[i+1])
    <3>1. i + 1 \in DOMAIN f /\ (i + 1) + 1 = i + 2
      BY <1>1
    <3> QED BY <3>1 DEF Shape
  <2>2. CASE i < Len(Tail(f))
    <3>1. i + 1 < Len(f) /\ i + 1 \in DOMAIN Tail(f) /\ (i + 1) + 1 = i + 2
      BY <1>1, <2>2
    <3>2. Tail(f)[i] = f[i+1] /\ Tail(f)[i+1] = f[i+2]
      BY <1>1, <3>1
    <3> QED BY <2>1, <2>2, <3>1, <3>2
  <2>3. CASE ~(i < Len(Tail(f)))
    <3>1. ~(i + 1 < Len(f)) /\ Tail(f)[i] = f[i+1]
      BY <1>1, <2>3
    <3> QED BY <2>1, <2>3, <3>1
  <2> QED BY <2>2, <2>3
<1>3. 1 \in DOMAIN f /\ Head(f) = f[1]
  BY <1>1, TailProgram
<1>4. IF 1 < Len(f) THEN Follows(f[1], f[1+1]) ELSE Ends(f[1])
  BY <1>3 DEF Shape
<1>5. Tail(f) # <<>> => Len(f) > 1 /\ Head(Tail(f)) = f[2]
  BY TailProgram
<1>6. Tail(f) = <<>> => Len(f) = 1
  BY TailProgram
<1> QED BY <1>1, <1>2, <1>3, <1>4, <1>5, <1>6

LEMMA JoinShape ==
  ASSUME NEW f \in Program, NEW g \in Program, f # <<>>, g # <<>>, Shape(f), Shape(g),
         Follows(f[Len(f)], Head(g))
  PROVE  Shape(f \o g)
<1> DEFINE n == Len(f)  k == Len(g)  j == f \o g
<1>1. n \in Nat \ {0} /\ k \in Nat \ {0} /\ DOMAIN f = 1..n /\ DOMAIN g = 1..k /\ Head(g) = g[1]
  BY DEF Program
<1>2. Len(j) = n + k /\ DOMAIN j = 1..(n + k)
      /\ \A i \in 1..(n + k) : j[i] = IF i <= n THEN f[i] ELSE g[i - n]
  BY ConcatProperties DEF Program
<1> SUFFICES ASSUME NEW i \in 1..(n + k)
             PROVE  IF i < n + k THEN Follows(j[i], j[i+1]) ELSE Ends(j[i])
  BY <1>2 DEF Shape
<1> HIDE DEF n, k, j
<1>3. CASE i < n
  <2>1. i \in DOMAIN f /\ i + 1 <= n /\ i + 1 \in 1..(n + k) /\ i < n + k /\ i <= n
    BY <1>1, <1>3
  <2>2. Follows(f[i], f[i+1])
    BY <1>3, <2>1 DEF Shape, n
  <2> QED BY <1>2, <2>1, <2>2
<1>4. CASE i = n
  <2>1. i + 1 \in 1..(n + k) /\ ~(i + 1 <= n) /\ (i + 1) - n = 1 /\ i < n + k /\ i <= n
    BY <1>1, <1>4
  <2>2. j[i] = f[n] /\ j[i+1] = g[1]
    BY <1>2, <1>4, <2>1
  <2> QED BY <1>1, <2>1, <2>2 DEF n
<1>5. CASE i > n /\ i < n + k
  <2>1. /\ i - n \in DOMAIN g /\ i - n < k /\ i + 1 \in 1..(n + k) /\ ~(i <= n) /\ ~(i + 1 <= n)
        /\ (i + 1) - n = (i - n) + 1
    BY <1>1, <1>5
  <2>2. Follows(g[i - n], g[(i - n) + 1])
    BY <2>1 DEF Shape, k
  <2> QED BY <1>2, <1>5, <2>1, <2>2
<1>6. CASE i = n + k
  <2>1. i - n \in DOMAIN g /\ ~(i - n < k) /\ ~(i <= n) /\ ~(i < n + k)
    BY <1>1, <1>6
  <2>2. Ends(g[i - n])
    BY <2>1 DEF Shape, k
  <2> QED BY <1>2, <2>1, <2>2
<1> QED BY <1>1, <1>3, <1>4, <1>5, <1>6

\* A program without its first statement, when the rest no longer needs that.
LEMMA TailReady ==
  ASSUME NEW w, NEW v, NEW B, NEW U, NEW f \in Program, f # <<>>, ProgramReady(w, f, {}),
         \A s \in Statement : \A C :
           Ready(w, s, C \cup {Head(f)}, {}) => Ready(v, s, C \cup B, U)
  PROVE  \A i \in DOMAIN Tail(f) : Ready(v, Tail(f)[i], Before(Tail(f), i) \cup B, U)
<1> SUFFICES ASSUME NEW i \in DOMAIN Tail(f)
             PROVE  Ready(v, Tail(f)[i], Before(Tail(f), i) \cup B, U)
  OBVIOUS
<1>1. /\ Len(f) \in Nat \ {0} /\ DOMAIN f = 1..Len(f) /\ DOMAIN Tail(f) = 1..(Len(f) - 1)
      /\ \A j \in DOMAIN Tail(f) : j + 1 \in DOMAIN f /\ Tail(f)[j] = f[j+1]
      /\ Head(f) = f[1] /\ \A j \in DOMAIN f : f[j] \in Statement
  BY TailProgram
<1>2. Before(f, i + 1) = Before(Tail(f), i) \cup {Head(f)}
  <2>1. i \in Nat /\ (i + 1) - 1 = i /\ \A j \in 1..(i-1) : j \in DOMAIN Tail(f) /\ j + 1 \in 1..i
    BY <1>1
  <2>2. \A x : x \in Before(Tail(f), i) \cup {Head(f)} => x \in Before(f, i + 1)
    <3>1. ASSUME NEW j \in 1..(i-1)  PROVE Tail(f)[j] \in {f[l] : l \in 1..i}
      BY <1>1, <2>1
    <3>2. f[1] \in {f[l] : l \in 1..i}
      BY <1>1
    <3> QED BY <1>1, <2>1, <3>1, <3>2 DEF Before
  <2>3. ASSUME NEW l \in 1..i  PROVE f[l] \in Before(Tail(f), i) \cup {Head(f)}
    <3>1. CASE l = 1
      BY <1>1, <3>1
    <3>2. CASE l # 1
      <4>1. l - 1 \in 1..(i-1) /\ (l - 1) + 1 = l
        BY <1>1, <3>2
      <4>2. Tail(f)[l-1] = f[l]
        BY <1>1, <2>1, <4>1
      <4> QED BY <4>1, <4>2 DEF Before
    <3> QED BY <3>1, <3>2
  <2>4. \A x : x \in Before(f, i + 1) => x \in Before(Tail(f), i) \cup {Head(f)}
    BY <2>1, <2>3 DEF Before
  <2> QED BY <2>2, <2>4
<1>3. Ready(w, f[i+1], Before(Tail(f), i) \cup {Head(f)}, {})
  BY <1>1, <1>2 DEF ProgramReady
<1> QED BY <1>1, <1>3

\* A program put before another, which may rely on it.
LEMMA JoinReady ==
  ASSUME NEW w, NEW f \in Program, NEW g \in Program, f # <<>>, g # <<>>, ProgramReady(w, f, {}),
         \A i \in DOMAIN g : Ready(w, g[i], Before(g, i) \cup Range(f), {})
  PROVE  ProgramReady(w, f \o g, {})
<1> DEFINE n == Len(f)  k == Len(g)  j == f \o g
<1>1. n \in Nat \ {0} /\ k \in Nat \ {0} /\ DOMAIN f = 1..n /\ DOMAIN g = 1..k
  BY DEF Program
<1>2. DOMAIN j = 1..(n + k) /\ \A i \in 1..(n + k) : j[i] = IF i <= n THEN f[i] ELSE g[i - n]
  BY ConcatProperties DEF Program
<1> SUFFICES ASSUME NEW i \in 1..(n + k)
             PROVE  Ready(w, j[i], Before(j, i), {})
  BY <1>2 DEF ProgramReady
<1> HIDE DEF n, k, j
<1>3. CASE i <= n
  <2>1. i \in DOMAIN f /\ \A l \in 1..(i-1) : l \in 1..(n + k) /\ l <= n
    BY <1>1, <1>3
  <2>2. \A l \in 1..(i-1) : j[l] = f[l]
    BY <1>2, <2>1
  <2>3. Before(j, i) = Before(f, i)
    BY <2>2 DEF Before
  <2>4. Ready(w, f[i], Before(f, i), {})
    BY <2>1 DEF ProgramReady
  <2> QED BY <1>2, <1>3, <2>3, <2>4
<1>4. CASE ~(i <= n)
  <2>1. i - n \in DOMAIN g /\ j[i] = g[i - n]
    BY <1>1, <1>2, <1>4
  <2>2. ASSUME NEW l \in 1..(i-1)  PROVE j[l] \in Before(g, i - n) \cup Range(f)
    <3>1. l \in 1..(n + k)
      BY <1>1
    <3>2. CASE l <= n
      <4>1. j[l] = f[l] /\ l \in DOMAIN f
        BY <1>1, <1>2, <3>1, <3>2
      <4> QED BY <4>1 DEF Range
    <3>3. CASE ~(l <= n)
      <4>1. j[l] = g[l - n] /\ l - n \in 1..((i - n) - 1)
        BY <1>1, <1>2, <1>4, <3>1, <3>3
      <4> QED BY <4>1 DEF Before
    <3> QED BY <3>2, <3>3
  <2>3. ASSUME NEW l \in DOMAIN f  PROVE f[l] \in Before(j, i)
    <3>1. l \in 1..(i-1) /\ l \in 1..(n + k) /\ l <= n
      BY <1>1, <1>4
    <3>2. j[l] = f[l]
      BY <1>2, <3>1
    <3> QED BY <3>1, <3>2 DEF Before
  <2>4. ASSUME NEW l \in 1..((i - n) - 1)  PROVE g[l] \in Before(j, i)
    <3>1. l + n \in 1..(i-1) /\ l + n \in 1..(n + k) /\ ~(l + n <= n) /\ (l + n) - n = l
      BY <1>1, <1>4
    <3>2. j[l + n] = g[l]
      BY <1>2, <3>1
    <3> QED BY <3>1, <3>2 DEF Before
  <2>5. Before(j, i) = Before(g, i - n) \cup Range(f)
    <3>1. \A x : x \in Before(j, i) => x \in Before(g, i - n) \cup Range(f)
      BY <2>2 DEF Before
    <3>2. \A x : x \in Before(g, i - n) => x \in Before(j, i)
      <4>1. Before(g, i - n) = {g[l] : l \in 1..((i - n) - 1)}
        BY DEF Before
      <4> QED BY <2>4, <4>1
    <3>3. \A x : x \in Range(f) => x \in Before(j, i)
      BY <2>3 DEF Range
    <3> QED BY <3>1, <3>2, <3>3
  <2>6. Ready(w, g[i - n], Before(g, i - n) \cup Range(f), {})
    BY <2>1
  <2> QED BY <2>1, <2>5, <2>6
<1> QED BY <1>3, <1>4

-----------------------------------------------------------------------------
(* What the stores give is not lost, and what a statement gives it relies on  *)
(* no longer once it has been executed.                                       *)

Grows(w, v) ==
  w.done \subseteq v.done /\ w.saved \subseteq v.saved /\ w.stored \subseteq v.stored /\ w.held \subseteq v.held

\* What the statement that has been executed was good for.
Given(v, h) ==
  /\ h.op = "create_task" => <<h.k, h.t>> \in v.done
  /\ h.op = "save_file" /\ h.u \in Checklists \cup Tasks => h.u \in v.saved
  /\ h.op = "store_cot" => h.c \in v.stored
  /\ h.op = "create_content" => <<h.m, "content", h.x>> \in v.held
  /\ h.op = "create_cot" => <<h.m, "cot", h.c>> \in v.held
  /\ h.op = "add_external_data" => <<h.m, "external", h.e>> \in v.held

LEMMA RequestMonotone ==
  ASSUME NEW w, NEW v, Grows(w, v), NEW r, NEW B, NEW C, NEW U, NEW V, B \subseteq C, U \subseteq V,
         RequestReady(w, r, B, U)
  PROVE  RequestReady(v, r, C, V)
<1>1. \A c : CotReady(w, c, B) => CotReady(v, c, C)
  BY DEF CotReady, Grows
<1>2. \A k, t : TaskReady(w, k, t, B) => TaskReady(v, k, t, C)
  BY DEF TaskReady, Grows
<1>3. \A u : SavedReady(w, u, B, U) => SavedReady(v, u, C, V)
  BY DEF SavedReady, Grows
<1> QED BY <1>1, <1>2, <1>3 DEF RequestReady

LEMMA Monotone ==
  ASSUME NEW w, NEW v, Grows(w, v), NEW s, NEW B, NEW C, NEW U, NEW V, B \subseteq C, U \subseteq V,
         Ready(w, s, B, U)
  PROVE  Ready(v, s, C, V)
<1>1. \A c : CotReady(w, c, B) => CotReady(v, c, C)
  BY DEF CotReady, Grows
<1>2. \A k, t : TaskReady(w, k, t, B) => TaskReady(v, k, t, C)
  BY DEF TaskReady, Grows
<1>3. \A u : SavedReady(w, u, B, U) => SavedReady(v, u, C, V)
  BY DEF SavedReady, Grows
<1>4. \A m, kind, of : HeldReady(w, m, kind, of, B) => HeldReady(v, m, kind, of, C)
  BY DEF HeldReady, Grows
<1>5. \A r : RequestReady(w, r, B, U) => RequestReady(v, r, C, V)
  BY RequestMonotone
<1>6. \A u : u \in w.saved => u \in v.saved
  BY DEF Grows
<1> QED BY <1>1, <1>2, <1>3, <1>4, <1>5, <1>6 DEF Ready

\* An executed statement is not needed any more.
LEMMA Discharge ==
  ASSUME NEW w, NEW v, Grows(w, v), NEW h, Given(v, h), h.op \notin {"call", "for_tasks"},
         NEW s, NEW C, Ready(w, s, C \cup {h}, {})
  PROVE  Ready(v, s, C, {})
<1>1. \A c : CotReady(w, c, C \cup {h}) => CotReady(v, c, C)
  BY DEF CotReady, Grows, Given
<1>2. \A k, t : TaskReady(w, k, t, C \cup {h}) => TaskReady(v, k, t, C)
  BY DEF TaskReady, Grows, Given
<1>3. \A u : SavedReady(w, u, C \cup {h}, {}) => SavedReady(v, u, C, {})
  BY DEF SavedReady, Grows, Given
<1>4. \A m, kind, of : HeldReady(w, m, kind, of, C \cup {h}) => HeldReady(v, m, kind, of, C)
  BY DEF HeldReady, Grows, Given
<1>5. \A r : RequestReady(w, r, C \cup {h}, {}) => RequestReady(v, r, C, {})
  BY <1>1, <1>2, <1>3 DEF RequestReady
<1>6. \A u : u \in w.saved => u \in v.saved
  BY DEF Grows
<1> QED BY <1>1, <1>2, <1>3, <1>4, <1>5, <1>6 DEF Ready

\* Nor does the caller need it.
LEMMA DischargeAbove ==
  ASSUME NEW w, NEW v, Grows(w, v), NEW h,
         h.op = "save_file" /\ h.u \in Checklists \cup Tasks => h.u \in v.saved,
         NEW s \in Statement, NEW C, Ready(w, s, C, {h})
  PROVE  Ready(v, s, C, {})
<1>1. \A c : CotReady(w, c, C) => CotReady(v, c, C)
  BY DEF CotReady, Grows
<1>2. \A k, t : TaskReady(w, k, t, C) => TaskReady(v, k, t, C)
  BY DEF TaskReady, Grows
<1>3. \A u \in Checklists \cup Tasks : SavedReady(w, u, C, {h}) => SavedReady(v, u, C, {})
  BY DEF SavedReady, Grows
<1>4. \A m, kind, of : HeldReady(w, m, kind, of, C) => HeldReady(v, m, kind, of, C)
  BY DEF HeldReady, Grows
<1>5. \A r : RequestReady(w, r, C, {h}) => RequestReady(v, r, C, {})
  BY <1>1, <1>2, <1>3 DEF RequestReady
<1>6. \A u : u \in w.saved => u \in v.saved
  BY DEF Grows
<1>7. s.op = "create_task" => s.t \in Tasks
  BY ExCheckFields
<1> QED BY <1>1, <1>2, <1>3, <1>4, <1>5, <1>6, <1>7 DEF Ready

\* A call is replaced by the first statement of the program called.
LEMMA DischargeCall ==
  ASSUME NEW w, NEW h, NEW g, h.op = "call",
         h.req.method = "SaveEnterpriseSyncData" => g.op = "save_file" /\ g.u = h.req.u,
         NEW s, NEW C, Ready(w, s, C \cup {h}, {})
  PROVE  Ready(w, s, C, {g})
<1>1. \A c : CotReady(w, c, C \cup {h}) => CotReady(w, c, C)
  BY DEF CotReady
<1>2. \A k, t : TaskReady(w, k, t, C \cup {h}) => TaskReady(w, k, t, C)
  BY DEF TaskReady
<1>3. \A u : SavedReady(w, u, C \cup {h}, {}) => SavedReady(w, u, C, {g})
  BY DEF SavedReady
<1>4. \A m, kind, of : HeldReady(w, m, kind, of, C \cup {h}) => HeldReady(w, m, kind, of, C)
  BY DEF HeldReady
<1>5. \A r : RequestReady(w, r, C \cup {h}, {}) => RequestReady(w, r, C, {g})
  BY <1>1, <1>2, <1>3 DEF RequestReady
<1> QED BY <1>1, <1>2, <1>3, <1>4, <1>5 DEF Ready

\* The loop over tasks is replaced by its first round and the loop over the others.
LEMMA DischargeTasks ==
  ASSUME NEW w, NEW h, NEW B, h.op = "for_tasks",
         \A t \in Range(h.ts) : \E g \in B : \/ g.op = "create_task" /\ g.k = h.k /\ g.t = t
                                             \/ g.op = "for_tasks" /\ g.k = h.k /\ t \in Range(g.ts),
         NEW s, NEW C, Ready(w, s, C \cup {h}, {})
  PROVE  Ready(w, s, C \cup B, {})
<1>1. \A c : CotReady(w, c, C \cup {h}) => CotReady(w, c, C \cup B)
  BY DEF CotReady
<1>2. \A k, t : TaskReady(w, k, t, C \cup {h}) => TaskReady(w, k, t, C \cup B)
  BY DEF TaskReady
<1>3. \A u : SavedReady(w, u, C \cup {h}, {}) => SavedReady(w, u, C \cup B, {})
  BY DEF SavedReady
<1>4. \A m, kind, of : HeldReady(w, m, kind, of, C \cup {h}) => HeldReady(w, m, kind, of, C \cup B)
  BY DEF HeldReady
<1>5. \A r : RequestReady(w, r, C \cup {h}, {}) => RequestReady(w, r, C \cup B, {})
  BY <1>1, <1>2, <1>3 DEF RequestReady
<1> QED BY <1>1, <1>2, <1>3, <1>4, <1>5 DEF Ready

-----------------------------------------------------------------------------
(* Stacks. *)

StackGood(w, st) == st \in Seq(Program) /\ StackReady(w, st) /\ StackShape(st)

\* What a process is after Resume.
ResumeTo(progs, ok, q) ==
  \E n \in 0..Len(progs) :
    /\ \A i \in (n+1)..Len(progs) : progs[i] = <<>>
    /\ n # 0 => progs[n] # <<>>
    /\ q = [stack |-> SubSeq(progs, 1, n), ok |-> ok \/ n # Len(progs)]

LEMMA Below ==
  /\ \A n \in Nat \ {0} : \A l \in 1..(n - 1) : l + 1 < n \/ l + 1 = n
  /\ \A n \in Nat : \A l \in 0..n : l # n => n \in (l+1)..n
OBVIOUS

\* Programs that have nothing left are taken off a stack: it stays a good one.
LEMMA Truncated ==
  ASSUME NEW w, NEW progs, StackGood(w, progs), NEW ok \in BOOLEAN, NEW q, ResumeTo(progs, ok, q)
  PROVE  /\ q \in [stack : Seq(Program), ok : BOOLEAN] /\ StackGood(w, q.stack)
         /\ q.stack # <<>> => q.stack[Len(q.stack)] # <<>>
         /\ Len(q.stack) <= Len(progs)
         /\ \A l \in DOMAIN q.stack : l \in DOMAIN progs /\ q.stack[l] = progs[l]
         /\ Len(q.stack) < Len(progs) /\ q.stack # <<>> =>
              Head(q.stack[Len(q.stack)]).op # "delete_row"
         /\ progs # <<>> /\ progs[Len(progs)] # <<>> => q.stack = progs
<1>1. PICK n \in 0..Len(progs) :
        /\ \A i \in (n+1)..Len(progs) : progs[i] = <<>>
        /\ n # 0 => progs[n] # <<>>
        /\ q = [stack |-> SubSeq(progs, 1, n), ok |-> ok \/ n # Len(progs)]
  BY DEF ResumeTo
<1>2. progs \in Seq(Program) /\ Len(progs) \in Nat /\ DOMAIN progs = 1..Len(progs)
  BY DEF StackGood
<1> DEFINE st == SubSeq(progs, 1, n)
<1>3. st \in Seq(Program) /\ Len(st) = n /\ DOMAIN st = 1..n /\ \A l \in 1..n : st[l] = progs[l]
  <2>1. 1 \in 1..(Len(progs) + 1) /\ n \in 0..Len(progs) /\ n \in Nat
    BY <1>2
  <2>2. st \in Seq(Program) /\ Len(st) = n /\ \A l \in 1..n : st[l] = progs[l]
    BY <1>2, <2>1
  <2> QED BY <2>2
<1>4. q.stack = st /\ q.ok \in BOOLEAN
  <2>1. (ok \/ n # Len(progs)) \in BOOLEAN
    OBVIOUS
  <2>2. q.stack = st /\ q.ok = (ok \/ n # Len(progs))
    BY <1>1
  <2> QED BY <2>1, <2>2, Zenon
<1>5. q \in [stack : Seq(Program), ok : BOOLEAN]
  <2>1. (ok \/ n # Len(progs)) \in BOOLEAN
    OBVIOUS
  <2> QED BY <1>1, <1>3, <2>1, Zenon
<1> HIDE DEF st
<1>6. \A l \in DOMAIN st : l \in DOMAIN progs /\ st[l] = progs[l]
  BY <1>2, <1>3
<1>7. \A l \in DOMAIN st : Above(st, l) = Above(progs, l)
  <2> SUFFICES ASSUME NEW l \in 1..n  PROVE Above(st, l) = Above(progs, l)
    BY <1>3
  <2>1. CASE l < n
    <3>1. l + 1 \in 1..n /\ l < Len(progs)
      BY <1>2, <2>1
    <3>2. st[l+1] = progs[l+1]
      BY <1>3, <3>1
    <3> QED BY <1>3, <2>1, <3>1, <3>2 DEF Above
  <2>2. CASE l = n
    <3>1. Above(st, l) = {}
      BY <1>3, <2>2 DEF Above
    <3>2. n < Len(progs) => n + 1 \in (n+1)..Len(progs)
      BY <1>2
    <3>3. n < Len(progs) => progs[n+1] = <<>>
      BY <1>1, <3>2
    <3> QED BY <2>2, <3>1, <3>3 DEF Above
  <2>3. l < n \/ l = n
    BY <1>2
  <2> QED BY <2>1, <2>2, <2>3
<1>8. StackReady(w, st)
  <2> SUFFICES ASSUME NEW l \in DOMAIN st  PROVE ProgramReady(w, st[l], Above(st, l))
    BY DEF StackReady
  <2>1. ProgramReady(w, progs[l], Above(progs, l))
    BY <1>6 DEF StackGood, StackReady
  <2> QED BY <1>6, <1>7, <2>1
<1>9. StackShape(st)
  <2>1. \A l \in DOMAIN progs : /\ Shape(progs[l])
                                /\ l < Len(progs) /\ progs[l] # <<>> => Head(progs[l]).op # "delete_row"
    BY DEF StackGood, StackShape
  <2>2. \A l \in DOMAIN st : l < n => l < Len(progs)
    BY <1>2, <1>3
  <2> QED BY <1>3, <1>6, <2>1, <2>2 DEF StackShape
<1>10. st # <<>> => st[Len(st)] # <<>>
  <2>1. n = 0 => st = <<>>
    BY <1>3, EmptySeq
  <2>2. n # 0 => n \in 1..n
    BY <1>2
  <2> QED BY <1>1, <1>3, <2>1, <2>2
<1>11. Len(st) < Len(progs) /\ st # <<>> => Head(st[Len(st)]).op # "delete_row"
  <2>1. n = 0 => st = <<>>
    BY <1>3, EmptySeq
  <2>2. n # 0 => n \in 1..n /\ n \in DOMAIN progs
    BY <1>2
  <2>3. \A l \in DOMAIN progs : l < Len(progs) /\ progs[l] # <<>> => Head(progs[l]).op # "delete_row"
    BY DEF StackGood, StackShape
  <2> QED BY <1>1, <1>3, <2>1, <2>2, <2>3
<1>12. progs # <<>> /\ progs[Len(progs)] # <<>> => st = progs
  <2>1. n # Len(progs) => Len(progs) \in (n+1)..Len(progs)
    BY <1>2, Below, Zenon
  <2> SUFFICES ASSUME progs # <<>>, progs[Len(progs)] # <<>>  PROVE st = progs
    OBVIOUS
  <2>2. n = Len(progs)
    BY <1>1, <2>1
  <2> QED BY <1>2, <1>3, <2>2, SeqEqual
<1>13. Len(st) <= Len(progs)
  BY <1>2, <1>3
<1> QED BY <1>4, <1>5, <1>3, <1>6, <1>8, <1>9, <1>10, <1>11, <1>12, <1>13 DEF StackGood

LEMMA Pushed ==
  ASSUME NEW S, NEW seq \in Seq(S), NEW x \in S
  PROVE  /\ Append(seq, x) \in Seq(S) /\ Len(Append(seq, x)) = Len(seq) + 1
         /\ DOMAIN Append(seq, x) = 1..(Len(seq) + 1)
         /\ \A i \in 1..Len(seq) : Append(seq, x)[i] = seq[i]
         /\ Append(seq, x)[Len(seq) + 1] = x /\ Append(seq, x) # <<>>
BY AppendProperties

Running(st) == st # <<>> /\ st[Len(st)] # <<>>

\* A stack taken apart.
LEMMA OuterStack ==
  ASSUME NEW st \in Seq(Program), st # <<>>, NEW outer, outer = SubSeq(st, 1, Len(st) - 1)
  PROVE  /\ Len(st) \in Nat \ {0} /\ DOMAIN st = 1..Len(st)
         /\ outer \in Seq(Program) /\ Len(outer) = Len(st) - 1 /\ DOMAIN outer = 1..(Len(st) - 1)
         /\ \A l \in 1..(Len(st) - 1) : l \in DOMAIN st /\ outer[l] = st[l]
         /\ st[Len(st)] \in Program
<1>1. Len(st) \in Nat \ {0} /\ DOMAIN st = 1..Len(st)
  BY EmptySeq
<1>2. 1 \in 1..(Len(st) + 1) /\ Len(st) - 1 \in 0..Len(st) /\ Len(st) - 1 \in Nat
  BY <1>1
<1>3. outer \in Seq(Program) /\ Len(outer) = Len(st) - 1 /\ \A l \in 1..(Len(st) - 1) : outer[l] = st[l]
  BY <1>1, <1>2
<1>4. DOMAIN outer = 1..(Len(st) - 1)
  BY <1>3
<1>5. \A l \in 1..(Len(st) - 1) : l \in DOMAIN st
  BY <1>1
<1>6. st[Len(st)] \in Program
  BY <1>1
<1> QED BY <1>1, <1>3, <1>4, <1>5, <1>6

\* The callers of the innermost program, in the stack after a step of it.
LEMMA CallersReady ==
  ASSUME NEW w, NEW v, Grows(w, v), NEW st, StackGood(w, st), Running(st),
         NEW h, h = Head(st[Len(st)]),
         h.op = "save_file" /\ h.u \in Checklists \cup Tasks => h.u \in v.saved,
         NEW progs \in Seq(Program), Len(progs) >= Len(st) - 1,
         \A l \in 1..(Len(st) - 1) : progs[l] = st[l]
  PROVE  \A l \in 1..(Len(st) - 1) : ProgramReady(v, progs[l], Above(progs, l))
<1>1. st \in Seq(Program) /\ Len(st) \in Nat \ {0} /\ DOMAIN st = 1..Len(st) /\ Len(progs) \in Nat
  BY OuterStack DEF StackGood, Running
<1> SUFFICES ASSUME NEW l \in 1..(Len(st) - 1), NEW i \in DOMAIN progs[l]
             PROVE  Ready(v, progs[l][i], Before(progs[l], i), Above(progs, l))
  BY DEF ProgramReady
<1>2. l \in DOMAIN st /\ l < Len(st) /\ progs[l] = st[l] /\ i \in DOMAIN st[l] /\ l + 1 \in DOMAIN st
  BY <1>1
<1>3. Ready(w, st[l][i], Before(st[l], i), Above(st, l))
  BY <1>2 DEF StackGood, StackReady, ProgramReady
<1>4. st[l][i] \in Statement
  BY <1>1, <1>2 DEF Program
<1>5. CASE l + 1 < Len(st)
  <2>1. l < Len(progs) /\ l + 1 \in 1..(Len(st) - 1)
    BY <1>1, <1>5
  <2>2. progs[l+1] = st[l+1]
    BY <2>1
  <2>3. Above(progs, l) = Above(st, l)
    BY <1>2, <2>1, <2>2 DEF Above
  <2>4. \A B : B \subseteq B
    OBVIOUS
  <2>5. Ready(v, st[l][i], Before(st[l], i), Above(st, l))
    BY <1>3, <2>4, Monotone
  <2> QED BY <1>2, <2>3, <2>5
<1>6. CASE l + 1 = Len(st)
  <2>1. Above(st, l) = {h}
    BY <1>2, <1>6 DEF Above, Running
  <2>2. Ready(v, st[l][i], Before(st[l], i), {})
    BY <1>3, <1>4, <2>1, DischargeAbove
  <2>3. Grows(v, v) /\ {} \subseteq Above(progs, l) /\ Before(st[l], i) \subseteq Before(st[l], i)
    BY DEF Grows
  <2>4. Ready(v, st[l][i], Before(st[l], i), Above(progs, l))
    BY <2>2, <2>3, Monotone
  <2> QED BY <1>2, <2>4
<1>7. l + 1 < Len(st) \/ l + 1 = Len(st)
  BY <1>1, Below, Zenon
<1> QED BY <1>5, <1>6, <1>7

\* An exception.
LEMMA RaiseStack ==
  ASSUME NEW w, NEW st, StackGood(w, st), Running(st),
         Head(st[Len(st)]).op # "save_file", NEW outer, outer = SubSeq(st, 1, Len(st) - 1)
  PROVE  /\ StackGood(w, outer) /\ Len(outer) = Len(st) - 1 /\ Len(st) \in Nat \ {0}
         /\ \A l \in DOMAIN outer : l \in DOMAIN st /\ l < Len(st) /\ outer[l] = st[l]
<1>1. /\ st \in Seq(Program) /\ Len(st) \in Nat \ {0} /\ DOMAIN st = 1..Len(st)
      /\ outer \in Seq(Program) /\ Len(outer) = Len(st) - 1 /\ DOMAIN outer = 1..(Len(st) - 1)
      /\ \A l \in 1..(Len(st) - 1) : l \in DOMAIN st /\ outer[l] = st[l]
  <2>1. st \in Seq(Program) /\ st # <<>>
    BY DEF StackGood, Running
  <2> QED BY ONLY <2>1, outer = SubSeq(st, 1, Len(st) - 1), OuterStack
<1>2. Grows(w, w) /\ Len(outer) >= Len(st) - 1
  BY <1>1 DEF Grows
<1>3. \A l \in 1..(Len(st) - 1) : ProgramReady(w, outer[l], Above(outer, l))
  BY <1>1, <1>2, CallersReady
<1>4. StackReady(w, outer)
  BY <1>1, <1>3 DEF StackReady
<1>5. \A n \in Nat \ {0} : \A l \in 1..(n - 1) : l < n
  OBVIOUS
<1>6. \A l \in DOMAIN outer : l < Len(st)
  BY <1>1, <1>5, Zenon
<1>7. StackShape(outer)
  BY <1>1, <1>6 DEF StackGood, StackShape
<1> QED BY <1>1, <1>4, <1>6, <1>7 DEF StackGood

\* The innermost program is replaced; another is called.
Replaced(st, code) == Append(SubSeq(st, 1, Len(st) - 1), code)

Called(st, rest, body) == Append(Append(SubSeq(st, 1, Len(st) - 1), rest), body)

\* The innermost program goes on.
LEMMA ContinueStack ==
  ASSUME NEW w, NEW v, Grows(w, v), NEW st, StackGood(w, st), Running(st),
         NEW h, h = Head(st[Len(st)]),
         h.op = "save_file" /\ h.u \in Checklists \cup Tasks => h.u \in v.saved,
         NEW code \in Program, Shape(code), ProgramReady(v, code, {}),
         NEW progs, progs = Replaced(st, code)
  PROVE  /\ StackGood(v, progs) /\ Len(progs) = Len(st) /\ DOMAIN progs = DOMAIN st
         /\ \A l \in DOMAIN st : l # Len(st) => progs[l] = st[l]
         /\ progs[Len(st)] = code
<1> DEFINE outer == SubSeq(st, 1, Len(st) - 1)
<1>1. /\ st \in Seq(Program) /\ Len(st) \in Nat \ {0} /\ DOMAIN st = 1..Len(st)
      /\ outer \in Seq(Program) /\ Len(outer) = Len(st) - 1 /\ DOMAIN outer = 1..(Len(st) - 1)
      /\ \A l \in 1..(Len(st) - 1) : l \in DOMAIN st /\ outer[l] = st[l]
  BY OuterStack DEF StackGood, Running
<1> HIDE DEF outer
<1>2. \A n \in Nat \ {0} : /\ (n - 1) + 1 = n /\ n >= n - 1 /\ n \in 1..n
                           /\ \A l \in 1..(n - 1) : l \in 1..n /\ l < n
                           /\ \A l \in 1..n : l # n => l \in 1..(n - 1)
  OBVIOUS
<1>3. /\ progs \in Seq(Program) /\ Len(progs) = Len(outer) + 1
      /\ \A l \in 1..Len(outer) : progs[l] = outer[l]
      /\ progs[Len(outer) + 1] = code
  <2>1. progs = Append(outer, code)
    BY DEF outer, Replaced
  <2>2. code \in Program /\ outer \in Seq(Program)
    BY <1>1
  <2> QED BY ONLY <2>1, <2>2, Pushed
<1>4. Len(progs) = Len(st) /\ progs[Len(st)] = code /\ Len(progs) >= Len(st) - 1
  BY <1>1, <1>2, <1>3
<1>5. DOMAIN progs = 1..Len(st)
  BY <1>3, <1>4
<1>6. \A l \in 1..(Len(st) - 1) : progs[l] = st[l]
  BY <1>1, <1>3
<1>7. \A l \in DOMAIN st : l # Len(st) => progs[l] = st[l] /\ l \in 1..(Len(st) - 1) /\ l < Len(st)
  BY <1>1, <1>2, <1>6
<1>8. \A l \in 1..(Len(st) - 1) : ProgramReady(v, progs[l], Above(progs, l))
  BY <1>3, <1>4, <1>6, CallersReady
<1>9. Above(progs, Len(st)) = {}
  BY <1>1, <1>4 DEF Above
<1>10. StackReady(v, progs)
  BY <1>1, <1>4, <1>5, <1>7, <1>8, <1>9 DEF StackReady
<1>11. StackShape(progs)
  <2>1. \A l \in DOMAIN st : /\ Shape(st[l])
                             /\ l < Len(st) /\ st[l] # <<>> => Head(st[l]).op # "delete_row"
    BY DEF StackGood, StackShape
  <2>2. ~(Len(st) < Len(st))
    BY <1>1
  <2> QED BY <1>1, <1>4, <1>5, <1>7, <2>1, <2>2 DEF StackShape
<1> QED BY <1>1, <1>3, <1>4, <1>5, <1>7, <1>10, <1>11 DEF StackGood

\* A call.
LEMMA CallStack ==
  ASSUME NEW w, NEW st, StackGood(w, st), Running(st),
         Head(st[Len(st)]).op # "save_file",
         NEW rest \in Program, Shape(rest), rest # <<>> => Head(rest).op # "delete_row",
         NEW body, Fresh(body), ProgramReady(w, body, {}), ProgramReady(w, rest, {Head(body)}),
         NEW progs, progs = Called(st, rest, body)
  PROVE  /\ StackGood(w, progs) /\ Len(progs) = Len(st) + 1
         /\ \A l \in DOMAIN progs : \/ l \in DOMAIN st /\ l # Len(st) /\ progs[l] = st[l]
                                    \/ l = Len(st) /\ progs[l] = rest
                                    \/ l = Len(st) + 1 /\ progs[l] = body
         /\ progs # <<>> /\ progs[Len(progs)] = body /\ body # <<>>
<1> DEFINE outer == SubSeq(st, 1, Len(st) - 1)
           mid == Append(outer, rest)
<1>1. /\ st \in Seq(Program) /\ Len(st) \in Nat \ {0} /\ DOMAIN st = 1..Len(st)
      /\ outer \in Seq(Program) /\ Len(outer) = Len(st) - 1 /\ DOMAIN outer = 1..(Len(st) - 1)
      /\ \A l \in 1..(Len(st) - 1) : l \in DOMAIN st /\ outer[l] = st[l]
  BY OuterStack DEF StackGood, Running
<1> HIDE DEF outer
<1>2. \A n \in Nat \ {0} : /\ (n - 1) + 1 = n /\ n + 1 >= n - 1 /\ n \in 1..n /\ n + 1 \in 1..(n+1) /\ n < n + 1
                           /\ \A l \in 1..(n - 1) : l \in 1..n /\ l < n /\ l # n /\ l # n + 1
                           /\ \A l \in 1..(n + 1) : l \in 1..(n - 1) \/ l = n \/ l = n + 1
                           /\ ~(n + 1 < n + 1) /\ n \in 1..(n+1)
  OBVIOUS
<1>3. body \in Program /\ body # <<>> /\ Shape(body)
  BY DEF Fresh
<1>4. /\ mid \in Seq(Program) /\ Len(mid) = Len(outer) + 1
      /\ \A l \in 1..Len(outer) : mid[l] = outer[l]
      /\ mid[Len(outer) + 1] = rest
  <2>1. rest \in Program /\ outer \in Seq(Program)
    BY <1>1
  <2> QED BY ONLY <2>1, Pushed
<1>5. Len(mid) = Len(st) /\ mid[Len(st)] = rest /\ \A l \in 1..(Len(st) - 1) : mid[l] = st[l]
  BY <1>1, <1>2, <1>4
<1> HIDE DEF mid
<1>6. /\ progs \in Seq(Program) /\ Len(progs) = Len(mid) + 1
      /\ \A l \in 1..Len(mid) : progs[l] = mid[l]
      /\ progs[Len(mid) + 1] = body
  <2>1. progs = Append(mid, body)
    BY DEF mid, outer, Called
  <2> QED BY ONLY <1>3, <1>4, <2>1, Pushed
<1>7. /\ Len(progs) = Len(st) + 1 /\ DOMAIN progs = 1..(Len(st) + 1) /\ progs[Len(st) + 1] = body
      /\ progs[Len(st)] = rest /\ \A l \in 1..(Len(st) - 1) : progs[l] = st[l]
  BY ONLY <1>1, <1>2, <1>5, <1>6
<1>8. \A l \in DOMAIN progs : \/ l \in 1..(Len(st) - 1) \/ l = Len(st) \/ l = Len(st) + 1
  BY <1>1, <1>2, <1>7
<1>9. \A l \in 1..(Len(st) - 1) : ProgramReady(w, progs[l], Above(progs, l))
  <2>1. Grows(w, w) /\ Len(progs) >= Len(st) - 1
    BY <1>1, <1>2, <1>7 DEF Grows
  <2> QED BY <1>6, <1>7, <2>1, CallersReady
<1>10. Above(progs, Len(st)) = {Head(body)}
  BY ONLY <1>1, <1>2, <1>3, <1>7 DEF Above
<1>11. Above(progs, Len(st) + 1) = {}
  BY <1>1, <1>2, <1>7 DEF Above
<1>12. StackReady(w, progs)
  BY <1>7, <1>8, <1>9, <1>10, <1>11 DEF StackReady
<1>13. StackShape(progs)
  <2>1. \A l \in DOMAIN st : /\ Shape(st[l])
                             /\ l < Len(st) /\ st[l] # <<>> => Head(st[l]).op # "delete_row"
    BY DEF StackGood, StackShape
  <2>2. \A l \in 1..(Len(st) - 1) : l \in DOMAIN st /\ l < Len(st) /\ progs[l] = st[l]
    BY <1>1, <1>2, <1>7
  <2>3. ~(Len(st) + 1 < Len(st) + 1)
    BY <1>1
  <2>4. \A l \in DOMAIN progs : Shape(progs[l])
    BY <1>3, <1>7, <1>8, <2>1, <2>2
  <2>5. \A l \in DOMAIN progs : l < Len(progs) /\ progs[l] # <<>> => Head(progs[l]).op # "delete_row"
    BY <1>7, <1>8, <2>1, <2>2, <2>3
  <2> QED BY <2>4, <2>5 DEF StackShape
<1>14. \A l \in 1..(Len(st) - 1) : l \in DOMAIN st /\ l # Len(st)
  BY <1>1, <1>2
<1>15. progs # <<>>
  <2>1. Len(progs) # 0
    BY ONLY <1>1, <1>7
  <2> QED BY <1>6, <2>1, EmptySeq
<1> QED BY <1>3, <1>6, <1>7, <1>8, <1>12, <1>13, <1>14, <1>15 DEF StackGood

\* A program is started on an empty stack.
LEMMA StartStack ==
  ASSUME NEW w, NEW f, Fresh(f), ProgramReady(w, f, {}), NEW progs, progs = <<f>>
  PROVE  /\ StackGood(w, progs) /\ Len(progs) = 1 /\ DOMAIN progs = {1} /\ progs[1] = f /\ f # <<>>
<1>1. f \in Program /\ f # <<>> /\ Shape(f)
  BY DEF Fresh
<1>2. progs \in Seq(Program) /\ Len(progs) = 1 /\ DOMAIN progs = {1} /\ progs[1] = f
  BY <1>1
<1>3. Above(progs, 1) = {} /\ ~(1 < Len(progs))
  BY <1>2 DEF Above
<1>4. StackReady(w, progs) /\ StackShape(progs)
  BY <1>1, <1>2, <1>3 DEF StackReady, StackShape
<1> QED BY <1>1, <1>2, <1>4 DEF StackGood

-----------------------------------------------------------------------------
(* What is left of the innermost program. *)

LEMMA OwesTail ==
  ASSUME NEW f \in Program, f # <<>>, NEW m, Owes(Tail(f), m)
  PROVE  Owes(f, m) \/ (Head(f).op = "create_mission" /\ Head(f).m = m)
<1>1. /\ Len(f) \in Nat \ {0} /\ DOMAIN f = 1..Len(f) /\ DOMAIN Tail(f) = 1..(Len(f) - 1)
      /\ \A i \in DOMAIN Tail(f) : Tail(f)[i] = f[i+1]
      /\ Head(f) = f[1] /\ Tail(f)[Len(Tail(f))] = f[Len(f)]
  BY TailProgram DEF Owes
<1>2. \A i \in DOMAIN f : i = 1 \/ (i - 1 \in DOMAIN Tail(f) /\ (i - 1) + 1 = i)
  BY <1>1
<1>3. \A i \in DOMAIN f : i = 1 \/ ~(f[i].op = "create_mission" /\ f[i].m = m)
  BY <1>1, <1>2 DEF Owes
<1> QED BY <1>1, <1>3 DEF Owes

\* The statement has been executed.
LEMMA AdvanceCode ==
  ASSUME NEW w, NEW v, Grows(w, v), NEW f \in Program, f # <<>>, Shape(f), ProgramReady(w, f, {}),
         Given(v, Head(f)), Head(f).op \notin {"call", "for_tasks"}
  PROVE  /\ Tail(f) \in Program /\ Shape(Tail(f)) /\ ProgramReady(v, Tail(f), {})
<1>1. \A s \in Statement : \A C : Ready(w, s, C \cup {Head(f)}, {}) => Ready(v, s, C \cup {}, {})
  <2>1. \A C : C \cup {} = C
    OBVIOUS
  <2>2. \A s, C : Ready(w, s, C \cup {Head(f)}, {}) => Ready(v, s, C, {})
    BY Discharge
  <2> QED BY <2>1, <2>2
<1>2. \A i \in DOMAIN Tail(f) : Ready(v, Tail(f)[i], Before(Tail(f), i) \cup {}, {})
  BY <1>1, TailReady
<1>3. \A i : Before(Tail(f), i) \cup {} = Before(Tail(f), i)
  OBVIOUS
<1> QED BY <1>2, <1>3, TailProgram, TailShape DEF ProgramReady

\* Code that can be put in front of what is left.
Code(w, f) == f = <<>> \/ (Fresh(f) /\ ProgramReady(w, f, {}) /\ Closed(f[Len(f)]))

LEMMA JoinCode ==
  ASSUME NEW w, NEW f, NEW g, Code(w, f), Code(w, g)
  PROVE  Code(w, f \o g)
<1>1. CASE f = <<>>
  <2>1. g \in Seq(Statement)
    <3>1. <<>> \in Seq(Statement)
      OBVIOUS
    <3>2. g = <<>> \/ g \in Seq(Statement)
      BY Zenon DEF Code, Fresh, Program
    <3> QED BY <3>1, <3>2, Zenon
  <2>2. <<>> \o g = g
    BY <2>1, ConcatEmptySeq
  <2> QED BY <1>1, <2>2
<1>2. CASE g = <<>>
  <2>1. f \in Seq(Statement)
    <3>1. <<>> \in Seq(Statement)
      OBVIOUS
    <3>2. f = <<>> \/ f \in Seq(Statement)
      BY Zenon DEF Code, Fresh, Program
    <3> QED BY <3>1, <3>2, Zenon
  <2>2. f \o <<>> = f
    BY <2>1, ConcatEmptySeq
  <2> QED BY <1>2, <2>2
<1>3. CASE f # <<>> /\ g # <<>>
  <2>1. /\ Fresh(f) /\ ProgramReady(w, f, {}) /\ Closed(f[Len(f)])
        /\ Fresh(g) /\ ProgramReady(w, g, {}) /\ Closed(g[Len(g)])
    BY <1>3 DEF Code
  <2>2. f \in Program /\ g \in Program /\ Shape(f) /\ Shape(g) /\ Head(f).op # "delete_row"
        /\ Head(g).op # "delete_row"
    BY <2>1 DEF Fresh
  <2>3. /\ f \o g \in Program /\ f \o g # <<>>
        /\ Head(f \o g) = Head(f) /\ (f \o g)[Len(f \o g)] = g[Len(g)]
    BY <1>3, <2>2, Concat
  <2>4. Shape(f \o g)
    BY <1>3, <2>1, <2>2, JoinShape DEF Closed
  <2>5. ProgramReady(w, f \o g, {})
    <3>1. \A i \in DOMAIN g : Ready(w, g[i], Before(g, i) \cup Range(f), {})
      <4>1. Grows(w, w) /\ {} \subseteq {}
        BY DEF Grows
      <4>2. \A i : Before(g, i) \subseteq Before(g, i) \cup Range(f)
        OBVIOUS
      <4>3. \A i \in DOMAIN g : Ready(w, g[i], Before(g, i), {})
        BY <2>1 DEF ProgramReady
      <4> QED BY <4>1, <4>2, <4>3, Monotone
    <3> QED BY <1>3, <2>1, <2>2, <3>1, JoinReady
  <2>6. \A m \in Missions : ~Owes(f \o g, m)
    BY <2>1, <2>3 DEF Owes, Closed
  <2> QED BY <2>1, <2>2, <2>3, <2>4, <2>5, <2>6 DEF Code, Fresh
<1> QED BY <1>1, <1>2, <1>3

\* A loop has been replaced by its first round and the other rounds.
LEMMA LoopCode ==
  ASSUME NEW w, NEW f \in Program, f # <<>>, Shape(f), ProgramReady(w, f, {}),
         Head(f).op \notin {"delete_file", "create_mission"}, NEW new, Code(w, new),
         \A s \in Statement : \A C : Ready(w, s, C \cup {Head(f)}, {}) => Ready(w, s, C \cup Range(new), {})
  PROVE  /\ new \o Tail(f) \in Program /\ Shape(new \o Tail(f)) /\ ProgramReady(w, new \o Tail(f), {})
         /\ \A m \in Missions : Owes(new \o Tail(f), m) => Owes(f, m)
         /\ new \o Tail(f) # <<>> => Head(new \o Tail(f)).op # "delete_row"
<1> DEFINE g == Tail(f)
<1>1. g \in Program /\ Shape(g)
  BY TailProgram, TailShape
<1>2. \A i \in DOMAIN g : Ready(w, g[i], Before(g, i) \cup Range(new), {})
  BY TailReady
<1>3. g # <<>> => Head(g).op # "delete_row"
  BY TailShape DEF Follows
<1>4. \A m : Owes(g, m) => Owes(f, m)
  BY OwesTail
<1> HIDE DEF g
<1>5. CASE new = <<>>
  <2>1. <<>> \o g = g
    BY <1>1, ConcatEmptySeq DEF Program
  <2>2. Range(new) = {}
    BY <1>5 DEF Range
  <2>3. \A i : Before(g, i) \cup {} = Before(g, i)
    OBVIOUS
  <2>4. ProgramReady(w, g, {})
    BY <1>2, <2>2, <2>3 DEF ProgramReady
  <2> QED BY <1>1, <1>3, <1>4, <1>5, <2>1, <2>4 DEF g
<1>6. CASE new # <<>>
  <2>1. Fresh(new) /\ ProgramReady(w, new, {}) /\ Closed(new[Len(new)])
    BY <1>6 DEF Code
  <2>2. new \in Program /\ Shape(new) /\ Head(new).op # "delete_row"
    BY <2>1 DEF Fresh
  <2>3. CASE g = <<>>
    <3>1. new \o <<>> = new
      BY <2>2, ConcatEmptySeq DEF Program
    <3> QED BY <2>1, <2>2, <2>3, <3>1 DEF g, Fresh
  <2>4. CASE g # <<>>
    <3>1. /\ new \o g \in Program /\ new \o g # <<>> /\ Head(new \o g) = Head(new)
          /\ (new \o g)[Len(new \o g)] = g[Len(g)]
          /\ Len(new \o g) = Len(new) + Len(g)
      BY <1>1, <1>6, <2>2, <2>4, Concat
    <3>2. Shape(new \o g)
      BY <1>1, <1>3, <1>6, <2>1, <2>2, <2>4, JoinShape DEF Closed
    <3>3. ProgramReady(w, new \o g, {})
      BY <1>1, <1>2, <1>6, <2>1, <2>2, <2>4, JoinReady
    <3>4. ASSUME NEW m \in Missions, Owes(new \o g, m)  PROVE Owes(g, m)
      <4>1. ASSUME NEW i \in DOMAIN g  PROVE ~(g[i].op = "create_mission" /\ g[i].m = m)
        <5>1. /\ Len(new) \in Nat /\ Len(g) \in Nat /\ DOMAIN g = 1..Len(g)
              /\ new \in Seq(Statement) /\ g \in Seq(Statement)
          BY <1>1, <2>2 DEF Program
        <5>2. /\ DOMAIN (new \o g) = 1..(Len(new) + Len(g))
              /\ \A l \in 1..(Len(new) + Len(g)) : (new \o g)[l] = IF l <= Len(new) THEN new[l] ELSE g[l - Len(new)]
          BY <5>1, ConcatProperties
        <5>3. i + Len(new) \in 1..(Len(new) + Len(g)) /\ ~(i + Len(new) <= Len(new))
              /\ (i + Len(new)) - Len(new) = i
          BY <5>1
        <5>4. (new \o g)[i + Len(new)] = g[i]
          BY <5>2, <5>3
        <5> QED BY <3>4, <5>2, <5>3, <5>4 DEF Owes
      <4> QED BY <2>4, <3>1, <3>4, <4>1 DEF Owes
    <3> QED BY <1>4, <2>2, <3>1, <3>2, <3>3, <3>4 DEF g
  <2> QED BY <2>3, <2>4
<1> QED BY <1>5, <1>6

-----------------------------------------------------------------------------
(* The rounds of the loops. *)

LEMMA FreeCode ==
  ASSUME NEW w, NEW a \in Statement, Free(a)
  PROVE  Code(w, <<a>>)
<1>1. Ends(a) /\ a.op # "delete_row" /\ ~IsCreation(a) /\ Ready(w, a, {}, {})
  BY FreeStatement
<1>2. \A f : f = <<a>> => Fresh(f) /\ ProgramReady(w, f, {}) /\ f[Len(f)] = a
  BY <1>1, OneStatement
<1>3. Closed(a)
  BY ClosedStatement
<1> QED BY <1>2, <1>3 DEF Code

LEMMA HeadAndTail ==
  ASSUME NEW S, NEW s \in NonEmpty(S)
  PROVE  /\ Head(s) \in S /\ Tail(s) \in Seq(S) /\ Len(s) \in Nat \ {0} /\ Len(Tail(s)) = Len(s) - 1
         /\ \A x \in Range(s) : x = Head(s) \/ (x \in Range(Tail(s)) /\ Tail(s) # <<>>)
<1>1. s \in Seq(S) /\ s # <<>> /\ Len(s) \in Nat \ {0} /\ DOMAIN s = 1..Len(s) /\ Head(s) = s[1]
  BY EmptySeq DEF NonEmpty
<1>2. /\ Head(s) \in S /\ Tail(s) \in Seq(S) /\ Len(Tail(s)) = Len(s) - 1
      /\ \A i \in 1..(Len(s) - 1) : Tail(s)[i] = s[i+1]
  BY <1>1
<1>3. ASSUME NEW x \in Range(s)  PROVE x = Head(s) \/ (x \in Range(Tail(s)) /\ Tail(s) # <<>>)
  <2>1. PICK i \in 1..Len(s) : x = s[i]
    BY <1>1 DEF Range
  <2>2. CASE i = 1
    BY <1>1, <2>1, <2>2
  <2>3. CASE i # 1
    <3>1. i - 1 \in 1..(Len(s) - 1) /\ (i - 1) + 1 = i
      BY <1>1, <2>3
    <3>2. Tail(s)[i-1] = x
      BY <1>2, <2>1, <3>1
    <3>3. DOMAIN Tail(s) = 1..(Len(s) - 1)
      BY <1>2
    <3>4. x \in Range(Tail(s))
      BY <3>1, <3>2, <3>3 DEF Range
    <3>5. Len(Tail(s)) # 0
      BY <1>1, <1>2, <3>1
    <3> QED BY <1>2, <3>4, <3>5, EmptySeq
  <2> QED BY <2>2, <2>3
<1> QED BY <1>1, <1>2, <1>3

LEMMA AddContentCode ==
  ASSUME NEW w, NEW m \in Missions, NEW md \in Meta, NEW data
  PROVE  Code(w, AddContent(m, md, data))
<1> DEFINE x == IF md.zip /\ data \in DOMAIN InnerOf THEN InnerOf[data] ELSE md.hash
           a == [op |-> "create_content", m |-> m, x |-> x]
           b == [op |-> "update_mission", m |-> m, x |-> x]
           c == Record(m, "content", x)
<1>1. x \in Objects /\ x \in Contents
  <2>1. md.hash \in Objects
    BY DEF Meta
  <2>2. data \in DOMAIN InnerOf => InnerOf[data] \in Objects
    BY TakApiAssumption DEF Objects
  <2>3. x \in Objects
    BY <2>1, <2>2
  <2> QED BY <2>3, Contained
<1> HIDE DEF x
<1>2. a \in Statement /\ b \in Statement
  BY <1>1, MakeMission
<1>3. c \in Statement
  BY <1>1, MakeMission DEF Record, Kinds, Subjects
<1>4. /\ a.op # "delete_row" /\ Ready(w, a, {}, {}) /\ (\A B : Ready(w, b, B, {}))
      /\ Follows(a, b) /\ Follows(b, c) /\ Ends(c) /\ ~IsCreation(c)
  BY DEF Ready, Follows, Ends, IsCreation, Record
<1>5. \A B : a \in B => Ready(w, c, B, {})
  BY DEF Ready, HeldReady, Record
<1>6. Closed(c)
  BY ClosedStatement DEF Record, IsCreation
<1>7. c.op # "delete_row" /\ ~IsCreation(a) /\ a.op = "create_content"
  BY DEF Record, IsCreation
<1>8. CASE ~md.zip
  <2>1. AddContent(m, md, data) = <<a, b, c>>
    BY <1>8 DEF AddContent, x
  <2> HIDE DEF a, b, c
  <2>2. Ready(w, b, {a}, {}) /\ Ready(w, c, {a, b}, {})
    BY <1>4, <1>5
  <2>3. \A f : f = <<a, b, c>> => Fresh(f) /\ ProgramReady(w, f, {}) /\ f[Len(f)] = c
    BY <1>2, <1>3, <1>4, <2>2, ThreeStatements
  <2> QED BY <1>6, <2>1, <2>3 DEF Code
<1>9. CASE md.zip /\ data \in DOMAIN InnerOf
  <2> DEFINE y == SaveEnterpriseSyncData(x, x, x, FALSE, 1)
             p == Post(y)
  <2>1. y \in Request
    <3>1. x \in Uids /\ x \in Data /\ x \in ContentOf(x)
      BY <1>1, Contained
    <3>2. FALSE \in BOOLEAN /\ 1 \in 0..1
      OBVIOUS
    <3> QED BY <3>1, <3>2, MakeRequest, Zenon
  <2>2. p \in Statement /\ Throw \in Statement
    BY <2>1, MakeControl
  <2>3. p.op = "post" /\ Ready(w, p, {}, {})
    <3>1. x \notin Checklists
      BY <1>1, TakApiAssumption DEF Objects
    <3> QED BY <3>1 DEF Post, Ready, RequestReady, SaveEnterpriseSyncData
  <2>4. Free(Throw) /\ Throw.op # "delete_row"
    BY DEF Free, Throw
  <2>5. AddContent(m, md, data) = <<p>> \o <<a, b, c>> \o <<Throw>>
    BY <1>9 DEF AddContent, x
  <2>6. Follows(p, a)
    BY <2>3 DEF Follows, IsCreation
  <2> HIDE DEF a, b, c, p
  <2>7. AddContent(m, md, data) = <<p, a, b, c, Throw>>
    <3>1. <<p>> \o <<a, b, c>> = <<p, a, b, c>>
      BY <1>2, <1>3, <2>2, Joined
    <3>2. <<p, a, b, c>> \o <<Throw>> = <<p, a, b, c, Throw>>
      BY <1>2, <1>3, <2>2, Joined
    <3> QED BY <2>5, <3>1, <3>2
  <2>8. /\ Ready(w, a, {p}, {}) /\ Ready(w, b, {p, a}, {}) /\ Ready(w, c, {p, a, b}, {})
        /\ Ready(w, Throw, {p, a, b, c}, {}) /\ Follows(c, Throw) /\ Ends(Throw) /\ ~IsCreation(Throw)
        /\ p.op # "delete_row"
    <3>1. Ready(w, Throw, {p, a, b, c}, {}) /\ Ends(Throw) /\ ~IsCreation(Throw)
      BY <2>4, FreeStatement
    <3>2. Ready(w, a, {p}, {})
      BY <1>7 DEF Ready
    <3> QED BY <1>4, <1>5, <1>6, <2>3, <2>4, <3>1, <3>2 DEF Closed
  <2>9. \A f : f = <<p, a, b, c, Throw>> => Fresh(f) /\ ProgramReady(w, f, {}) /\ f[Len(f)] = Throw
    BY <1>2, <1>3, <1>4, <2>2, <2>3, <2>6, <2>8, FiveStatements
  <2>10. Closed(Throw)
    BY <2>4, ClosedStatement
  <2> QED BY <2>7, <2>9, <2>10 DEF Code
<1>10. CASE md.zip /\ data \notin DOMAIN InnerOf
  <2>1. AddContent(m, md, data) = <<Throw>>
    BY <1>10 DEF AddContent
  <2>2. Free(Throw) /\ Throw \in Statement
    BY MakeControl DEF Free, Throw
  <2> QED BY <2>1, <2>2, FreeCode
<1> QED BY <1>8, <1>9, <1>10

LEMMA LoopTails ==
  ASSUME NEW w
  PROVE  /\ \A m \in Missions, mds \in Seq(Meta), data \in Seq(Data) : Code(w, ForContents(m, mds, data))
         /\ \A k \in Checklists, ts \in Seq(Tasks) : Code(w, ForTasks(k, ts))
         /\ \A ms \in Seq(Missions), c \in Cots : CotReady(w, c, {}) => Code(w, ForMissions(ms, c))
<1>1. ASSUME NEW m \in Missions, NEW mds \in Seq(Meta), NEW data \in Seq(Data)
      PROVE  Code(w, ForContents(m, mds, data))
  <2> DEFINE a == [op |-> "for_contents", m |-> m, mds |-> mds, data |-> data]
  <2>1. CASE mds = <<>> \/ data = <<>>
    BY <2>1 DEF ForContents, Code
  <2>2. CASE ~(mds = <<>> \/ data = <<>>)
    <3>1. a \in Statement
      BY <2>2, MakeControl DEF NonEmpty
    <3>2. Free(a)
      BY DEF Free
    <3>3. ForContents(m, mds, data) = <<a>>
      BY <2>2 DEF ForContents
    <3> QED BY <3>1, <3>2, <3>3, FreeCode
  <2> QED BY <2>1, <2>2
<1>2. ASSUME NEW k \in Checklists, NEW ts \in Seq(Tasks)
      PROVE  Code(w, ForTasks(k, ts))
  <2> DEFINE a == [op |-> "for_tasks", k |-> k, ts |-> ts]
  <2>1. CASE ts = <<>>
    BY <2>1 DEF ForTasks, Code
  <2>2. CASE ts # <<>>
    <3>1. a \in Statement
      BY <2>2, MakeControl DEF NonEmpty
    <3>2. Free(a)
      BY DEF Free
    <3>3. ForTasks(k, ts) = <<a>>
      BY <2>2 DEF ForTasks
    <3> QED BY <3>1, <3>2, <3>3, FreeCode
  <2> QED BY <2>1, <2>2
<1>3. ASSUME NEW ms \in Seq(Missions), NEW c \in Cots, CotReady(w, c, {})
      PROVE  Code(w, ForMissions(ms, c))
  <2> DEFINE a == [op |-> "for_missions", ms |-> ms, c |-> c]
  <2>1. CASE ms = <<>>
    BY <2>1 DEF ForMissions, Code
  <2>2. CASE ms # <<>>
    <3>1. a \in Statement
      BY <2>2, MakeControl DEF NonEmpty
    <3>2. Ready(w, a, {}, {}) /\ Ends(a) /\ a.op # "delete_row" /\ ~IsCreation(a) /\ Closed(a)
      BY <1>3 DEF Ready, Ends, IsCreation, Closed, Follows
    <3>3. ForMissions(ms, c) = <<a>>
      BY <2>2 DEF ForMissions
    <3> HIDE DEF a
    <3>4. \A f : f = <<a>> => Fresh(f) /\ ProgramReady(w, f, {}) /\ f[Len(f)] = a
      BY <3>1, <3>2, OneStatement
    <3> QED BY <3>2, <3>3, <3>4 DEF Code
  <2> QED BY <2>1, <2>2
<1> QED BY <1>1, <1>2, <1>3

LEMMA MissionCotCode ==
  ASSUME NEW w, NEW m \in Missions, NEW c \in Cots, CotReady(w, c, {})
  PROVE  Code(w, MissionCot(m, c))
<1> DEFINE a == [op |-> "create_cot", m |-> m, c |-> c]
           b == Record(m, "cot", c)
<1>1. a \in Statement
  BY MakeMission
<1>2. b \in Statement
  BY MakeMission DEF Record, Kinds, Subjects
<1>3. Follows(a, b) /\ Ends(b) /\ ~IsCreation(b) /\ a.op # "delete_row" /\ Closed(b)
  BY DEF Follows, Ends, IsCreation, Record, Closed
<1>4. Ready(w, a, {}, {}) /\ Ready(w, b, {a}, {})
  BY DEF Ready, HeldReady, Record
<1>5. MissionCot(m, c) = <<a, b>>
  BY DEF MissionCot
<1> HIDE DEF a, b
<1>6. \A f : f = <<a, b>> => Fresh(f) /\ ProgramReady(w, f, {}) /\ f[Len(f)] = b
  BY <1>1, <1>2, <1>3, <1>4, TwoStatements
<1> QED BY <1>3, <1>5, <1>6 DEF Code

LEMMA SaveTaskCode ==
  ASSUME NEW w, NEW k \in Checklists, NEW t \in Tasks
  PROVE  /\ Code(w, SaveTask(k, t)) /\ SaveTask(k, t) \in Program /\ SaveTask(k, t) # <<>>
         /\ [op |-> "create_task", k |-> k, t |-> t] \in Range(SaveTask(k, t))
<1> DEFINE x == SaveEnterpriseSyncData(t, TaskDoc(t, 0), TaskDoc(t, 0), FALSE, 0)
           a == Call(x)
           b == [op |-> "create_task", k |-> k, t |-> t]
<1>1. x \in Request
  <2>1. 0 \in 0..MaxVersion /\ FALSE \in BOOLEAN /\ 0 \in 0..1
    BY TakApiAssumption
  <2>2. TaskDoc(t, 0) \in Doc
    BY <2>1, Contained, Zenon
  <2>3. t \in Uids /\ TaskDoc(t, 0) \in Data /\ TaskDoc(t, 0) \in ContentOf(t)
    BY <2>2, Contained
  <2> QED BY <2>1, <2>3, MakeRequest, Zenon
<1>2. a \in Statement /\ b \in Statement
  BY <1>1, MakeControl, MakeExCheck
<1>3. Follows(a, b) /\ Ends(b) /\ ~IsCreation(b) /\ a.op # "delete_row" /\ Closed(b)
  BY DEF Follows, Ends, IsCreation, Call, Closed
<1>4. Ready(w, a, {}, {})
  <2>1. t \notin Checklists
    BY TakApiAssumption
  <2> QED BY <2>1 DEF Ready, RequestReady, Call, SaveEnterpriseSyncData
<1>5. Ready(w, b, {a}, {})
  BY DEF Ready, SavedReady, Call, SaveEnterpriseSyncData
<1>6. SaveTask(k, t) = <<a, b>>
  BY DEF SaveTask
<1> HIDE DEF a, b
<1>7. \A f : f = <<a, b>> => Fresh(f) /\ ProgramReady(w, f, {}) /\ f[Len(f)] = b
  BY <1>2, <1>3, <1>4, <1>5, TwoStatements
<1>8. b \in Range(<<a, b>>)
  BY DEF Range
<1> QED BY <1>3, <1>6, <1>7, <1>8 DEF Code, Fresh, b

\* Statements that no other relies on.
LEMMA Kept ==
  ASSUME NEW w, NEW h, h.op \notin {"call", "for_tasks", "create_task", "save_file", "store_cot",
                                    "create_content", "create_cot", "add_external_data"},
         NEW B, NEW s, NEW C, Ready(w, s, C \cup {h}, {})
  PROVE  Ready(w, s, C \cup B, {})
<1>1. Grows(w, w) /\ Given(w, h)
  BY DEF Grows, Given
<1>2. Ready(w, s, C, {})
  BY <1>1, Discharge
<1>3. C \subseteq C \cup B /\ {} \subseteq {}
  OBVIOUS
<1> QED BY <1>1, <1>2, <1>3, Monotone

\* The row found by a hash.
LEMMA MetadataRow ==
  ASSUME TypeInv, NEW h, NEW md \in MetadataOf(h)
  PROVE  \E i \in ByHash(h) : i \in DOMAIN rows /\ md = rows[i] /\ md \in Row /\ md.hash = h
<1>1. rows \in Seq(Row)
  BY DEF TypeInv, TypeOK, EsTypeOK
<1>2. \A i \in DOMAIN rows : rows[i] \in Row /\ rows[i].uid \in Uids
  <2>1. \A i \in DOMAIN rows : rows[i] \in Row
    BY <1>1
  <2>2. \A r \in Row : r.uid \in Uids
    BY DEF Row
  <2> QED BY <2>1, <2>2
<1>3. ByUid(NoData) = {}
  <2>1. \A i \in DOMAIN rows : rows[i].uid # NoData
    BY <1>2, NoDataAssumption
  <2>2. {i \in DOMAIN rows : rows[i].uid = NoData} = {}
    BY ONLY <2>1, Zenon
  <2> QED BY ONLY <2>2 DEF ByUid, FirstOf
<1>4. PICK i \in ByHash(h) : md = rows[i]
  BY <1>3 DEF MetadataOf, get_enterprise_sync_data_object
<1>5. i \in DOMAIN rows /\ rows[i].hash = h
  BY DEF ByHash, FirstOf
<1> QED BY <1>2, <1>4, <1>5

LEMMA DataFound ==
  ASSUME TypeInv, NEW h, NEW d \in DataOf(h)
  PROVE  d \in Data
<1>1. files \in [Uids -> Data \cup {NoData}]
  BY DEF TypeInv, TypeOK, EsTypeOK
<1>2. PICK r \in MetadataOf(h) : d = files[r.uid] /\ d # NoData
  BY DEF DataOf, MetadataOf
<1>3. r.uid \in Uids
  BY MetadataRow DEF Row
<1> QED BY <1>1, <1>2, <1>3

\* A checklist that can be read has a file.
LEMMA ReadableFile ==
  ASSUME TypeInv, NEW u, Readable(u)
  PROVE  files[u] # NoData
<1>1. rows \in Seq(Row)
  BY DEF TypeInv, TypeOK, EsTypeOK
<1>2. \A i \in DOMAIN rows : rows[i].hash \in Data
  <2>1. \A i \in DOMAIN rows : rows[i] \in Row
    BY <1>1
  <2>2. \A r \in Row : r.hash \in Data
    BY DEF Row
  <2> QED BY <2>1, <2>2
<1>3. ByHash(NoData) = {}
  <2>1. \A i \in DOMAIN rows : rows[i].hash # NoData
    BY <1>2, NoDataAssumption
  <2>2. {i \in DOMAIN rows : rows[i].hash = NoData} = {}
    BY ONLY <2>1, Zenon
  <2> QED BY ONLY <2>2 DEF ByHash, FirstOf
<1>4. PICK r \in get_enterprise_sync_data_object(u, NoData) : files[r.uid] # NoData
  BY DEF Readable
<1>5. r.uid = u
  BY <1>3 DEF get_enterprise_sync_data_object, ByUid, FirstOf
<1> QED BY <1>4, <1>5

-----------------------------------------------------------------------------
(* What a loop, or the replacement of a task in a document, is replaced by.  *)

MetadataNext(h, mds) ==
  IF Len(h.todo) = 1
  THEN << [op |-> "get_data", m |-> h.m, todo |-> h.hs, mds |-> mds, data |-> <<>>] >>
  ELSE << [op |-> "get_metadata", m |-> h.m, hs |-> h.hs, todo |-> Tail(h.todo), mds |-> mds] >>

DataNext(h, data) ==
  IF Len(h.todo) = 1
  THEN ForContents(h.m, h.mds, data)
  ELSE << [op |-> "get_data", m |-> h.m, todo |-> Tail(h.todo), mds |-> h.mds, data |-> data] >>

Expansion(h, new) ==
  \/ /\ h.op = "for_contents"
     /\ new = AddContent(h.m, Head(h.mds), Head(h.data)) \o ForContents(h.m, Tail(h.mds), Tail(h.data))
  \/ h.op = "for_missions" /\ new = MissionCot(Head(h.ms), h.c) \o ForMissions(Tail(h.ms), h.c)
  \/ h.op = "for_tasks" /\ new = SaveTask(h.k, Head(h.ts)) \o ForTasks(h.k, Tail(h.ts))
  \/ h.op = "get_metadata" /\ \E md \in MetadataOf(Head(h.todo)) : new = MetadataNext(h, Append(h.mds, md))
  \/ h.op = "get_metadata" /\ new = MetadataNext(h, h.mds)
  \/ h.op = "get_data" /\ \E d \in DataOf(Head(h.todo)) : new = DataNext(h, Append(h.data, d))
  \/ h.op = "get_data" /\ new = DataNext(h, h.data)
  \/ /\ h.op = "replace_task" /\ Readable(h.k) /\ h.t \in DOMAIN files[h.k]
     /\ new = <<Call(UpdateEnterpriseSyncData(h.k, TaskDoc(h.t, h.v), [files[h.k] EXCEPT ![h.t] = h.v]))>>

LEMMA MetadataNextCode ==
  ASSUME NEW w, NEW h \in Statement, h.op = "get_metadata", NEW mds \in Seq(Meta)
  PROVE  Code(w, MetadataNext(h, mds))
<1>1. h.m \in Missions /\ h.hs \in NonEmpty(Objects) /\ h.todo \in NonEmpty(Objects)
  BY ControlFields
<1>2. CASE Len(h.todo) = 1
  <2> DEFINE a == [op |-> "get_data", m |-> h.m, todo |-> h.hs, mds |-> mds, data |-> <<>>]
  <2>1. <<>> \in Seq(Data)
    OBVIOUS
  <2>2. a \in Statement
    BY <1>1, <2>1, MakeControl
  <2>3. Free(a)
    BY DEF Free
  <2> QED BY <1>2, <2>2, <2>3, FreeCode DEF MetadataNext
<1>3. CASE Len(h.todo) # 1
  <2> DEFINE a == [op |-> "get_metadata", m |-> h.m, hs |-> h.hs, todo |-> Tail(h.todo), mds |-> mds]
  <2>1. Tail(h.todo) \in NonEmpty(Objects)
    <3>1. Tail(h.todo) \in Seq(Objects) /\ Len(h.todo) \in Nat \ {0} /\ Len(Tail(h.todo)) = Len(h.todo) - 1
      BY <1>1, HeadAndTail
    <3>2. Len(Tail(h.todo)) # 0
      BY <1>3, <3>1
    <3> QED BY <3>1, <3>2, EmptySeq DEF NonEmpty
  <2>2. a \in Statement
    BY <1>1, <2>1, MakeControl
  <2>3. Free(a)
    BY DEF Free
  <2> QED BY <1>3, <2>2, <2>3, FreeCode DEF MetadataNext
<1> QED BY <1>2, <1>3

LEMMA DataNextCode ==
  ASSUME NEW w, NEW h \in Statement, h.op = "get_data", NEW data \in Seq(Data)
  PROVE  Code(w, DataNext(h, data))
<1>1. h.m \in Missions /\ h.mds \in Seq(Meta) /\ h.todo \in NonEmpty(Objects)
  BY ControlFields
<1>2. CASE Len(h.todo) = 1
  BY <1>1, <1>2, LoopTails DEF DataNext
<1>3. CASE Len(h.todo) # 1
  <2> DEFINE a == [op |-> "get_data", m |-> h.m, todo |-> Tail(h.todo), mds |-> h.mds, data |-> data]
  <2>1. Tail(h.todo) \in NonEmpty(Objects)
    <3>1. Tail(h.todo) \in Seq(Objects) /\ Len(h.todo) \in Nat \ {0} /\ Len(Tail(h.todo)) = Len(h.todo) - 1
      BY <1>1, HeadAndTail
    <3>2. Len(Tail(h.todo)) # 0
      BY <1>3, <3>1
    <3> QED BY <3>1, <3>2, EmptySeq DEF NonEmpty
  <2>2. a \in Statement
    BY <1>1, <2>1, MakeControl
  <2>3. Free(a)
    BY DEF Free
  <2> QED BY <1>3, <2>2, <2>3, FreeCode DEF DataNext
<1> QED BY <1>2, <1>3

\* Both parts of a sequence are in it.
LEMMA Parts ==
  ASSUME NEW S, NEW f \in Seq(S), NEW g \in Seq(S)
  PROVE  /\ \A x \in Range(f) : x \in Range(f \o g)
         /\ \A x \in Range(g) : x \in Range(f \o g)
<1>1. /\ Len(f) \in Nat /\ Len(g) \in Nat /\ DOMAIN f = 1..Len(f) /\ DOMAIN g = 1..Len(g)
      /\ DOMAIN (f \o g) = 1..(Len(f) + Len(g))
      /\ \A l \in 1..(Len(f) + Len(g)) : (f \o g)[l] = IF l <= Len(f) THEN f[l] ELSE g[l - Len(f)]
  BY ConcatProperties
<1>2. \A i \in DOMAIN f : i \in DOMAIN (f \o g) /\ (f \o g)[i] = f[i]
  BY <1>1
<1>3. \A i \in DOMAIN g : i + Len(f) \in DOMAIN (f \o g) /\ (f \o g)[i + Len(f)] = g[i]
  <2> TAKE i \in DOMAIN g
  <2>1. i + Len(f) \in 1..(Len(f) + Len(g)) /\ ~(i + Len(f) <= Len(f)) /\ (i + Len(f)) - Len(f) = i
    BY <1>1
  <2> QED BY <1>1, <2>1
<1> QED BY <1>2, <1>3 DEF Range

\* What a statement is replaced by is ready, and gives what the statement gave.
LEMMA ExpansionCode ==
  ASSUME TypeInv, DocumentsComplete, NEW h \in Statement, Ready(World, h, {}, {}), NEW new, Expansion(h, new)
  PROVE  /\ Code(World, new)
         /\ \A s \in Statement : \A C :
              Ready(World, s, C \cup {h}, {}) => Ready(World, s, C \cup Range(new), {})
<1>1. CASE h.op = "for_contents"
  <2>1. new = AddContent(h.m, Head(h.mds), Head(h.data)) \o ForContents(h.m, Tail(h.mds), Tail(h.data))
    BY <1>1 DEF Expansion
  <2>2. h.m \in Missions /\ h.mds \in NonEmpty(Meta) /\ h.data \in NonEmpty(Data)
    BY <1>1, ControlFields
  <2>3. Head(h.mds) \in Meta /\ Tail(h.mds) \in Seq(Meta) /\ Tail(h.data) \in Seq(Data)
    BY <2>2, HeadAndTail
  <2>4. Code(World, new)
    BY <2>1, <2>2, <2>3, AddContentCode, LoopTails, JoinCode
  <2> QED BY <1>1, <2>4, Kept
<1>2. CASE h.op = "for_missions"
  <2>1. new = MissionCot(Head(h.ms), h.c) \o ForMissions(Tail(h.ms), h.c)
    BY <1>2 DEF Expansion
  <2>2. h.ms \in NonEmpty(Missions) /\ h.c \in Cots
    BY <1>2, ControlFields
  <2>3. Head(h.ms) \in Missions /\ Tail(h.ms) \in Seq(Missions)
    BY <2>2, HeadAndTail
  <2>4. CotReady(World, h.c, {})
    BY <1>2 DEF Ready
  <2>5. Code(World, new)
    BY <2>1, <2>2, <2>3, <2>4, MissionCotCode, LoopTails, JoinCode
  <2> QED BY <1>2, <2>5, Kept
<1>3. CASE h.op = "for_tasks"
  <2> DEFINE f == SaveTask(h.k, Head(h.ts))
             g == ForTasks(h.k, Tail(h.ts))
             c == [op |-> "create_task", k |-> h.k, t |-> Head(h.ts)]
             l == [op |-> "for_tasks", k |-> h.k, ts |-> Tail(h.ts)]
  <2>1. new = f \o g
    BY <1>3 DEF Expansion
  <2>2. h.k \in Checklists /\ h.ts \in NonEmpty(Tasks)
    BY <1>3, ControlFields
  <2>3. /\ Head(h.ts) \in Tasks /\ Tail(h.ts) \in Seq(Tasks)
        /\ \A x \in Range(h.ts) : x = Head(h.ts) \/ (x \in Range(Tail(h.ts)) /\ Tail(h.ts) # <<>>)
    BY <2>2, HeadAndTail
  <2>4. Code(World, f) /\ f \in Program /\ f # <<>> /\ c \in Range(f)
    BY <2>2, <2>3, SaveTaskCode
  <2>5. Code(World, g)
    BY <2>2, <2>3, LoopTails
  <2>6. Tail(h.ts) # <<>> => g = <<l>>
    BY DEF ForTasks
  <2>7. g \in Program
    <3>1. <<>> \in Program
      BY DEF Program
    <3> QED BY <2>5, <3>1, Zenon DEF Code, Fresh
  <2> HIDE DEF f, g
  <2>8. Code(World, new)
    BY <2>1, <2>4, <2>5, JoinCode
  <2>9. Range(f) \subseteq Range(new) /\ Range(g) \subseteq Range(new)
    <3>1. f \in Seq(Statement) /\ g \in Seq(Statement)
      BY <2>4, <2>7 DEF Program
    <3>2. /\ \A x \in Range(f) : x \in Range(f \o g)
          /\ \A x \in Range(g) : x \in Range(f \o g)
      BY <3>1, Parts
    <3> QED BY <2>1, <3>2
  <2>10. Tail(h.ts) # <<>> => l \in Range(new)
    <3>1. \A x : x \in Range(<<x>>)
      BY DEF Range
    <3> QED BY <2>6, <2>9, <3>1
  <2>11. \A t \in Range(h.ts) : \E y \in Range(new) : \/ y.op = "create_task" /\ y.k = h.k /\ y.t = t
                                                      \/ y.op = "for_tasks" /\ y.k = h.k /\ t \in Range(y.ts)
    <3> TAKE t \in Range(h.ts)
    <3>1. CASE t = Head(h.ts)
      <4>1. c \in Range(new) /\ c.op = "create_task" /\ c.k = h.k /\ c.t = t
        BY <2>4, <2>9, <3>1
      <4> HIDE DEF c
      <4> QED BY <4>1
    <3>2. CASE t \in Range(Tail(h.ts)) /\ Tail(h.ts) # <<>>
      BY <2>10, <3>2
    <3> QED BY <2>3, <3>1, <3>2
  <2> QED BY <1>3, <2>8, <2>11, DischargeTasks
<1>4. CASE h.op = "get_metadata"
  <2>1. h.todo \in NonEmpty(Objects) /\ h.mds \in Seq(Meta) /\ Head(h.todo) \in Objects
    BY <1>4, ControlFields, HeadAndTail
  <2>2. \A md \in MetadataOf(Head(h.todo)) : Append(h.mds, md) \in Seq(Meta)
    <3> TAKE md \in MetadataOf(Head(h.todo))
    <3>1. md \in Meta
      BY <2>1, MetadataRow DEF Meta
    <3> QED BY <2>1, <3>1
  <2>3. \E mds \in Seq(Meta) : new = MetadataNext(h, mds)
    BY <1>4, <2>1, <2>2 DEF Expansion
  <2>4. Code(World, new)
    BY <1>4, <2>3, MetadataNextCode
  <2> QED BY <1>4, <2>4, Kept
<1>5. CASE h.op = "get_data"
  <2>1. h.data \in Seq(Data)
    BY <1>5, ControlFields
  <2>2. \A d \in DataOf(Head(h.todo)) : Append(h.data, d) \in Seq(Data)
    BY <2>1, DataFound
  <2>3. \E data \in Seq(Data) : new = DataNext(h, data)
    BY <1>5, <2>1, <2>2 DEF Expansion
  <2>4. Code(World, new)
    BY <1>5, <2>3, DataNextCode
  <2> QED BY <1>5, <2>4, Kept
<1>6. CASE h.op = "replace_task"
  <2> DEFINE d == [files[h.k] EXCEPT ![h.t] = h.v]
             r == UpdateEnterpriseSyncData(h.k, TaskDoc(h.t, h.v), d)
             a == Call(r)
  <2>1. Readable(h.k) /\ new = <<a>>
    BY <1>6 DEF Expansion
  <2>2. h.k \in Checklists /\ h.t \in Tasks /\ h.v \in 0..MaxVersion
    BY <1>6, ExCheckFields
  <2>3. files[h.k] # NoData /\ h.k \in Uids
    BY <2>1, <2>2, ReadableFile, Contained
  <2>4. files[h.k] \in Doc
    BY <2>2, <2>3, Contained DEF TypeInv, StoreType
  <2>5. d \in Doc /\ DOMAIN d = DOMAIN files[h.k]
    <3>1. DOMAIN files[h.k] \in SUBSET Tasks /\ files[h.k] \in [DOMAIN files[h.k] -> 0..MaxVersion]
      BY <2>4, Contained
    <3>2. d \in [DOMAIN files[h.k] -> 0..MaxVersion]
      BY <2>2, <3>1
    <3> HIDE DEF d
    <3> QED BY <3>1, <3>2, Contained
  <2>6. \A t \in DOMAIN d : <<h.k, t>> \in World.done
    <3>1. \A t \in DOMAIN files[h.k] : t \in DOMAIN tasks /\ tasks[t] = h.k /\ files[t] # NoData /\ t \in Tasks
      BY <2>2, <2>3, <2>4, Contained DEF DocumentsComplete
    <3> HIDE DEF d
    <3> QED BY <2>2, <2>5, <3>1 DEF World, WorldOf
  <2> HIDE DEF d
  <2>7. r \in Request
    BY <2>2, <2>5, Contained, MakeRequest
  <2>8. a \in Statement
    BY <2>7, MakeControl
  <2>9. Ready(World, a, {}, {})
    BY <2>6 DEF Ready, RequestReady, TaskReady, Call, UpdateEnterpriseSyncData
  <2>10. Ends(a) /\ a.op # "delete_row" /\ ~IsCreation(a) /\ Closed(a)
    BY DEF Call, Ends, IsCreation, Closed, Follows
  <2> HIDE DEF a
  <2>11. \A f : f = <<a>> => Fresh(f) /\ ProgramReady(World, f, {}) /\ f[Len(f)] = a
    BY <2>8, <2>9, <2>10, OneStatement
  <2>12. Code(World, new)
    BY <2>1, <2>10, <2>11 DEF Code
  <2> QED BY <1>6, <2>12, Kept
<1> QED BY <1>1, <1>2, <1>3, <1>4, <1>5, <1>6 DEF Expansion

-----------------------------------------------------------------------------
(* A process after a step. *)

\* q is the process, w the world.
After(w, q) ==
  /\ q \in [stack : Seq(Program), ok : BOOLEAN] /\ StackGood(w, q.stack)
  /\ q.stack # <<>> => q.stack[Len(q.stack)] # <<>>

\* The statement process q is at.
At(q) == Head(q.stack[Len(q.stack)])

Caller(st) == SubSeq(st, 1, Len(st) - 1)

Inner(st) == st[Len(st)]

\* The innermost program of a stack.
LEMMA InnerProgram ==
  ASSUME NEW w, NEW st, StackGood(w, st), Running(st)
  PROVE  /\ st \in Seq(Program) /\ Len(st) \in Nat \ {0} /\ DOMAIN st = 1..Len(st) /\ Len(st) \in DOMAIN st
         /\ Inner(st) \in Program /\ Inner(st) # <<>> /\ Shape(Inner(st)) /\ ProgramReady(w, Inner(st), {})
         /\ Head(Inner(st)) \in Statement /\ Ready(w, Head(Inner(st)), {}, {})
         /\ Caller(st) \in Seq(Program)
<1>1. st \in Seq(Program) /\ st # <<>> /\ Inner(st) # <<>> /\ StackReady(w, st) /\ StackShape(st)
  BY DEF StackGood, Running, Inner
<1>2. /\ Len(st) \in Nat \ {0} /\ DOMAIN st = 1..Len(st) /\ Inner(st) \in Program
      /\ Caller(st) \in Seq(Program)
  BY ONLY <1>1, OuterStack DEF Inner, Caller
<1>3. Len(st) \in DOMAIN st /\ ~(Len(st) < Len(st))
  BY ONLY <1>2
<1>4. Above(st, Len(st)) = {}
  BY ONLY <1>3 DEF Above
<1>5. ProgramReady(w, Inner(st), {})
  BY ONLY <1>1, <1>3, <1>4 DEF StackReady, Inner
<1>6. Shape(Inner(st))
  BY ONLY <1>1, <1>3 DEF StackShape, Inner
<1>7. 1 \in DOMAIN Inner(st) /\ Head(Inner(st)) = Inner(st)[1] /\ Inner(st)[1] \in Statement
  <2>1. Inner(st) \in Seq(Statement) /\ Inner(st) # <<>>
    BY <1>1, <1>2 DEF Program
  <2> QED BY ONLY <2>1
<1>8. Before(Inner(st), 1) = {}
  BY DEF Before
<1>9. Ready(w, Head(Inner(st)), {}, {})
  BY ONLY <1>5, <1>7, <1>8 DEF ProgramReady
<1> QED BY <1>1, <1>2, <1>3, <1>5, <1>6, <1>7, <1>9

\* A statement has been executed.
LEMMA Advanced ==
  ASSUME NEW w, NEW v, Grows(w, v), NEW st, StackGood(w, st), Running(st),
         NEW h, h = Head(Inner(st)), Given(v, h), h.op \notin {"call", "for_tasks"},
         NEW ok \in BOOLEAN, NEW q, ResumeTo(Replaced(st, Tail(Inner(st))), ok, q)
  PROVE  /\ After(v, q)
         /\ \A l \in DOMAIN q.stack :
              \/ l \in DOMAIN st /\ l # Len(st) /\ q.stack[l] = st[l]
              \/ l = Len(st) /\ q.stack[l] = Tail(Inner(st)) /\ Tail(Inner(st)) # <<>>
         /\ Tail(Inner(st)) # <<>> =>
              q.stack # <<>> /\ At(q) = Head(Tail(Inner(st))) /\ Follows(h, At(q))
         /\ Tail(Inner(st)) = <<>> =>
              Ends(h) /\ (q.stack # <<>> => At(q).op # "delete_row")
<1> DEFINE f == Inner(st)
           g == Tail(f)
           progs == Replaced(st, g)
<1>1. f \in Program /\ f # <<>> /\ Shape(f) /\ ProgramReady(w, f, {}) /\ Len(st) \in Nat \ {0}
  BY InnerProgram
<1>2. g \in Program /\ Shape(g) /\ ProgramReady(v, g, {})
  BY <1>1, AdvanceCode
<1>3. (g # <<>> => Follows(h, Head(g))) /\ (g = <<>> => Ends(h))
  BY <1>1, TailShape
<1>4. h.op = "save_file" /\ h.u \in Checklists \cup Tasks => h.u \in v.saved
  BY DEF Given
<1> HIDE DEF g
<1>5. /\ StackGood(v, progs) /\ Len(progs) = Len(st) /\ DOMAIN progs = DOMAIN st
      /\ \A l \in DOMAIN st : l # Len(st) => progs[l] = st[l]
      /\ progs[Len(st)] = g
  <2>1. h = Head(st[Len(st)])
    BY DEF Inner
  <2> QED BY <1>2, <1>4, <2>1, ContinueStack
<1>6. ResumeTo(progs, ok, q)
  BY DEF g
<1> HIDE DEF progs
<1>7. /\ q \in [stack : Seq(Program), ok : BOOLEAN] /\ StackGood(v, q.stack)
      /\ q.stack # <<>> => q.stack[Len(q.stack)] # <<>>
      /\ Len(q.stack) <= Len(progs)
      /\ \A l \in DOMAIN q.stack : l \in DOMAIN progs /\ q.stack[l] = progs[l]
      /\ Len(q.stack) < Len(progs) /\ q.stack # <<>> => Head(q.stack[Len(q.stack)]).op # "delete_row"
      /\ progs # <<>> /\ progs[Len(progs)] # <<>> => q.stack = progs
  BY <1>5, <1>6, Truncated
<1>8. After(v, q)
  BY <1>7 DEF After
<1>9. \A l \in DOMAIN q.stack : q.stack[l] # <<>> \/ l # Len(q.stack)
  BY <1>7
<1>10. CASE g # <<>>
  <2>1. progs # <<>>
    <3>1. progs \in Seq(Program) /\ Len(progs) # 0
      BY <1>1, <1>5 DEF StackGood
    <3> QED BY <3>1
  <2>2. q.stack = progs
    BY <1>5, <1>7, <1>10, <2>1
  <2>3. At(q) = Head(g) /\ q.stack # <<>>
    BY <1>5, <2>1, <2>2 DEF At
  <2> QED BY <1>3, <1>5, <1>8, <1>10, <2>2, <2>3 DEF g
<1>11. CASE g = <<>>
  <2>1. q.stack \in Seq(Program) /\ Len(q.stack) \in Nat /\ DOMAIN q.stack = 1..Len(q.stack)
    BY <1>7
  <2>2. Len(q.stack) # Len(st)
    <3> SUFFICES ASSUME Len(q.stack) = Len(st) PROVE FALSE
      OBVIOUS
    <3>1. Len(st) \in DOMAIN q.stack /\ q.stack # <<>>
      BY <1>1, <2>1
    <3>2. q.stack[Len(st)] = <<>>
      BY <1>5, <1>7, <1>11, <3>1
    <3> QED BY <1>7, <3>1, <3>2
  <2>3. Len(q.stack) < Len(st)
    BY <1>1, <1>5, <1>7, <2>1, <2>2
  <2>4. \A l \in DOMAIN q.stack : l # Len(st)
    BY <1>1, <2>1, <2>3
  <2>5. q.stack # <<>> => At(q).op # "delete_row"
    BY <1>5, <1>7, <2>3 DEF At
  <2> QED BY <1>3, <1>5, <1>7, <1>8, <1>11, <2>4, <2>5 DEF g
<1> QED BY <1>10, <1>11

\* A statement has been replaced by others.
LEMMA Expanded ==
  ASSUME NEW w, NEW st, StackGood(w, st), Running(st), NEW new, Code(w, new),
         NEW h, h = Head(Inner(st)), h.op \notin {"delete_file", "create_mission", "save_file"},
         \A s \in Statement : \A C : Ready(w, s, C \cup {h}, {}) => Ready(w, s, C \cup Range(new), {}),
         NEW ok \in BOOLEAN, NEW q, ResumeTo(Replaced(st, new \o Tail(Inner(st))), ok, q)
  PROVE  /\ After(w, q)
         /\ \A l \in DOMAIN q.stack : \A m \in Missions :
              Owes(q.stack[l], m) => l \in DOMAIN st /\ Owes(st[l], m)
         /\ q.stack # <<>> => At(q).op # "delete_row"
<1> DEFINE f == Inner(st)
           g == new \o Tail(f)
           progs == Replaced(st, g)
<1>1. /\ f \in Program /\ f # <<>> /\ Shape(f) /\ ProgramReady(w, f, {}) /\ Len(st) \in Nat \ {0}
      /\ Len(st) \in DOMAIN st
  BY InnerProgram
<1>2. /\ g \in Program /\ Shape(g) /\ ProgramReady(w, g, {})
      /\ \A m \in Missions : Owes(g, m) => Owes(f, m)
      /\ g # <<>> => Head(g).op # "delete_row"
  BY <1>1, LoopCode
<1>3. Grows(w, w)
  BY DEF Grows
<1> HIDE DEF g
<1>5. /\ StackGood(w, progs) /\ Len(progs) = Len(st) /\ DOMAIN progs = DOMAIN st
      /\ \A l \in DOMAIN st : l # Len(st) => progs[l] = st[l]
      /\ progs[Len(st)] = g
  <2>1. h = Head(st[Len(st)])
    BY DEF Inner
  <2> QED BY <1>2, <1>3, <2>1, ContinueStack
<1>6. ResumeTo(progs, ok, q)
  BY DEF g
<1> HIDE DEF progs
<1>7. /\ q \in [stack : Seq(Program), ok : BOOLEAN] /\ StackGood(w, q.stack)
      /\ q.stack # <<>> => q.stack[Len(q.stack)] # <<>>
      /\ Len(q.stack) <= Len(progs)
      /\ \A l \in DOMAIN q.stack : l \in DOMAIN progs /\ q.stack[l] = progs[l]
      /\ Len(q.stack) < Len(progs) /\ q.stack # <<>> => Head(q.stack[Len(q.stack)]).op # "delete_row"
      /\ progs # <<>> /\ progs[Len(progs)] # <<>> => q.stack = progs
  BY <1>5, <1>6, Truncated
<1>8. After(w, q)
  BY <1>7 DEF After
<1>9. \A l \in DOMAIN q.stack : \A m \in Missions :
              Owes(q.stack[l], m) => l \in DOMAIN st /\ Owes(st[l], m)
  <2> SUFFICES ASSUME NEW l \in DOMAIN q.stack, NEW m \in Missions, Owes(q.stack[l], m)
               PROVE  l \in DOMAIN st /\ Owes(st[l], m)
    OBVIOUS
  <2>1. l \in DOMAIN st /\ q.stack[l] = progs[l]
    BY <1>5, <1>7
  <2>2. CASE l # Len(st)
    BY <1>5, <2>1, <2>2
  <2>3. CASE l = Len(st)
    BY <1>2, <1>5, <2>1, <2>3 DEF Inner
  <2> QED BY <2>2, <2>3
<1>10. q.stack # <<>> => At(q).op # "delete_row"
  <2> SUFFICES ASSUME q.stack # <<>> PROVE At(q).op # "delete_row"
    OBVIOUS
  <2>1. q.stack \in Seq(Program) /\ Len(q.stack) \in Nat \ {0} /\ Len(q.stack) \in DOMAIN q.stack
    BY <1>7
  <2>2. CASE Len(q.stack) = Len(st)
    <3>1. q.stack[Len(q.stack)] = g
      BY <1>5, <1>7, <2>1, <2>2
    <3> QED BY <1>2, <1>7, <3>1 DEF At
  <2>3. CASE Len(q.stack) # Len(st)
    BY <1>1, <1>5, <1>7, <2>1, <2>3 DEF At
  <2> QED BY <2>2, <2>3
<1> QED BY <1>8, <1>9, <1>10

\* An exception has ended the innermost program.
LEMMA Raised ==
  ASSUME NEW w, NEW st, StackGood(w, st), Running(st), NEW h, h = Head(Inner(st)), h.op # "save_file",
         NEW ok \in BOOLEAN, NEW q, ResumeTo(Caller(st), ok, q)
  PROVE  /\ After(w, q)
         /\ \A l \in DOMAIN q.stack : l \in DOMAIN st /\ l # Len(st) /\ q.stack[l] = st[l]
         /\ q.stack # <<>> => At(q).op # "delete_row"
<1> DEFINE outer == Caller(st)
<1>1. /\ StackGood(w, outer) /\ Len(outer) = Len(st) - 1 /\ Len(st) \in Nat \ {0}
      /\ \A l \in DOMAIN outer : l \in DOMAIN st /\ l < Len(st) /\ outer[l] = st[l]
  <2>1. outer = SubSeq(st, 1, Len(st) - 1) /\ Head(st[Len(st)]).op # "save_file"
    BY DEF Caller, Inner
  <2> QED BY <2>1, RaiseStack
<1>2. ResumeTo(outer, ok, q)
  OBVIOUS
<1> HIDE DEF outer
<1>3. /\ q \in [stack : Seq(Program), ok : BOOLEAN] /\ StackGood(w, q.stack)
      /\ q.stack # <<>> => q.stack[Len(q.stack)] # <<>>
      /\ \A l \in DOMAIN q.stack : l \in DOMAIN outer /\ q.stack[l] = outer[l]
  BY <1>1, <1>2, Truncated
<1>4. \A l \in DOMAIN q.stack : l \in DOMAIN st /\ l < Len(st) /\ l # Len(st) /\ q.stack[l] = st[l]
  <2>1. \A l \in DOMAIN q.stack : l \in DOMAIN st /\ l < Len(st) /\ q.stack[l] = st[l]
    BY <1>1, <1>3
  <2>2. ~(Len(st) < Len(st))
    BY <1>1
  <2> QED BY <2>1, <2>2
<1>5. q.stack # <<>> => At(q).op # "delete_row"
  <2> SUFFICES ASSUME q.stack # <<>> PROVE At(q).op # "delete_row"
    OBVIOUS
  <2>1. Len(q.stack) \in DOMAIN q.stack
    <3>1. q.stack \in Seq(Program)
      BY <1>3
    <3> QED BY <3>1
  <2>2. Len(q.stack) \in DOMAIN st /\ Len(q.stack) < Len(st) /\ st[Len(q.stack)] # <<>>
        /\ q.stack[Len(q.stack)] = st[Len(q.stack)]
    BY <1>3, <1>4, <2>1
  <2> QED BY <2>2 DEF At, StackGood, StackShape
<1> QED BY <1>3, <1>4, <1>5 DEF After

\* A program has been called.
LEMMA CalledProgram ==
  ASSUME NEW w, NEW st, StackGood(w, st), Running(st), NEW h, h = Head(Inner(st)), h.op = "call",
         NEW f, IsBody(h.req, f), NEW q, ResumeTo(Called(st, Tail(Inner(st)), f), TRUE, q)
  PROVE  /\ After(w, q)
         /\ \A l \in DOMAIN q.stack : \A m \in Missions :
              Owes(q.stack[l], m) => l \in DOMAIN st /\ Owes(st[l], m)
         /\ q.stack # <<>> => At(q).op # "delete_row"
<1> DEFINE g == Tail(Inner(st))
           progs == Called(st, g, f)
<1>1. /\ Inner(st) \in Program /\ Inner(st) # <<>> /\ Shape(Inner(st)) /\ ProgramReady(w, Inner(st), {})
      /\ h \in Statement /\ Ready(w, h, {}, {}) /\ Len(st) \in Nat \ {0} /\ Len(st) \in DOMAIN st
  BY InnerProgram
<1>2. h.req \in Request /\ RequestReady(w, h.req, {}, {})
  BY <1>1, ControlFields DEF Ready
<1>3. /\ Fresh(f) /\ ProgramReady(w, f, {})
      /\ h.req.method = "SaveEnterpriseSyncData" => Head(f).op = "save_file" /\ Head(f).u = h.req.u
  BY <1>2, BodyFresh
<1>4. g \in Program /\ Shape(g) /\ (g # <<>> => Follows(h, Head(g)))
  BY <1>1, TailProgram, TailShape
<1>5. g # <<>> => Head(g).op # "delete_row"
  BY <1>4 DEF Follows
<1>6. ProgramReady(w, g, {Head(f)})
  <2>1. \A s \in Statement : \A C : Ready(w, s, C \cup {h}, {}) => Ready(w, s, C \cup {}, {Head(f)})
    <3>1. \A C : C \cup {} = C
      OBVIOUS
    <3>2. \A s, C : Ready(w, s, C \cup {h}, {}) => Ready(w, s, C, {Head(f)})
      BY <1>3, DischargeCall
    <3> QED BY <3>1, <3>2
  <2>2. \A i \in DOMAIN g : Ready(w, g[i], Before(g, i) \cup {}, {Head(f)})
    BY <1>1, <2>1, TailReady
  <2>3. \A i : Before(g, i) \cup {} = Before(g, i)
    OBVIOUS
  <2> QED BY <2>2, <2>3 DEF ProgramReady
<1>7. \A m \in Missions : Owes(g, m) => Owes(Inner(st), m)
  BY <1>1, OwesTail
<1> HIDE DEF g
<1>8. /\ StackGood(w, progs) /\ Len(progs) = Len(st) + 1
      /\ \A l \in DOMAIN progs : \/ l \in DOMAIN st /\ l # Len(st) /\ progs[l] = st[l]
                                 \/ l = Len(st) /\ progs[l] = g
                                 \/ l = Len(st) + 1 /\ progs[l] = f
      /\ progs # <<>> /\ progs[Len(progs)] = f /\ f # <<>>
  <2>1. Head(st[Len(st)]).op # "save_file"
    BY DEF Inner
  <2> QED BY <1>3, <1>4, <1>5, <1>6, <2>1, CallStack
<1>9. ResumeTo(progs, TRUE, q)
  BY DEF g
<1> HIDE DEF progs
<1>10. TRUE \in BOOLEAN
  OBVIOUS
<1>11. /\ q \in [stack : Seq(Program), ok : BOOLEAN] /\ StackGood(w, q.stack)
       /\ q.stack # <<>> => q.stack[Len(q.stack)] # <<>>
       /\ q.stack = progs
  BY <1>8, <1>9, <1>10, Truncated, Zenon
<1>12. \A l \in DOMAIN progs : \A m \in Missions : Owes(progs[l], m) => l \in DOMAIN st /\ Owes(st[l], m)
  <2> SUFFICES ASSUME NEW l \in DOMAIN progs, NEW m \in Missions, Owes(progs[l], m)
               PROVE  l \in DOMAIN st /\ Owes(st[l], m)
    OBVIOUS
  <2>1. ~Owes(f, m)
    BY <1>3 DEF Fresh
  <2> QED BY <1>1, <1>7, <1>8, <2>1 DEF Inner
<1>13. At(q).op # "delete_row"
  BY <1>3, <1>8, <1>11 DEF At, Fresh
<1> QED BY <1>11, <1>12, <1>13 DEF After

\* A program has been started on an idle process.
LEMMA Begun ==
  ASSUME NEW w, NEW f, Fresh(f), ProgramReady(w, f, {}), NEW progs, progs = <<f>>,
         NEW ok \in BOOLEAN, NEW q, ResumeTo(progs, ok, q)
  PROVE  /\ After(w, q)
         /\ \A l \in DOMAIN q.stack : \A m \in Missions : ~Owes(q.stack[l], m)
         /\ q.stack # <<>> => At(q).op # "delete_row"
<1>1. /\ StackGood(w, progs) /\ Len(progs) = 1 /\ DOMAIN progs = {1} /\ progs[1] = f /\ f # <<>>
  BY StartStack
<1>2. progs # <<>>
  BY ONLY <1>1
<1>3. ok \in BOOLEAN /\ ResumeTo(progs, ok, q)
  OBVIOUS
<1>4. progs[Len(progs)] # <<>>
  BY ONLY <1>1
<1>5. /\ q \in [stack : Seq(Program), ok : BOOLEAN] /\ StackGood(w, q.stack)
      /\ q.stack # <<>> => q.stack[Len(q.stack)] # <<>>
      /\ q.stack = progs
  BY ONLY <1>1, <1>2, <1>3, <1>4, Truncated
<1>6. \A l \in DOMAIN q.stack : q.stack[l] = f
  BY ONLY <1>1, <1>5
<1>7. At(q) = f[1] /\ Head(f) = f[1]
  <2>1. At(q) = Head(f)
    BY ONLY <1>1, <1>5 DEF At
  <2>2. f \in Seq(Statement)
    BY DEF Fresh, Program
  <2> QED BY ONLY <2>1, <2>2
<1> QED BY <1>5, <1>6, <1>7 DEF After, Fresh

-----------------------------------------------------------------------------
(* The steps of a process: an exception, a call, a statement replaced by      *)
(* others, or a statement executed, with its effect on the stores that the    *)
(* invariants speak of.                                                       *)

keyVars == <<rows, files, missions, changes, contents, cots, ext, tasks, cotStore, published, queue>>

OtherOps ==
  {"need_result", "create_subscription", "subscribe", "construct", "complete_subscription",
   "delete_subscription", "create_invitation", "create_log", "update_log", "delete_log", "add_parent",
   "remove_parent", "create_template", "create_checklist", "read_document", "link"}

MissionEffect(s) ==
  /\ UNCHANGED <<esVars, xVars, cotStore, published, queue>>
  /\ \/ s.op = "create_mission" /\ create_mission(s.m, s.role)
     \/ s.op = "change" /\ create_mission_change(s.type, s.m, s.kind, s.of)
     \/ s.op = "create_content" /\ create_mission_content(s.m, s.x)
     \/ s.op = "update_mission" /\ update_mission(s.m, s.x)
     \/ s.op = "create_cot" /\ create_mission_cot(s.m, s.c)
     \/ s.op = "add_external_data" /\ add_external_data(s.m, s.e, s.u)

SyncEffect(s) ==
  /\ UNCHANGED <<mVars, xVars, cotStore, published, queue>>
  /\ \/ s.op = "save_file" /\ save_file(s.u, s.d)
     \/ s.op = "update_file" /\ get_enterprise_sync_data_object(s.u, NoData) # {} /\ save_file(s.u, s.d)
     \/ s.op = "create_row" /\ create_enterprise_sync_data_object(s.row)
     \/ s.op = "update_row" /\ update_enterprise_sync_object(s.u, s.h, s.p)
     \/ s.op = "delete_file" /\ \E r \in MetadataOf(s.h) : files[r.uid] # NoData /\ delete_file(r.uid)
     \/ s.op = "delete_row" /\ delete_enterprise_sync_object(s.h)

Effect(s) ==
  \/ s.op \in OtherOps /\ UNCHANGED keyVars
  \/ MissionEffect(s)
  \/ SyncEffect(s)
  \/ /\ s.op = "create_task" /\ create_checklist_task(s.k, s.t)
     /\ UNCHANGED <<esVars, mVars, cotStore, published, queue>>
  \/ /\ s.op = "store_cot" /\ cotStore' = cotStore \cup {s.c}
     /\ UNCHANGED <<esVars, mVars, xVars, published, queue>>
  \/ /\ s.op = "notify"
     /\ \E m \in Announced(s) : published' = published \cup {[kind |-> s.kind, mission |-> m, of |-> s.of]}
     /\ UNCHANGED <<esVars, mVars, xVars, cotStore, queue>>
  \/ /\ s.op = "post" /\ queue' = With(queue, s.req)
     /\ UNCHANGED <<esVars, mVars, xVars, cotStore, published>>

Rise(p) ==
  /\ Stmt(p).op \notin {"save_file", "change", "create_row", "call"}
  /\ Raise(p) /\ UNCHANGED <<stores, queue, drawn, nreq>>

Enter(p) ==
  /\ Stmt(p).op = "call"
  /\ \E f : IsBody(Stmt(p).req, f) /\ Resume(p, Append(Append(Outer(p), Rest(p)), f), TRUE)
  /\ UNCHANGED <<stores, queue, drawn, nreq>>

Unfold(p) ==
  /\ \E new : Expansion(Stmt(p), new) /\ Continue(p, new \o Rest(p))
  /\ UNCHANGED <<stores, queue, drawn, nreq>>

Execute(p) == Effect(Stmt(p)) /\ Advance(p) /\ UNCHANGED <<drawn, nreq>>

LEMMA MissionSteps ==
  ASSUME NEW p, NEW s, s = Stmt(p),
         \/ CreateMission(p, s) \/ RecordChange(p, s) \/ CreateContent(p, s) \/ UpdateMission(p, s)
         \/ CreateCot(p, s) \/ AddExternalData(p, s)
  PROVE  Rise(p) \/ Execute(p)
<1>1. CASE CreateMission(p, s)
  BY <1>1 DEF CreateMission, OnMission, Attempt, Rise, Execute, Effect, MissionEffect, stores
<1>2. CASE RecordChange(p, s)
  BY <1>2 DEF RecordChange, OnMission, Attempt, Execute, Effect, MissionEffect
<1>3. CASE CreateContent(p, s)
  BY <1>3 DEF CreateContent, OnMission, Attempt, Rise, Execute, Effect, MissionEffect, stores
<1>4. CASE UpdateMission(p, s)
  BY <1>4 DEF UpdateMission, OnMission, Attempt, Rise, Execute, Effect, MissionEffect, stores
<1>5. CASE CreateCot(p, s)
  BY <1>5 DEF CreateCot, OnMission, Attempt, Rise, Execute, Effect, MissionEffect, stores
<1>6. CASE AddExternalData(p, s)
  BY <1>6 DEF AddExternalData, OnMission, Attempt, Rise, Execute, Effect, MissionEffect, stores
<1> QED BY <1>1, <1>2, <1>3, <1>4, <1>5, <1>6

LEMMA SyncSteps ==
  ASSUME NEW p, NEW s, s = Stmt(p),
         \/ SaveFile(p, s) \/ CreateRow(p, s) \/ UpdateFile(p, s) \/ UpdateRow(p, s)
         \/ DeleteFile(p, s) \/ DeleteRow(p, s)
  PROVE  Rise(p) \/ Execute(p)
<1>1. CASE SaveFile(p, s)
  BY <1>1 DEF SaveFile, OnSync, Attempt, Execute, Effect, SyncEffect
<1>2. CASE CreateRow(p, s)
  BY <1>2 DEF CreateRow, OnSync, Attempt, Execute, Effect, SyncEffect
<1>3. CASE UpdateFile(p, s)
  BY <1>3 DEF UpdateFile, OnSync, Attempt, Rise, Execute, Effect, SyncEffect, stores
<1>4. CASE UpdateRow(p, s)
  BY <1>4 DEF UpdateRow, OnSync, Attempt, Rise, Execute, Effect, SyncEffect, stores
<1>5. CASE DeleteFile(p, s)
  BY <1>5 DEF DeleteFile, OnSync, Attempt, Rise, Execute, Effect, SyncEffect, stores
<1>6. CASE DeleteRow(p, s)
  BY <1>6 DEF DeleteRow, OnSync, Attempt, Rise, Execute, Effect, SyncEffect, stores
<1> QED BY <1>1, <1>2, <1>3, <1>4, <1>5, <1>6

LEMMA ExCheckSteps ==
  ASSUME NEW p, NEW s, s = Stmt(p),
         \/ CreateTemplate(p, s) \/ CreateChecklist(p, s) \/ CreateTask(p, s)
         \/ ReadDocument(p, s) \/ LinkChecklist(p, s)
  PROVE  Rise(p) \/ Execute(p)
<1>1. CASE CreateTemplate(p, s)
  BY <1>1 DEF CreateTemplate, OnExCheck, Attempt, Execute, Effect, OtherOps, keyVars, create_template, esVars, mVars
<1>2. CASE CreateChecklist(p, s)
  BY <1>2 DEF CreateChecklist, OnExCheck, Attempt, Execute, Effect, OtherOps, keyVars, create_checklist, esVars, mVars
<1>3. CASE CreateTask(p, s)
  BY <1>3 DEF CreateTask, OnExCheck, Attempt, Rise, Execute, Effect, stores
<1>4. CASE ReadDocument(p, s)
  BY <1>4 DEF ReadDocument, OnExCheck, Attempt, Rise, Execute, Effect, OtherOps, keyVars, stores, esVars, mVars, xVars
<1>5. CASE LinkChecklist(p, s)
  BY <1>5 DEF LinkChecklist, OnExCheck, Attempt, Execute, Effect, OtherOps, keyVars, add_mission_checklist_mapping, esVars, mVars
<1> QED BY <1>1, <1>2, <1>3, <1>4, <1>5

LEMMA OtherMissionSteps ==
  ASSUME NEW p, NEW s, s = Stmt(p),
         \/ CreateSubscription(p, s) \/ Subscribe(p, s) \/ Construct(p, s)
         \/ CompleteSubscription(p, s) \/ DeleteSubscription(p, s)
         \/ CreateInvitation(p, s) \/ CreateLog(p, s) \/ UpdateLog(p, s) \/ DeleteLog(p, s)
         \/ AddParent(p, s) \/ RemoveParent(p, s)
  PROVE  Rise(p) \/ Execute(p)
<1> USE DEF OnMission, Attempt, Rise, Execute, Effect, OtherOps, keyVars, stores, esVars, mVars, xVars
<1>1. CASE CreateSubscription(p, s)
  BY <1>1 DEF CreateSubscription, create_subscription
<1>2. CASE Subscribe(p, s)
  BY <1>2 DEF Subscribe, create_subscription
<1>3. CASE Construct(p, s)
  BY <1>3 DEF Construct
<1>4. CASE CompleteSubscription(p, s)
  BY <1>4 DEF CompleteSubscription
<1>5. CASE DeleteSubscription(p, s)
  BY <1>5 DEF DeleteSubscription, delete_subscription
<1>6. CASE CreateInvitation(p, s)
  BY <1>6 DEF CreateInvitation, create_invitation
<1>7. CASE CreateLog(p, s)
  BY <1>7 DEF CreateLog, create_log
<1>8. CASE UpdateLog(p, s)
  BY <1>8 DEF UpdateLog, update_log
<1>9. CASE DeleteLog(p, s)
  BY <1>9 DEF DeleteLog, delete_mission_log
<1>10. CASE AddParent(p, s)
  BY <1>10 DEF AddParent, add_parent_to_mission
<1>11. CASE RemoveParent(p, s)
  BY <1>11 DEF RemoveParent, remove_parent_from_mission
<1> QED BY <1>1, <1>2, <1>3, <1>4, <1>5, <1>6, <1>7, <1>8, <1>9, <1>10, <1>11

LEMMA ControlSteps ==
  ASSUME NEW p, NEW s, s = Stmt(p),
         \/ PostStep(p, s) \/ NeedStep(p, s) \/ RaiseStep(p, s) \/ NotifyStep(p, s) \/ StoreCot(p, s)
  PROVE  Rise(p) \/ Execute(p)
<1>1. CASE PostStep(p, s)
  BY <1>1 DEF PostStep, Execute, Effect, stores
<1>2. CASE NeedStep(p, s)
  BY <1>2 DEF NeedStep, Rise, Execute, Effect, OtherOps, keyVars, stores, esVars, mVars, xVars
<1>3. CASE RaiseStep(p, s)
  BY <1>3 DEF RaiseStep, Rise
<1>4. CASE NotifyStep(p, s)
  BY <1>4 DEF NotifyStep, Rise, Execute, Effect, stores
<1>5. CASE StoreCot(p, s)
  BY <1>5 DEF StoreCot, Execute, Effect
<1> QED BY <1>1, <1>2, <1>3, <1>4, <1>5

LEMMA LoopSteps ==
  ASSUME NEW p, NEW s, s = Stmt(p),
         \/ ForContentsStep(p, s) \/ ForMissionsStep(p, s) \/ ForTasksStep(p, s)
         \/ GetMetadata(p, s) \/ GetData(p, s) \/ ReplaceTask(p, s)
  PROVE  Rise(p) \/ Unfold(p)
<1>1. CASE ForContentsStep(p, s)
  BY <1>1 DEF ForContentsStep, Unfold, Expansion
<1>2. CASE ForMissionsStep(p, s)
  BY <1>2 DEF ForMissionsStep, Unfold, Expansion
<1>3. CASE ForTasksStep(p, s)
  BY <1>3 DEF ForTasksStep, Unfold, Expansion
<1>4. CASE GetMetadata(p, s)
  BY <1>4 DEF GetMetadata, Unfold, Expansion, MetadataNext
<1>5. CASE GetData(p, s)
  BY <1>5 DEF GetData, Unfold, Expansion, DataNext
<1>6. CASE ReplaceTask(p, s)
  BY <1>6 DEF ReplaceTask, Unfold, Expansion, Rise
<1> QED BY <1>1, <1>2, <1>3, <1>4, <1>5, <1>6

LEMMA CallSteps ==
  ASSUME NEW p, NEW s, s = Stmt(p), CallStep(p, s)
  PROVE  Enter(p)
BY DEF CallStep, Enter, Run, IsBody

LEMMA StepKinds ==
  ASSUME NEW p, Step(p)
  PROVE  ~Idle(p) /\ (Rise(p) \/ Enter(p) \/ Unfold(p) \/ Execute(p))
BY MissionSteps, SyncSteps, ExCheckSteps, OtherMissionSteps, ControlSteps, LoopSteps, CallSteps
   DEF Step, SyncStep, MissionStep, ExCheckStep, ControlStep

-----------------------------------------------------------------------------
(* Effects on the world. *)

LEMMA WorldFields ==
  ASSUME NEW fs, NEW ts, NEW stored, NEW cont, NEW cs, NEW ex, NEW w, w = WorldOf(fs, ts, stored, cont, cs, ex)
  PROVE  /\ w.stored = stored
         /\ \A u \in Checklists \cup Tasks : u \in w.saved <=> fs[u] # NoData
         /\ \A k \in Checklists, t \in Tasks :
              <<k, t>> \in w.done <=> t \in DOMAIN ts /\ ts[t] = k /\ fs[t] # NoData
         /\ \A m, x : <<m, "content", x>> \in w.held <=> \E r \in cont : r.mission = m /\ r.id = x
         /\ \A m, x : <<m, "cot", x>> \in w.held <=> \E r \in cs : r[2] = m /\ r[1] = x
         /\ \A m, x : <<m, "external", x>> \in w.held <=> \E r \in ex : r.mission = m /\ r.id = x
<1>1. w.stored = stored
  BY DEF WorldOf
<1>2. \A u \in Checklists \cup Tasks : u \in w.saved <=> fs[u] # NoData
  BY DEF WorldOf
<1>3. \A k \in Checklists, t \in Tasks :
              <<k, t>> \in w.done <=> t \in DOMAIN ts /\ ts[t] = k /\ fs[t] # NoData
  BY DEF WorldOf
<1>4. \A m, x : <<m, "content", x>> \in w.held <=> \E r \in cont : r.mission = m /\ r.id = x
  BY DEF WorldOf
<1>5. \A m, x : <<m, "cot", x>> \in w.held <=> \E r \in cs : r[2] = m /\ r[1] = x
  BY DEF WorldOf
<1>6. \A m, x : <<m, "external", x>> \in w.held <=> \E r \in ex : r.mission = m /\ r.id = x
  BY DEF WorldOf
<1> QED BY <1>1, <1>2, <1>3, <1>4, <1>5, <1>6

LEMMA WorldGrows ==
  ASSUME NEW fs, NEW ts, NEW stored, NEW cont, NEW cs, NEW ex, NEW w, w = WorldOf(fs, ts, stored, cont, cs, ex),
         NEW fs1, NEW ts1, NEW stored1, NEW cont1, NEW cs1, NEW ex1, NEW v,
         v = WorldOf(fs1, ts1, stored1, cont1, cs1, ex1),
         \A u \in Checklists \cup Tasks : fs[u] # NoData => fs1[u] # NoData,
         \A t \in DOMAIN ts : t \in DOMAIN ts1 /\ ts1[t] = ts[t],
         stored \subseteq stored1,
         \A r \in cont : \E x \in cont1 : x.mission = r.mission /\ x.id = r.id,
         cs \subseteq cs1, ex \subseteq ex1
  PROVE  Grows(w, v)
<1>1. w.stored \subseteq v.stored
  BY DEF WorldOf
<1>2. w.saved \subseteq v.saved
  BY DEF WorldOf
<1>3. w.done \subseteq v.done
  <2> SUFFICES ASSUME NEW x \in w.done PROVE x \in v.done
    OBVIOUS
  <2>1. x \in Checklists \X Tasks /\ x[2] \in DOMAIN ts /\ ts[x[2]] = x[1] /\ fs[x[2]] # NoData
    BY DEF WorldOf
  <2>2. x[2] \in Tasks
    BY <2>1
  <2>3. x[2] \in DOMAIN ts1 /\ ts1[x[2]] = x[1] /\ fs1[x[2]] # NoData
    BY <2>1, <2>2
  <2> QED BY <2>1, <2>3 DEF WorldOf
<1>4. w.held \subseteq v.held
  <2> SUFFICES ASSUME NEW x \in w.held PROVE x \in v.held
    OBVIOUS
  <2> DEFINE A(S) == {<<r.mission, "content", r.id>> : r \in S}
             B(S) == {<<r[2], "cot", r[1]>> : r \in S}
             C(S) == {<<r.mission, "external", r.id>> : r \in S}
  <2>1. w.held = A(cont) \cup B(cs) \cup C(ex) /\ v.held = A(cont1) \cup B(cs1) \cup C(ex1)
    BY DEF WorldOf
  <2>2. x \in A(cont) => x \in A(cont1)
    <3> SUFFICES ASSUME x \in A(cont) PROVE x \in A(cont1)
      OBVIOUS
    <3>1. PICK r \in cont : x = <<r.mission, "content", r.id>>
      OBVIOUS
    <3>2. PICK y \in cont1 : y.mission = r.mission /\ y.id = r.id
      OBVIOUS
    <3> QED BY <3>1, <3>2
  <2>3. B(cs) \subseteq B(cs1) /\ C(ex) \subseteq C(ex1)
    OBVIOUS
  <2> HIDE DEF A, B, C
  <2> QED BY <2>1, <2>2, <2>3
<1> QED BY <1>1, <1>2, <1>3, <1>4 DEF Grows

\* What a statement that is ready relies on.
LEMMA ReadyNow ==
  ASSUME TypeInv, NEW h \in Statement, Ready(World, h, {}, {})
  PROVE  /\ h.op = "create_cot" => h.c \in cotStore
         /\ h.op = "change" => HeldReady(World, h.m, h.kind, h.of, {})
         /\ h.op \in {"save_file", "update_file"} /\ h.u \in Checklists =>
              \A t \in DOMAIN h.d : t \in Tasks /\ t \in DOMAIN tasks /\ tasks[t] = h.u /\ files[t] # NoData
         /\ h.op = "create_task" => files[h.t] # NoData
         /\ h.op = "create_mission" /\ h.m \in Checklists => files[h.m] # NoData
         /\ h.op = "post" => h.req \in Request /\ RequestReady(World, h.req, {}, {})
<1>1. /\ World.stored = cotStore
      /\ \A u \in Checklists \cup Tasks : u \in World.saved <=> files[u] # NoData
      /\ \A k \in Checklists, t \in Tasks :
           <<k, t>> \in World.done <=> t \in DOMAIN tasks /\ tasks[t] = k /\ files[t] # NoData
  BY WorldFields DEF World
<1>2. h.op = "create_cot" => h.c \in cotStore
  BY <1>1 DEF Ready, CotReady
<1>3. h.op = "change" => HeldReady(World, h.m, h.kind, h.of, {})
  BY DEF Ready
<1>4. ASSUME h.op \in {"save_file", "update_file"}, h.u \in Checklists, NEW t \in DOMAIN h.d
      PROVE  t \in Tasks /\ t \in DOMAIN tasks /\ tasks[t] = h.u /\ files[t] # NoData
  <2>1. h.d \in Doc
    BY <1>4, SyncFields, Contained
  <2>2. t \in Tasks
    BY <1>4, <2>1, Contained
  <2>3. <<h.u, t>> \in World.done
    BY <1>4 DEF Ready, TaskReady
  <2> QED BY <1>1, <1>4, <2>2, <2>3
<1>5. h.op = "create_task" => files[h.t] # NoData
  <2>1. h.op = "create_task" => h.t \in Tasks /\ h.t \in World.saved
    BY ExCheckFields DEF Ready, SavedReady
  <2> QED BY <1>1, <2>1
<1>6. h.op = "create_mission" /\ h.m \in Checklists => files[h.m] # NoData
  BY <1>1 DEF Ready
<1>7. h.op = "post" => h.req \in Request /\ RequestReady(World, h.req, {}, {})
  BY ControlFields DEF Ready
<1> QED BY <1>2, <1>3, <1>4, <1>5, <1>6, <1>7

\* The file that delete_file removes is that of a package.
LEMMA DeletedFile ==
  ASSUME TypeInv, NEW h \in Packages, NEW r \in MetadataOf(h)
  PROVE  r.uid = h
<1>1. PICK i \in DOMAIN rows : r = rows[i] /\ r.hash = h
  BY MetadataRow
<1>2. h \in ContentOf(r.uid)
  BY <1>1 DEF TypeInv, StoreType
<1>3. h \notin Doc
  BY Contained DEF Objects
<1> QED BY <1>2, <1>3 DEF ContentOf

LEMMA FileTypes ==
  ASSUME TypeInv
  PROVE  /\ files \in [Uids -> Data \cup {NoData}] /\ rows \in Seq(Row)
         /\ Checklists \cup Tasks \subseteq Uids /\ (Checklists \cup Tasks) \cap Packages = {}
         /\ \A u \in Uids : \A d \in ContentOf(u) : d # NoData
<1>1. \A u \in Uids : \A d \in ContentOf(u) : d # NoData
  BY Contained, NoDataAssumption DEF ContentOf
<1> QED BY <1>1, TakApiAssumption DEF TypeInv, TypeOK, EsTypeOK

LEMMA EffectGrows ==
  ASSUME TypeInv, NEW h \in Statement, Ready(World, h, {}, {}), Effect(h), NEW v, v = World'
  PROVE  Grows(World, v) /\ Given(v, h)
<1>1. v = WorldOf(files', tasks', cotStore', contents', cots', ext')
      /\ World = WorldOf(files, tasks, cotStore, contents, cots, ext)
  BY DEF World
<1>2. /\ files \in [Uids -> Data \cup {NoData}]
      /\ Checklists \cup Tasks \subseteq Uids /\ (Checklists \cup Tasks) \cap Packages = {}
      /\ \A u \in Uids : \A d \in ContentOf(u) : d # NoData
  BY FileTypes
<1>3. \A u \in Checklists \cup Tasks : files[u] # NoData => files'[u] # NoData
  <2>1. CASE h.op \in {"save_file", "update_file"} /\ save_file(h.u, h.d)
    <3>1. h.u \in Uids /\ h.d # NoData
      BY <1>2, <2>1, SyncFields
    <3> QED BY <1>2, <2>1, <3>1 DEF save_file
  <2>2. CASE h.op = "delete_file" /\ \E r \in MetadataOf(h.h) : delete_file(r.uid)
    <3>1. PICK r \in MetadataOf(h.h) : delete_file(r.uid)
      BY <2>2
    <3>2. h.h \in Packages /\ r.uid = h.h
      BY <2>2, SyncFields, DeletedFile
    <3> QED BY <1>2, <3>1, <3>2 DEF delete_file
  <2>3. CASE UNCHANGED files
    BY <2>3
  <2> QED BY <2>1, <2>2, <2>3 DEF Effect, SyncEffect, MissionEffect, esVars, keyVars,
            create_enterprise_sync_data_object, update_enterprise_sync_object, delete_enterprise_sync_object
<1>4. \A t \in DOMAIN tasks : t \in DOMAIN tasks' /\ tasks'[t] = tasks[t]
  BY DEF Effect, SyncEffect, MissionEffect, xVars, keyVars, create_checklist_task
<1>5. cotStore \subseteq cotStore'
  BY DEF Effect, SyncEffect, MissionEffect, keyVars
<1>6. \A r \in contents : \E x \in contents' : x.mission = r.mission /\ x.id = r.id
  <2>1. CASE contents \subseteq contents'
    BY <2>1
  <2>2. CASE h.op = "update_mission" /\ update_mission(h.m, h.x)
    <3> SUFFICES ASSUME NEW r \in contents PROVE \E x \in contents' : x.mission = r.mission /\ x.id = r.id
      OBVIOUS
    <3> DEFINE y == IF <<r.id, r.mission>> = <<h.x, h.m>> THEN [r EXCEPT !.linked = TRUE] ELSE r
    <3>1. y \in contents'
      BY <2>2 DEF update_mission
    <3>2. r \in [id : Contents, mission : Missions, linked : BOOLEAN]
      BY DEF TypeInv, TypeOK, MTypeOK
    <3>3. y.mission = r.mission /\ y.id = r.id
      BY <3>2
    <3> QED BY <3>1, <3>3
  <2> QED BY <2>1, <2>2 DEF Effect, SyncEffect, MissionEffect, mVars, keyVars, create_mission,
            create_mission_change, create_mission_content, create_mission_cot, add_external_data
<1>7. cots \subseteq cots' /\ ext \subseteq ext'
  BY DEF Effect, SyncEffect, MissionEffect, mVars, keyVars, create_mission,
            create_mission_change, create_mission_content, create_mission_cot, add_external_data, update_mission
<1>8. Grows(World, v)
  BY <1>1, <1>3, <1>4, <1>5, <1>6, <1>7, WorldGrows
<1>9. Given(v, h)
  <2>1. /\ v.stored = cotStore'
        /\ \A u \in Checklists \cup Tasks : u \in v.saved <=> files'[u] # NoData
        /\ \A k \in Checklists, t \in Tasks :
              <<k, t>> \in v.done <=> t \in DOMAIN tasks' /\ tasks'[t] = k /\ files'[t] # NoData
        /\ \A m, x : <<m, "content", x>> \in v.held <=> \E r \in contents' : r.mission = m /\ r.id = x
        /\ \A m, x : <<m, "cot", x>> \in v.held <=> \E r \in cots' : r[2] = m /\ r[1] = x
        /\ \A m, x : <<m, "external", x>> \in v.held <=> \E r \in ext' : r.mission = m /\ r.id = x
    BY <1>1, WorldFields
  <2>2. h.op = "create_task" => <<h.k, h.t>> \in v.done
    <3> SUFFICES ASSUME h.op = "create_task" PROVE <<h.k, h.t>> \in v.done
      OBVIOUS
    <3>1. h.k \in Checklists /\ h.t \in Tasks /\ files[h.t] # NoData
      BY ExCheckFields, ReadyNow
    <3>2. create_checklist_task(h.k, h.t)
      BY DEF Effect, MissionEffect, SyncEffect, OtherOps
    <3>3. h.t \in DOMAIN tasks' /\ tasks'[h.t] = h.k
      BY <3>2 DEF create_checklist_task
    <3> QED BY <1>3, <2>1, <3>1, <3>3
  <2>3. h.op = "save_file" /\ h.u \in Checklists \cup Tasks => h.u \in v.saved
    <3> SUFFICES ASSUME h.op = "save_file", h.u \in Checklists \cup Tasks PROVE h.u \in v.saved
      OBVIOUS
    <3>1. h.u \in Uids /\ h.d # NoData
      BY <1>2, SyncFields
    <3>2. save_file(h.u, h.d)
      BY DEF Effect, MissionEffect, SyncEffect, OtherOps
    <3>3. files'[h.u] # NoData
      BY <1>2, <3>1, <3>2 DEF save_file
    <3> QED BY <2>1, <3>3
  <2>4. h.op = "store_cot" => h.c \in v.stored
    BY <2>1 DEF Effect, MissionEffect, SyncEffect, OtherOps
  <2>5. h.op = "create_content" => <<h.m, "content", h.x>> \in v.held
    <3> SUFFICES ASSUME h.op = "create_content" PROVE <<h.m, "content", h.x>> \in v.held
      OBVIOUS
    <3>1. create_mission_content(h.m, h.x)
      BY DEF Effect, MissionEffect, SyncEffect, OtherOps
    <3>2. [id |-> h.x, mission |-> h.m, linked |-> FALSE] \in contents'
      BY <3>1 DEF create_mission_content
    <3> QED BY <2>1, <3>2
  <2>6. h.op = "create_cot" => <<h.m, "cot", h.c>> \in v.held
    <3> SUFFICES ASSUME h.op = "create_cot" PROVE <<h.m, "cot", h.c>> \in v.held
      OBVIOUS
    <3>1. create_mission_cot(h.m, h.c)
      BY DEF Effect, MissionEffect, SyncEffect, OtherOps
    <3>2. <<h.c, h.m>> \in cots'
      BY <3>1 DEF create_mission_cot
    <3> QED BY <2>1, <3>2
  <2>7. h.op = "add_external_data" => <<h.m, "external", h.e>> \in v.held
    <3> SUFFICES ASSUME h.op = "add_external_data" PROVE <<h.m, "external", h.e>> \in v.held
      OBVIOUS
    <3>1. add_external_data(h.m, h.e, h.u)
      BY DEF Effect, MissionEffect, SyncEffect, OtherOps
    <3>2. [id |-> h.e, uid |-> h.u, mission |-> h.m] \in ext'
      BY <3>1 DEF add_external_data
    <3> QED BY <2>1, <3>2
  <2> QED BY <2>2, <2>3, <2>4, <2>5, <2>6, <2>7 DEF Given
<1> QED BY <1>8, <1>9

LEMMA HeldMonotone ==
  ASSUME NEW w, NEW v, Grows(w, v), NEW m, NEW kind, NEW of, HeldReady(w, m, kind, of, {})
  PROVE  HeldReady(v, m, kind, of, {})
BY DEF HeldReady, Grows

LEMMA EffectCots ==
  ASSUME TypeInv, MissionCotsResolve, NEW h \in Statement, Ready(World, h, {}, {}), Effect(h)
  PROVE  MissionCotsResolve'
<1>1. cotStore \subseteq cotStore'
  BY DEF Effect, SyncEffect, MissionEffect, keyVars
<1>2. CASE h.op = "create_cot" /\ create_mission_cot(h.m, h.c)
  <2>1. h.c \in cotStore
    BY <1>2, ReadyNow
  <2> QED BY <1>1, <1>2, <2>1 DEF MissionCotsResolve, create_mission_cot
<1>3. CASE UNCHANGED cots
  BY <1>1, <1>3 DEF MissionCotsResolve
<1> QED BY <1>2, <1>3 DEF Effect, SyncEffect, MissionEffect, mVars, keyVars, create_mission,
            create_mission_change, create_mission_content, add_external_data, update_mission

LEMMA EffectDocuments ==
  ASSUME TypeInv, DocumentsComplete, NEW h \in Statement, Ready(World, h, {}, {}), Effect(h)
  PROVE  DocumentsComplete'
<1>1. /\ files \in [Uids -> Data \cup {NoData}]
      /\ Checklists \cup Tasks \subseteq Uids /\ (Checklists \cup Tasks) \cap Packages = {}
      /\ \A u \in Uids : \A d \in ContentOf(u) : d # NoData
  BY FileTypes
<1>2. \A k \in Checklists : files[k] # NoData => \A t \in DOMAIN files[k] : t \in Tasks
  <2> SUFFICES ASSUME NEW k \in Checklists, files[k] # NoData, NEW t \in DOMAIN files[k] PROVE t \in Tasks
    OBVIOUS
  <2>1. files[k] \in Doc
    BY Contained DEF TypeInv, StoreType
  <2> QED BY <2>1, Contained
<1>3. CASE h.op \in {"save_file", "update_file"} /\ save_file(h.u, h.d) /\ UNCHANGED <<tasks, missions>>
  <2>1. h.u \in Uids /\ h.d # NoData
    BY <1>1, <1>3, SyncFields
  <2>2. h.u \in Checklists =>
          \A t \in DOMAIN h.d : t \in Tasks /\ t \in DOMAIN tasks /\ tasks[t] = h.u /\ files[t] # NoData
    BY <1>3, ReadyNow
  <2>3. \A u \in Uids : files'[u] = IF u = h.u THEN h.d ELSE files[u]
    BY <1>1, <1>3, <2>1 DEF save_file
  <2>4. \A u \in Uids : files[u] # NoData => files'[u] # NoData
    BY <2>1, <2>3
  <2>5. UNCHANGED <<tasks, missions>>
    BY <1>3
  <2> SUFFICES ASSUME NEW k \in Checklists
               PROVE  /\ files'[k] # NoData =>
                           \A t \in DOMAIN files'[k] : t \in DOMAIN tasks /\ tasks[t] = k /\ files'[t] # NoData
                      /\ Exists(k) => files'[k] # NoData
    BY <2>5 DEF DocumentsComplete, Exists
  <2>6. Exists(k) => files'[k] # NoData
    BY <1>1, <2>4 DEF DocumentsComplete
  <2>7. ASSUME files'[k] # NoData, NEW t \in DOMAIN files'[k]
        PROVE  t \in DOMAIN tasks /\ tasks[t] = k /\ files'[t] # NoData
    <3>1. CASE k = h.u
      BY <1>1, <2>2, <2>3, <2>4, <2>7, <3>1
    <3>2. CASE k # h.u
      <4>1. files'[k] = files[k]
        BY <1>1, <2>3, <3>2
      <4>2. t \in Tasks /\ t \in DOMAIN tasks /\ tasks[t] = k /\ files[t] # NoData
        BY <1>2, <2>7, <4>1 DEF DocumentsComplete
      <4> QED BY <1>1, <2>4, <4>2
    <3> QED BY <3>1, <3>2
  <2> QED BY <2>6, <2>7
<1>4. CASE h.op = "delete_file" /\ (\E r \in MetadataOf(h.h) : delete_file(r.uid)) /\ UNCHANGED <<tasks, missions>>
  <2>1. PICK r \in MetadataOf(h.h) : delete_file(r.uid)
    BY <1>4
  <2>2. h.h \in Packages /\ r.uid = h.h
    BY <1>4, SyncFields, DeletedFile
  <2>3. \A u \in Checklists \cup Tasks : files'[u] = files[u]
    BY <1>1, <2>1, <2>2 DEF delete_file
  <2> QED BY <1>2, <1>4, <2>3 DEF DocumentsComplete, Exists
<1>5. CASE h.op = "create_task" /\ create_checklist_task(h.k, h.t) /\ UNCHANGED <<files, missions>>
  BY <1>5 DEF DocumentsComplete, Exists, create_checklist_task
<1>6. CASE h.op = "create_mission" /\ create_mission(h.m, h.role) /\ UNCHANGED <<files, tasks>>
  <2>1. h.m \in Checklists => files[h.m] # NoData
    BY <1>6, ReadyNow
  <2>2. \A m : m \in DOMAIN missions' => m \in DOMAIN missions \/ m = h.m
    BY <1>6 DEF create_mission
  <2> QED BY <1>6, <2>1, <2>2 DEF DocumentsComplete, Exists
<1>7. CASE UNCHANGED <<files, tasks, missions>>
  BY <1>7 DEF DocumentsComplete, Exists
<1> QED BY <1>3, <1>4, <1>5, <1>6, <1>7 DEF Effect, SyncEffect, MissionEffect, esVars, xVars, mVars, keyVars,
            create_mission_change, create_mission_content, add_external_data, update_mission, create_mission_cot,
            create_enterprise_sync_data_object, update_enterprise_sync_object, delete_enterprise_sync_object

LEMMA EffectChanges ==
  ASSUME TypeInv, ReadyInv, NEW h \in Statement, Ready(World, h, {}, {}), Effect(h), NEW v, v = World'
  PROVE  \A i \in DOMAIN changes' :
           changes'[i].mission # None => HeldReady(v, changes'[i].mission, changes'[i].kind, changes'[i].of, {})
<1>1. Grows(World, v)
  BY EffectGrows
<1>2. \A i \in DOMAIN changes :
        changes[i].mission # None => HeldReady(v, changes[i].mission, changes[i].kind, changes[i].of, {})
  BY <1>1, HeldMonotone DEF ReadyInv, StoresRight
<1>3. CASE UNCHANGED changes
  BY <1>2, <1>3
<1>4. CASE h.op = "change" /\ create_mission_change(h.type, h.m, h.kind, h.of)
  <2> DEFINE x == [type |-> h.type, kind |-> h.kind, of |-> h.of, mission |-> IF Exists(h.m) THEN h.m ELSE None]
  <2>1. changes' = Append(changes, x) /\ changes \in Seq(Change)
    BY <1>4 DEF create_mission_change, TypeInv, TypeOK, MTypeOK
  <2>2. HeldReady(v, h.m, h.kind, h.of, {})
    BY <1>1, <1>4, HeldMonotone, ReadyNow
  <2>3. x.mission # None => HeldReady(v, x.mission, x.kind, x.of, {})
    BY <2>2
  <2> HIDE DEF x
  <2>4. \A i \in DOMAIN changes' : changes'[i] = x \/ (i \in DOMAIN changes /\ changes'[i] = changes[i])
    BY <2>1
  <2> QED BY <1>2, <2>3, <2>4
<1> QED BY <1>3, <1>4 DEF Effect, SyncEffect, MissionEffect, mVars, keyVars, create_mission,
            create_mission_content, add_external_data, update_mission, create_mission_cot

LEMMA EffectPublished ==
  ASSUME TypeInv, ReadyInv, NEW h \in Statement, Ready(World, h, {}, {}), Effect(h), NEW v, v = World'
  PROVE  \A n \in published' : n.kind \in {"content", "cot"} => <<n.mission, n.kind, n.of>> \in v.held
<1>1. Grows(World, v)
  BY EffectGrows
<1>2. \A n \in published : n.kind \in {"content", "cot"} => <<n.mission, n.kind, n.of>> \in v.held
  BY <1>1 DEF ReadyInv, StoresRight, Grows
<1>3. CASE UNCHANGED published
  BY <1>2, <1>3
<1>4. ASSUME NEW m \in Announced(h), published' = published \cup {[kind |-> h.kind, mission |-> m, of |-> h.of]}
      PROVE  \A n \in published' : n.kind \in {"content", "cot"} => <<n.mission, n.kind, n.of>> \in v.held
  <2>1. h.kind = "content" => <<m, "content", h.of>> \in World.held
    <3> SUFFICES ASSUME h.kind = "content" PROVE <<m, "content", h.of>> \in World.held
      OBVIOUS
    <3>1. PICK i \in DOMAIN changes : changes[i].kind = "content" /\ changes[i].of = h.of /\ changes[i].mission = m
      BY DEF Announced, FirstOf
    <3>2. m # None
      BY NoneAssumption DEF Announced
    <3>3. HeldReady(World, m, "content", h.of, {})
      BY <3>1, <3>2 DEF ReadyInv, StoresRight
    <3> QED BY <3>3 DEF HeldReady
  <2>2. h.kind = "cot" => <<m, "cot", h.of>> \in World.held
    <3>1. h.kind = "cot" => <<h.of, m>> \in cots
      BY DEF Announced
    <3>2. \A x : <<m, "cot", x>> \in World.held <=> \E r \in cots : r[2] = m /\ r[1] = x
      BY WorldFields DEF World
    <3> QED BY <3>1, <3>2
  <2> QED BY <1>1, <1>2, <1>4, <2>1, <2>2 DEF Grows
<1> QED BY <1>3, <1>4 DEF Effect, SyncEffect, MissionEffect, keyVars

LEMMA WithDomain ==
  ASSUME NEW B, NEW x
  PROVE  DOMAIN With(B, x) = DOMAIN B \cup {x}
BY DEF With, SetToBag, (+)

LEMMA EffectQueue ==
  ASSUME TypeInv, ReadyInv, NEW h \in Statement, Ready(World, h, {}, {}), Effect(h), NEW v, v = World'
  PROVE  \A r \in DOMAIN queue' : r \in Request /\ RequestReady(v, r, {}, {})
<1>1. Grows(World, v)
  BY EffectGrows
<1>2. \A r \in DOMAIN queue : r \in Request /\ RequestReady(v, r, {}, {})
  BY <1>1, RequestMonotone DEF ReadyInv, TypeInv
<1>3. CASE UNCHANGED queue
  BY <1>2, <1>3
<1>4. CASE h.op = "post" /\ queue' = With(queue, h.req)
  <2>1. h.req \in Request /\ RequestReady(World, h.req, {}, {})
    BY <1>4, ReadyNow
  <2>2. RequestReady(v, h.req, {}, {})
    BY <1>1, <2>1, RequestMonotone
  <2>3. DOMAIN queue' = DOMAIN queue \cup {h.req}
    BY <1>4, WithDomain
  <2> QED BY ONLY <1>2, <2>1, <2>2, <2>3
<1> QED BY <1>3, <1>4 DEF Effect, SyncEffect, MissionEffect, keyVars

-----------------------------------------------------------------------------
(* What a step does to its process. *)

\* A process that is not idle has a good stack, and a statement that is ready.
LEMMA AtWork ==
  ASSUME TypeInv, ReadyInv, ShapeInv, NEW p \in Procs, ~Idle(p), NEW st, st = proc[p].stack
  PROVE  /\ StackGood(World, st) /\ Running(st) /\ proc[p].ok \in BOOLEAN
         /\ Stmt(p) = Head(Inner(st)) /\ Rest(p) = Tail(Inner(st)) /\ Outer(p) = Caller(st)
         /\ Stmt(p) \in Statement /\ Ready(World, Stmt(p), {}, {})
<1>1. proc[p] \in [stack : Seq(Program), ok : BOOLEAN]
  BY DEF TypeInv, ProcType
<1>2. st \in Seq(Program) /\ proc[p].ok \in BOOLEAN
  BY <1>1
<1>3. st # <<>> /\ Top(p) # <<>>
  BY DEF Idle, TypeInv, ProcType
<1>4. Running(st)
  BY <1>3 DEF Running, Top
<1>5. StackGood(World, st)
  BY <1>2 DEF ReadyInv, ShapeInv, StackGood
<1>6. Stmt(p) = Head(Inner(st)) /\ Rest(p) = Tail(Inner(st)) /\ Outer(p) = Caller(st)
  BY DEF Stmt, Rest, Outer, Top, Inner, Caller
<1>7. Head(Inner(st)) \in Statement /\ Ready(World, Head(Inner(st)), {}, {})
  BY <1>4, <1>5, InnerProgram
<1> QED BY <1>2, <1>4, <1>5, <1>6, <1>7

LEMMA Resumed ==
  ASSUME NEW p, NEW progs, NEW ok, Resume(p, progs, ok)
  PROVE  \E q : ResumeTo(progs, ok, q) /\ proc' = [proc EXCEPT ![p] = q]
<1>1. PICK n \in 0..Len(progs) :
        /\ \A i \in (n+1)..Len(progs) : progs[i] = <<>>
        /\ n # 0 => progs[n] # <<>>
        /\ proc' = [proc EXCEPT ![p] = [stack |-> SubSeq(progs, 1, n), ok |-> ok \/ n # Len(progs)]]
  BY DEF Resume
<1>2. ResumeTo(progs, ok, [stack |-> SubSeq(progs, 1, n), ok |-> ok \/ n # Len(progs)])
  BY <1>1 DEF ResumeTo
<1> QED BY <1>1, <1>2

\* A step that changes no store: process p goes on with q.
Passes(p, q) ==
  /\ UNCHANGED stores
  /\ proc' = [proc EXCEPT ![p] = q] /\ After(World, q)
  /\ \A l \in DOMAIN q.stack : \A m \in Missions :
       Owes(q.stack[l], m) => l \in DOMAIN proc[p].stack /\ Owes(proc[p].stack[l], m)
  /\ q.stack # <<>> => At(q).op # "delete_row"
  /\ ~Idle(p) => Stmt(p).op \notin {"change", "create_row"}

LEMMA RisePasses ==
  ASSUME TypeInv, ReadyInv, ShapeInv, NEW p \in Procs, ~Idle(p), Rise(p)
  PROVE  \E q : Passes(p, q)
<1> DEFINE st == proc[p].stack
<1>1. /\ StackGood(World, st) /\ Running(st)
      /\ Stmt(p) = Head(Inner(st)) /\ Outer(p) = Caller(st)
  BY AtWork
<1>2. FALSE \in BOOLEAN
  OBVIOUS
<1>3. Resume(p, Caller(st), FALSE)
  BY <1>1 DEF Rise, Raise
<1>4. PICK q : ResumeTo(Caller(st), FALSE, q) /\ proc' = [proc EXCEPT ![p] = q]
  BY <1>3, Resumed, Zenon
<1>5. Stmt(p).op # "save_file" /\ Stmt(p).op \notin {"change", "create_row"} /\ UNCHANGED stores
  BY DEF Rise
<1> HIDE DEF st
<1>6. /\ After(World, q)
      /\ \A l \in DOMAIN q.stack : l \in DOMAIN st /\ l # Len(st) /\ q.stack[l] = st[l]
      /\ q.stack # <<>> => At(q).op # "delete_row"
  BY <1>1, <1>2, <1>4, <1>5, Raised, Zenon
<1> QED BY <1>4, <1>5, <1>6 DEF Passes, st

LEMMA EnterPasses ==
  ASSUME TypeInv, ReadyInv, ShapeInv, NEW p \in Procs, ~Idle(p), Enter(p)
  PROVE  \E q : Passes(p, q)
<1> DEFINE st == proc[p].stack
<1>1. /\ StackGood(World, st) /\ Running(st)
      /\ Stmt(p) = Head(Inner(st)) /\ Rest(p) = Tail(Inner(st)) /\ Outer(p) = Caller(st)
  BY AtWork
<1>2. PICK f : IsBody(Stmt(p).req, f) /\ Resume(p, Append(Append(Outer(p), Rest(p)), f), TRUE)
  BY DEF Enter
<1>3. Stmt(p).op = "call" /\ UNCHANGED stores
  BY DEF Enter
<1>4. Append(Append(Outer(p), Rest(p)), f) = Called(st, Tail(Inner(st)), f)
  BY <1>1, Zenon DEF Called, Caller
<1>5. PICK q : /\ ResumeTo(Called(st, Tail(Inner(st)), f), TRUE, q) 
               /\ proc' = [proc EXCEPT ![p] = q]
  BY <1>2, <1>4, Resumed, Zenon
<1> HIDE DEF st
<1>6. /\ After(World, q)
      /\ \A l \in DOMAIN q.stack : \A m \in Missions :
           Owes(q.stack[l], m) => l \in DOMAIN st /\ Owes(st[l], m)
      /\ q.stack # <<>> => At(q).op # "delete_row"
  BY <1>1, <1>2, <1>3, <1>5, CalledProgram, Zenon
<1> QED BY <1>3, <1>5, <1>6 DEF Passes, st

LEMMA UnfoldPasses ==
  ASSUME TypeInv, ReadyInv, ShapeInv, NEW p \in Procs, ~Idle(p), Unfold(p)
  PROVE  \E q : Passes(p, q)
<1> DEFINE st == proc[p].stack
<1>1. /\ StackGood(World, st) /\ Running(st) /\ proc[p].ok \in BOOLEAN
      /\ Stmt(p) = Head(Inner(st)) /\ Rest(p) = Tail(Inner(st)) /\ Outer(p) = Caller(st)
      /\ Stmt(p) \in Statement /\ Ready(World, Stmt(p), {}, {})
  BY AtWork
<1>2. PICK new : Expansion(Stmt(p), new) /\ Continue(p, new \o Rest(p))
  BY DEF Unfold
<1>3. UNCHANGED stores
  BY DEF Unfold
<1>4. Stmt(p).op \notin {"change", "create_row", "delete_file", "create_mission", "save_file"}
  BY <1>2 DEF Expansion
<1>5. DocumentsComplete
  BY DEF ReadyInv, StoresRight
<1>6. /\ Code(World, new)
      /\ \A s \in Statement : \A C :
           Ready(World, s, C \cup {Stmt(p)}, {}) => Ready(World, s, C \cup Range(new), {})
  BY <1>1, <1>2, <1>5, ExpansionCode
<1>7. Append(Outer(p), new \o Rest(p)) = Replaced(st, new \o Tail(Inner(st)))
  BY <1>1, Zenon DEF Replaced, Caller
<1>8. PICK q : /\ ResumeTo(Replaced(st, new \o Tail(Inner(st))), proc[p].ok, q) 
               /\ proc' = [proc EXCEPT ![p] = q]
  BY <1>2, <1>7, Resumed, Zenon DEF Continue
<1> HIDE DEF st
<1>9. /\ After(World, q)
      /\ \A l \in DOMAIN q.stack : \A m \in Missions :
           Owes(q.stack[l], m) => l \in DOMAIN st /\ Owes(st[l], m)
      /\ q.stack # <<>> => At(q).op # "delete_row"
  BY <1>1, <1>4, <1>6, <1>8, Expanded
<1> QED BY <1>3, <1>4, <1>8, <1>9 DEF Passes, st

\* A step with an effect on the stores: process p goes on with q, in world v.
Executes(p, q, v) ==
  /\ ~Idle(p) /\ Effect(Stmt(p)) /\ Grows(World, v)
  /\ Stmt(p) \in Statement /\ Ready(World, Stmt(p), {}, {})
  /\ proc' = [proc EXCEPT ![p] = q] /\ After(v, q)
  /\ \A l \in DOMAIN q.stack :
       \/ l \in DOMAIN proc[p].stack /\ l # Len(proc[p].stack) /\ q.stack[l] = proc[p].stack[l]
       \/ l = Len(proc[p].stack) /\ q.stack[l] = Rest(p) /\ Rest(p) # <<>>
  /\ Rest(p) # <<>> => q.stack # <<>> /\ At(q) = Head(Rest(p)) /\ Follows(Stmt(p), At(q))
  /\ Rest(p) = <<>> => Ends(Stmt(p)) /\ (q.stack # <<>> => At(q).op # "delete_row")

LEMMA ExecuteMoves ==
  ASSUME TypeInv, ReadyInv, ShapeInv, NEW p \in Procs, ~Idle(p), Execute(p), NEW v, v = World'
  PROVE  \E q : Executes(p, q, v)
<1> DEFINE st == proc[p].stack
<1>1. /\ StackGood(World, st) /\ Running(st) /\ proc[p].ok \in BOOLEAN
      /\ Stmt(p) = Head(Inner(st)) /\ Rest(p) = Tail(Inner(st)) /\ Outer(p) = Caller(st)
      /\ Stmt(p) \in Statement /\ Ready(World, Stmt(p), {}, {})
  BY AtWork
<1>2. Effect(Stmt(p)) /\ Advance(p)
  BY DEF Execute
<1>3. Grows(World, v) /\ Given(v, Stmt(p))
  BY <1>1, <1>2, EffectGrows
<1>4. Stmt(p).op \notin {"call", "for_tasks"}
  BY <1>2 DEF Effect, SyncEffect, MissionEffect, OtherOps
<1>7. Append(Outer(p), Rest(p)) = Replaced(st, Tail(Inner(st)))
  BY <1>1, Zenon DEF Replaced, Caller
<1>8. PICK q : ResumeTo(Replaced(st, Tail(Inner(st))), proc[p].ok, q) /\ proc' = [proc EXCEPT ![p] = q]
  BY <1>2, <1>7, Resumed, Zenon DEF Advance, Continue
<1> HIDE DEF st
<1>9. /\ After(v, q)
      /\ \A l \in DOMAIN q.stack :
           \/ l \in DOMAIN st /\ l # Len(st) /\ q.stack[l] = st[l]
           \/ l = Len(st) /\ q.stack[l] = Tail(Inner(st)) /\ Tail(Inner(st)) # <<>>
      /\ Tail(Inner(st)) # <<>> =>
           q.stack # <<>> /\ At(q) = Head(Tail(Inner(st))) /\ Follows(Stmt(p), At(q))
      /\ Tail(Inner(st)) = <<>> => Ends(Stmt(p)) /\ (q.stack # <<>> => At(q).op # "delete_row")
  BY <1>1, <1>3, <1>4, <1>8, Advanced
<1> QED BY <1>1, <1>2, <1>3, <1>8, <1>9, Zenon DEF Executes, st

\* Every step of a process is one or the other.
LEMMA StepMoves ==
  ASSUME TypeInv, ReadyInv, ShapeInv, NEW p \in Procs, Step(p), NEW v, v = World'
  PROVE  \/ \E q : Passes(p, q) /\ UNCHANGED <<queue, drawn, nreq>>
         \/ \E q : Executes(p, q, v) /\ UNCHANGED <<drawn, nreq>>
<1>1. ~Idle(p) /\ (Rise(p) \/ Enter(p) \/ Unfold(p) \/ Execute(p))
  BY StepKinds
<1>2. CASE Rise(p)
  <2>1. UNCHANGED <<queue, drawn, nreq>>
    BY <1>2 DEF Rise
  <2> QED BY <1>1, <1>2, <2>1, RisePasses
<1>3. CASE Enter(p)
  <2>1. UNCHANGED <<queue, drawn, nreq>>
    BY <1>3 DEF Enter
  <2> QED BY <1>1, <1>3, <2>1, EnterPasses
<1>4. CASE Unfold(p)
  <2>1. UNCHANGED <<queue, drawn, nreq>>
    BY <1>4 DEF Unfold
  <2> QED BY <1>1, <1>4, <2>1, UnfoldPasses
<1>5. CASE Execute(p)
  <2>1. UNCHANGED <<drawn, nreq>>
    BY <1>5 DEF Execute
  <2> QED BY <1>1, <1>5, <2>1, ExecuteMoves
<1> QED BY <1>1, <1>2, <1>3, <1>4, <1>5

-----------------------------------------------------------------------------
(* The programs of the endpoints rely on nothing. *)

Easy(s) ==
  /\ s \in Statement /\ s.op \in {"call", "post", "need_result"}
  /\ s.op # "need_result" =>
       /\ s.req.method # "CreateMissionCots"
       /\ s.req.method \in {"SaveEnterpriseSyncData", "UpdateEnterpriseSyncData"} => s.req.u \notin Checklists
       /\ s.req.method = "PutMission" => s.req.m \notin Checklists

EasyProgram(f) == f \in Program /\ f # <<>> /\ \A i \in DOMAIN f : Easy(f[i])

LEMMA EasyFresh ==
  ASSUME NEW w, NEW f, EasyProgram(f)
  PROVE  Fresh(f) /\ ProgramReady(w, f, {})
<1>1. \A s : Easy(s) => /\ \A before : Ready(w, s, before, {})
                        /\ s.op # "delete_row" /\ Ends(s) /\ ~IsCreation(s)
                        /\ \A b : Easy(b) => Follows(s, b)
  BY DEF Easy, Ready, RequestReady, Ends, IsCreation, Follows
<1>2. /\ f \in Program /\ f # <<>> /\ DOMAIN f = 1..Len(f) /\ Len(f) \in Nat \ {0} /\ Head(f) = f[1]
      /\ 1 \in DOMAIN f /\ Len(f) \in DOMAIN f
  BY DEF EasyProgram, Program
<1>3. \A i \in DOMAIN f : Easy(f[i])
  BY DEF EasyProgram
<1>4. ProgramReady(w, f, {})
  BY <1>1, <1>3 DEF ProgramReady
<1>5. Shape(f)
  BY <1>1, <1>2, <1>3 DEF Shape
<1>6. Head(f).op # "delete_row"
  BY <1>1, <1>2, <1>3
<1>7. \A m \in Missions : ~Owes(f, m)
  BY <1>1, <1>2, <1>3 DEF Owes
<1> QED BY <1>2, <1>4, <1>5, <1>6, <1>7 DEF Fresh

LEMMA EasyTuples ==
  /\ \A a : Easy(a) => EasyProgram(<<a>>)
  /\ \A a, b : Easy(a) /\ Easy(b) => EasyProgram(<<a, b>>)
  /\ \A a, b, c : Easy(a) /\ Easy(b) /\ Easy(c) => EasyProgram(<<a, b, c>>)
<1>1. \A s : Easy(s) => s \in Statement
  BY DEF Easy
<1>2. ASSUME NEW a, Easy(a) PROVE EasyProgram(<<a>>)
  BY <1>1, <1>2 DEF EasyProgram, Program
<1>3. ASSUME NEW a, NEW b, Easy(a), Easy(b) PROVE EasyProgram(<<a, b>>)
  BY <1>1, <1>3 DEF EasyProgram, Program
<1>4. ASSUME NEW a, NEW b, NEW c, Easy(a), Easy(b), Easy(c) PROVE EasyProgram(<<a, b, c>>)
  BY <1>1, <1>4 DEF EasyProgram, Program
<1> QED BY <1>2, <1>3, <1>4

\* A request that needs nothing, called or posted.
LEMMA EasyRequest ==
  ASSUME NEW r \in Request, r.method # "CreateMissionCots",
         r.method \in {"SaveEnterpriseSyncData", "UpdateEnterpriseSyncData"} => r.u \notin Checklists,
         r.method = "PutMission" => r.m \notin Checklists
  PROVE  Easy(Call(r)) /\ Easy(Post(r))
<1>1. Call(r) \in Statement /\ Post(r) \in Statement
  BY MakeControl
<1>2. Call(r).op = "call" /\ Call(r).req = r /\ Post(r).op = "post" /\ Post(r).req = r
  BY DEF Call, Post
<1> QED BY <1>1, <1>2 DEF Easy

LEMMA EasyNeed == Easy(NeedResult)
BY MakeControl DEF Easy, NeedResult

LEMMA NoticeRequest ==
  ASSUME NEW kind \in Notices, NEW m \in Missions \cup {None}, NEW of \in Subjects \cup ExtUids
  PROVE  Easy(Post(Notify(kind, m, of)))
<1>1. Notify(kind, m, of) \in Request
  BY MakeRequest
<1>2. Notify(kind, m, of).method = "Notify"
  BY DEF Notify
<1> QED BY <1>1, <1>2, EasyRequest

LEMMA PutMissionEasy == \A f \in PutMissionRequest : EasyProgram(f)
<1> DEFINE f(m, c, r) == <<Call(PutMission(m, c, r)), Post(Notify("created", m, None))>>
<1>0. PutMissionRequest = {f(m, c, r) : m \in ClientMissions, c \in Users, r \in {"MISSION_SUBSCRIBER", None}}
  BY DEF PutMissionRequest
<1> HIDE DEF f
<1> SUFFICES ASSUME NEW m \in ClientMissions, NEW c \in Users, NEW r \in {"MISSION_SUBSCRIBER", None}
             PROVE  EasyProgram(f(m, c, r))
  BY <1>0
<1>1. m \in Missions /\ m \notin Checklists /\ c \in Clients /\ r \in Roles \cup {None}
  BY TakApiAssumption DEF Users, Roles
<1>2. PutMission(m, c, r) \in Request /\ PutMission(m, c, r).method = "PutMission" /\ PutMission(m, c, r).m = m
  BY <1>1, MakeRequest DEF PutMission
<1>3. Easy(Call(PutMission(m, c, r)))
  BY <1>1, <1>2, EasyRequest
<1>4. Easy(Post(Notify("created", m, None)))
  BY <1>1, NoticeRequest DEF Notices, Subjects
<1> QED BY <1>3, <1>4, EasyTuples DEF f

LEMMA SaveEasy ==
  ASSUME NEW x \in Packages, NEW zip \in BOOLEAN
  PROVE  Easy(Call(SaveEnterpriseSyncData(x, x, x, zip, 0)))
<1>1. x \in Objects /\ x \notin Checklists
  BY TakApiAssumption DEF Objects
<1>2. x \in Uids /\ x \in Data /\ x \in ContentOf(x)
  BY <1>1, Contained
<1>3. 0 \in 0..1
  OBVIOUS
<1>4. SaveEnterpriseSyncData(x, x, x, zip, 0) \in Request
  BY <1>2, <1>3, MakeRequest
<1>5. /\ SaveEnterpriseSyncData(x, x, x, zip, 0).method = "SaveEnterpriseSyncData"
      /\ SaveEnterpriseSyncData(x, x, x, zip, 0).u = x
  BY DEF SaveEnterpriseSyncData
<1> QED BY <1>1, <1>4, <1>5, EasyRequest

LEMMA UploadEasy == \A f \in UploadRequest : EasyProgram(f)
<1> SUFFICES ASSUME NEW x \in Packages
             PROVE  EasyProgram(<<Call(SaveEnterpriseSyncData(x, x, x, x \in DOMAIN InnerOf, 0))>>)
  BY DEF UploadRequest
<1>1. (x \in DOMAIN InnerOf) \in BOOLEAN
  OBVIOUS
<1>2. Easy(Call(SaveEnterpriseSyncData(x, x, x, x \in DOMAIN InnerOf, 0)))
  BY <1>1, SaveEasy, Zenon
<1> QED BY <1>2, EasyTuples

LEMMA ContentsEasy ==
  ASSUME NEW m \in ClientMissions, NEW hs \in Seq(Packages), hs # <<>>
  PROVE  Easy(Call(AddMissionContents(m, hs)))
<1>1. m \in Missions
  BY TakApiAssumption
<1>2. hs \in NonEmpty(Objects)
  BY DEF NonEmpty, Objects
<1>3. AddMissionContents(m, hs) \in Request /\ AddMissionContents(m, hs).method = "AddMissionContents"
  BY <1>1, <1>2, MakeRequest DEF AddMissionContents
<1> QED BY <1>3, EasyRequest

LEMMA AddMissionContentsEasy == \A f \in AddMissionContentsRequest : EasyProgram(f)
<1> DEFINE g(hs) == [i \in DOMAIN hs |-> Post(Notify("content", None, hs[i]))]
<1> DEFINE f(m, hs) == <<Call(AddMissionContents(m, hs))>> \o g(hs)
<1>0. AddMissionContentsRequest = {f(m, hs) : m \in ClientMissions, hs \in HashLists}
  BY DEF AddMissionContentsRequest
<1> HIDE DEF f
<1> SUFFICES ASSUME NEW m \in ClientMissions, NEW hs \in HashLists
             PROVE  EasyProgram(f(m, hs))
  BY <1>0
<1>1. hs \in Seq(Packages) /\ hs # <<>>
  BY TakApiAssumption
<1>2. Easy(Call(AddMissionContents(m, hs)))
  BY <1>1, ContentsEasy
<1>3. \A i \in DOMAIN hs : Easy(Post(Notify("content", None, hs[i])))
  <2> SUFFICES ASSUME NEW i \in DOMAIN hs PROVE Easy(Post(Notify("content", None, hs[i])))
    OBVIOUS
  <2>1. hs[i] \in Packages
    BY <1>1
  <2>2. hs[i] \in Subjects \cup ExtUids
    BY <2>1, TakApiAssumption DEF Subjects
  <2> QED BY <2>2, NoticeRequest DEF Notices
<1>4. DOMAIN hs = 1..Len(hs) /\ Len(hs) \in Nat \ {0}
  BY <1>1
<1>5. \A i \in DOMAIN hs : g(hs)[i] = Post(Notify("content", None, hs[i]))
  OBVIOUS
<1>6. \A i \in DOMAIN hs : g(hs)[i] \in Statement
  BY <1>3, <1>5 DEF Easy
<1>7. g(hs) \in Program /\ g(hs) # <<>> /\ DOMAIN g(hs) = DOMAIN hs
  <2>1. DOMAIN g(hs) = DOMAIN hs
    OBVIOUS
  <2>2. g(hs) = [i \in 1..Len(hs) |-> g(hs)[i]]
    BY <1>4
  <2>3. g(hs) \in Seq(Statement)
    BY <1>4, <1>6, <2>2, IsASeq
  <2> QED BY <1>4, <2>1, <2>3 DEF Program
<1> DEFINE G == g(hs)
           A == <<Call(AddMissionContents(m, hs))>>
<1>8. EasyProgram(A) /\ EasyProgram(G)
  BY <1>2, <1>3, <1>5, <1>7, EasyTuples DEF EasyProgram
<1> HIDE DEF G, A
<1>9. EasyProgram(A \o G)
  <2>1. A \in Program /\ A # <<>> /\ G \in Program /\ G # <<>>
        /\ (\A i \in DOMAIN A : Easy(A[i])) /\ (\A i \in DOMAIN G : Easy(G[i]))
    BY <1>8 DEF EasyProgram
  <2>2. /\ A \o G \in Program /\ A \o G # <<>>
        /\ \A i \in DOMAIN (A \o G) :
              \/ i \in DOMAIN A /\ (A \o G)[i] = A[i]
              \/ i - Len(A) \in DOMAIN G /\ i > Len(A) /\ (A \o G)[i] = G[i - Len(A)]
    BY <2>1, Concat
  <2> QED BY <2>1, <2>2 DEF EasyProgram
<1> QED BY <1>9 DEF A, G, f

LEMMA MissionPackageEasy == \A f \in MissionPackageRequest : EasyProgram(f)
<1> DEFINE f(m, x) == <<Call(SaveEnterpriseSyncData(x, x, x, TRUE, 0)), NeedResult,
                        Call(AddMissionContents(m, <<x>>))>>
<1>0. MissionPackageRequest = {f(m, x) : m \in ClientMissions, x \in DOMAIN InnerOf}
  BY DEF MissionPackageRequest
<1> HIDE DEF f
<1> SUFFICES ASSUME NEW m \in ClientMissions, NEW x \in DOMAIN InnerOf PROVE EasyProgram(f(m, x))
  BY <1>0
<1>1. x \in Packages
  BY TakApiAssumption
<1>2. Easy(Call(SaveEnterpriseSyncData(x, x, x, TRUE, 0)))
  <2>1. TRUE \in BOOLEAN
    OBVIOUS
  <2> QED BY <1>1, <2>1, SaveEasy, Zenon
<1>3. <<x>> \in Seq(Packages) /\ <<x>> # <<>>
  BY <1>1
<1>4. Easy(Call(AddMissionContents(m, <<x>>)))
  BY <1>3, ContentsEasy
<1> QED BY <1>2, <1>4, EasyNeed, EasyTuples DEF f

\* Methods that need nothing, whatever their parameters
LEMMA EasyMethod ==
  ASSUME NEW r \in Request,
         r.method \notin {"CreateMissionCots", "SaveEnterpriseSyncData", "UpdateEnterpriseSyncData", "PutMission"}
  PROVE  Easy(Call(r)) /\ Easy(Post(r)) /\ EasyProgram(<<Call(r)>>) /\ EasyProgram(<<Post(r)>>)
BY EasyRequest, EasyTuples

LEMMA AddLogEntryEasy ==
  ASSUME NewId \in Nat
  PROVE  \A f \in AddLogEntryRequest : EasyProgram(f)
<1> SUFFICES ASSUME NEW ms \in MissionLists
             PROVE  EasyProgram(<<Call([method |-> "AddMissionLog", l |-> NewId, ms |-> ms]), NeedResult,
                                  Post(Notify("log", None, NewId))>>)
  BY DEF AddLogEntryRequest
<1>1. ms \in Seq(Missions)
  BY TakApiAssumption
<1>2. [method |-> "AddMissionLog", l |-> NewId, ms |-> ms] \in Request
  BY <1>1, MakeEndpointRequest
<1>3. Easy(Call([method |-> "AddMissionLog", l |-> NewId, ms |-> ms]))
  BY <1>2, EasyMethod
<1>4. Easy(Post(Notify("log", None, NewId)))
  BY NoticeRequest DEF Notices, Subjects
<1> QED BY <1>3, <1>4, EasyNeed, EasyTuples

LEMMA LogEntriesEasy ==
  ASSUME nreq \in Nat
  PROVE  /\ \A f \in UpdateLogEntryRequest : EasyProgram(f)
         /\ \A f \in DeleteLogEntryRequest : EasyProgram(f)
<1>1. \A l \in 1..nreq : l \in Nat
  OBVIOUS
<1>2. \A m \in ClientMissions : <<m>> \in Seq(Missions)
  BY TakApiAssumption
<1>3. ASSUME NEW l \in 1..nreq, NEW m \in ClientMissions
      PROVE  EasyProgram(<<Call([method |-> "UpdateMissionLog", l |-> l, ms |-> <<m>>])>>)
  <2>1. [method |-> "UpdateMissionLog", l |-> l, ms |-> <<m>>] \in Request
    BY <1>1, <1>2, MakeEndpointRequest
  <2> QED BY <2>1, EasyMethod
<1>4. ASSUME NEW l \in 1..nreq
      PROVE  EasyProgram(<<Call([method |-> "DeleteMissionLog", l |-> l])>>)
  <2>1. [method |-> "DeleteMissionLog", l |-> l] \in Request
    BY <1>1, MakeEndpointRequest
  <2> QED BY <2>1, EasyMethod
<1> DEFINE f(l, m) == <<Call([method |-> "UpdateMissionLog", l |-> l, ms |-> <<m>>])>>
<1>5. UpdateLogEntryRequest = {f(l, m) : l \in 1..nreq, m \in ClientMissions}
  BY DEF UpdateLogEntryRequest
<1>6. \A l \in 1..nreq, m \in ClientMissions : EasyProgram(f(l, m))
  BY <1>3
<1> HIDE DEF f
<1>7. \A x \in UpdateLogEntryRequest : EasyProgram(x)
  BY <1>5, <1>6
<1>8. \A x \in DeleteLogEntryRequest : EasyProgram(x)
  BY <1>4 DEF DeleteLogEntryRequest
<1> QED BY <1>7, <1>8

LEMMA ParentsEasy ==
  /\ \A f \in AddParentRequest : EasyProgram(f)
  /\ \A f \in DeleteParentRequest : EasyProgram(f)
<1>1. ClientMissions \subseteq Missions
  BY TakApiAssumption
<1>3. ASSUME NEW m \in ClientMissions, NEW n \in ClientMissions
      PROVE  EasyProgram(<<Call([method |-> "AddChildToParent", child |-> m, parent |-> n])>>)
  <2>1. [method |-> "AddChildToParent", child |-> m, parent |-> n] \in Request
    BY <1>1, MakeEndpointRequest
  <2> QED BY <2>1, EasyMethod
<1>4. ASSUME NEW m \in ClientMissions
      PROVE  EasyProgram(<<Call([method |-> "DeleteParent", child |-> m])>>)
  <2>1. [method |-> "DeleteParent", child |-> m] \in Request
    BY <1>1, MakeEndpointRequest
  <2> QED BY <2>1, EasyMethod
<1> DEFINE f(m, n) == <<Call([method |-> "AddChildToParent", child |-> m, parent |-> n])>>
<1>5. AddParentRequest = {f(m, n) : m \in ClientMissions, n \in ClientMissions}
  BY DEF AddParentRequest
<1>6. \A m \in ClientMissions, n \in ClientMissions : EasyProgram(f(m, n))
  BY <1>3
<1> HIDE DEF f
<1>7. \A x \in AddParentRequest : EasyProgram(x)
  BY <1>5, <1>6
<1>8. \A x \in DeleteParentRequest : EasyProgram(x)
  BY <1>4 DEF DeleteParentRequest
<1> QED BY <1>7, <1>8

LEMMA SubscriptionsEasy ==
  /\ \A f \in SubscribeRequest : EasyProgram(f)
  /\ \A f \in UnsubscribeRequest : EasyProgram(f)
  /\ \A f \in InviteRequest : EasyProgram(f)
<1>1. ClientMissions \subseteq Missions /\ Users \subseteq Clients
  BY TakApiAssumption DEF Users
<1>2. ASSUME NEW m \in ClientMissions, NEW c \in Users
      PROVE  /\ EasyProgram(<<Call([method |-> "AddMissionSubscription", m |-> m, c |-> c])>>)
             /\ EasyProgram(<<Call([method |-> "DeleteMissionSubscription", m |-> m, c |-> c])>>)
             /\ EasyProgram(<<Call([method |-> "GetMission", m |-> m]), NeedResult,
                              Post([method |-> "SendInvitation", m |-> m, c |-> c])>>)
  <2>1. /\ [method |-> "AddMissionSubscription", m |-> m, c |-> c] \in Request
        /\ [method |-> "DeleteMissionSubscription", m |-> m, c |-> c] \in Request
        /\ [method |-> "GetMission", m |-> m] \in Request
        /\ [method |-> "SendInvitation", m |-> m, c |-> c] \in Request
    BY <1>1, MakeEndpointRequest
  <2>2. EasyProgram(<<Call([method |-> "AddMissionSubscription", m |-> m, c |-> c])>>)
    BY <2>1, EasyMethod
  <2>3. EasyProgram(<<Call([method |-> "DeleteMissionSubscription", m |-> m, c |-> c])>>)
    BY <2>1, EasyMethod
  <2>4. Easy(Call([method |-> "GetMission", m |-> m]))
    BY <2>1, EasyMethod
  <2>5. Easy(Post([method |-> "SendInvitation", m |-> m, c |-> c]))
    BY <2>1, EasyMethod
  <2> QED BY <2>2, <2>3, <2>4, <2>5, EasyNeed, EasyTuples
<1> DEFINE f(m, c) == <<Call([method |-> "AddMissionSubscription", m |-> m, c |-> c])>>
           g(m, c) == <<Call([method |-> "DeleteMissionSubscription", m |-> m, c |-> c])>>
           h(m, c) == <<Call([method |-> "GetMission", m |-> m]), NeedResult,
                        Post([method |-> "SendInvitation", m |-> m, c |-> c])>>
<1>3. SubscribeRequest = {f(m, c) : m \in ClientMissions, c \in Users}
  BY DEF SubscribeRequest
<1>4. UnsubscribeRequest = {g(m, c) : m \in ClientMissions, c \in Users}
  BY DEF UnsubscribeRequest
<1>5. InviteRequest = {h(m, c) : m \in ClientMissions, c \in Users}
  BY DEF InviteRequest
<1>6. \A m \in ClientMissions, c \in Users : EasyProgram(f(m, c)) /\ EasyProgram(g(m, c)) /\ EasyProgram(h(m, c))
  BY <1>2
<1> HIDE DEF f, g, h
<1>7. \A x \in SubscribeRequest : EasyProgram(x)
  BY <1>3, <1>6
<1>8. \A x \in UnsubscribeRequest : EasyProgram(x)
  BY <1>4, <1>6
<1>9. \A x \in InviteRequest : EasyProgram(x)
  BY <1>5, <1>6
<1> QED BY <1>7, <1>8, <1>9

LEMMA ExternalDataEasy ==
  ASSUME NewId \in Nat
  PROVE  \A f \in ExternalDataRequest : EasyProgram(f)
<1>1. ClientMissions \subseteq Missions
  BY TakApiAssumption
<1>2. ASSUME NEW m \in ClientMissions, NEW u \in ExtUids
      PROVE  EasyProgram(<<Call(AddMissionExternalData(m, NewId, u))>>)
  <2>1. AddMissionExternalData(m, NewId, u) \in Request
    BY <1>1, MakeRequest
  <2>2. AddMissionExternalData(m, NewId, u).method = "AddMissionExternalData"
    BY DEF AddMissionExternalData
  <2> QED BY <2>1, <2>2, EasyMethod
<1> DEFINE f(m, u) == <<Call(AddMissionExternalData(m, NewId, u))>>
<1>3. ExternalDataRequest = {f(m, u) : m \in ClientMissions, u \in ExtUids}
  BY DEF ExternalDataRequest
<1>4. \A m \in ClientMissions, u \in ExtUids : EasyProgram(f(m, u))
  BY <1>2
<1> HIDE DEF f
<1> QED BY <1>3, <1>4

LEMMA ObjectsEasy ==
  /\ \A f \in PutToolRequest : EasyProgram(f)
  /\ \A f \in DeletePackageRequest : EasyProgram(f)
  /\ \A f \in TemplateRequest : EasyProgram(f)
  /\ \A k \in Checklists : \A f \in StartChecklistRequest(k) : EasyProgram(f)
<1>1. 1 \in 0..1
  OBVIOUS
<1>2. ASSUME NEW x \in Packages
      PROVE  EasyProgram(<<Post([method |-> "UpdateEnterpriseSyncMetaData", u |-> x, p |-> 1])>>)
  <2>1. [method |-> "UpdateEnterpriseSyncMetaData", u |-> x, p |-> 1] \in Request
    BY <1>1, MakeEndpointRequest
  <2> QED BY <2>1, EasyMethod
<1>3. ASSUME NEW x \in Packages
      PROVE  EasyProgram(<<Call([method |-> "DeleteEnterpriseSyncData", h |-> x])>>)
  <2>1. [method |-> "DeleteEnterpriseSyncData", h |-> x] \in Request
    BY MakeEndpointRequest
  <2> QED BY <2>1, EasyMethod
<1>4. ASSUME NEW t \in Templates
      PROVE  EasyProgram(<<Post([method |-> "CreateTemplate", t |-> t])>>)
  <2>1. [method |-> "CreateTemplate", t |-> t] \in Request
    BY MakeEndpointRequest
  <2> QED BY <2>1, EasyMethod
<1>5. ASSUME NEW k \in Checklists, NEW t \in Templates
      PROVE  EasyProgram(<<Call([method |-> "StartChecklist", k |-> k, t |-> t])>>)
  <2>1. [method |-> "StartChecklist", k |-> k, t |-> t] \in Request
    BY MakeEndpointRequest
  <2> QED BY <2>1, EasyMethod
<1>6. \A f \in PutToolRequest : EasyProgram(f)
  BY <1>2 DEF PutToolRequest
<1>7. \A f \in DeletePackageRequest : EasyProgram(f)
  BY <1>3 DEF DeletePackageRequest
<1>8. \A f \in TemplateRequest : EasyProgram(f)
  BY <1>4 DEF TemplateRequest
<1>9. \A k \in Checklists : \A f \in StartChecklistRequest(k) : EasyProgram(f)
  BY <1>5 DEF StartChecklistRequest
<1> QED BY <1>6, <1>7, <1>8, <1>9

LEMMA ChecklistsEasy ==
  ASSUME TypeInv, NewId \in Nat
  PROVE  /\ \A f \in UpdateTaskRequest : EasyProgram(f)
         /\ \A f \in ChecklistMissionRequest : EasyProgram(f)
<1>1. ClientMissions \subseteq Missions /\ Checklists \subseteq ExtUids
  BY TakApiAssumption
<1>2. \A k \in Started : k \in Checklists /\ DOMAIN files[k] \subseteq Tasks
  <2> SUFFICES ASSUME NEW k \in Started PROVE k \in Checklists /\ DOMAIN files[k] \subseteq Tasks
    OBVIOUS
  <2>1. k \in Checklists /\ files[k] # NoData
    BY DEF Started
  <2>2. k \in Uids /\ ContentOf(k) = Doc
    BY <2>1, Contained
  <2>3. files[k] \in Doc
    BY <2>1, <2>2 DEF TypeInv, StoreType
  <2> QED BY <2>1, <2>3, Contained
<1>3. ASSUME NEW k \in Started, NEW t \in DOMAIN files[k], NEW v \in 1..MaxVersion
      PROVE  EasyProgram(<<Call([method |-> "UpdateChecklistTask", k |-> k, t |-> t, v |-> v])>>)
  <2>1. k \in Checklists /\ t \in Tasks /\ v \in 0..MaxVersion
    BY <1>2
  <2>2. [method |-> "UpdateChecklistTask", k |-> k, t |-> t, v |-> v] \in Request
    BY <2>1, MakeEndpointRequest
  <2> QED BY <2>2, EasyMethod
<1>4. ASSUME NEW k \in Started, NEW m \in ClientMissions
      PROVE  EasyProgram(<<Call([method |-> "AddChecklistToMission", k |-> k, m |-> m, e |-> NewId]),
                           Post(Notify("external", m, k))>>)
  <2>1. [method |-> "AddChecklistToMission", k |-> k, m |-> m, e |-> NewId] \in Request
    BY <1>1, <1>2, MakeEndpointRequest
  <2>2. Easy(Call([method |-> "AddChecklistToMission", k |-> k, m |-> m, e |-> NewId]))
    BY <2>1, EasyMethod
  <2>3. Easy(Post(Notify("external", m, k)))
    <3>1. m \in Missions \cup {None} /\ k \in Subjects \cup ExtUids
      BY <1>1, <1>2
    <3> QED BY <3>1, NoticeRequest DEF Notices
  <2> QED BY <2>2, <2>3, EasyTuples
<1> DEFINE f(k, t, v) == <<Call([method |-> "UpdateChecklistTask", k |-> k, t |-> t, v |-> v])>>
           g(k, m) == <<Call([method |-> "AddChecklistToMission", k |-> k, m |-> m, e |-> NewId]),
                        Post(Notify("external", m, k))>>
<1>5. UpdateTaskRequest = UNION {{f(k, t, v) : t \in DOMAIN files[k], v \in 1..MaxVersion} : k \in Started}
  BY DEF UpdateTaskRequest
<1>6. ChecklistMissionRequest = {g(k, m) : k \in Started, m \in ClientMissions}
  BY DEF ChecklistMissionRequest
<1>7. \A k \in Started : \A t \in DOMAIN files[k], v \in 1..MaxVersion : EasyProgram(f(k, t, v))
  BY <1>3
<1>8. \A k \in Started, m \in ClientMissions : EasyProgram(g(k, m))
  BY <1>4
<1> HIDE DEF f, g
<1>9. \A x \in UpdateTaskRequest : EasyProgram(x)
  BY <1>5, <1>7
<1>10. \A x \in ChecklistMissionRequest : EasyProgram(x)
  BY <1>6, <1>8
<1> QED BY <1>9, <1>10

\* An idle process starts a program that relies on nothing.
LEMMA StartPasses ==
  ASSUME NEW p \in Procs, Idle(p), NEW f, Fresh(f), ProgramReady(World, f, {}),
         NEW progs, progs = <<f>>, Resume(p, progs, TRUE), UNCHANGED stores
  PROVE  \E q : Passes(p, q)
<1>1. TRUE \in BOOLEAN
  OBVIOUS
<1>2. PICK q : ResumeTo(progs, TRUE, q) /\ proc' = [proc EXCEPT ![p] = q]
  BY Resumed, Zenon
<1>3. /\ After(World, q)
      /\ \A l \in DOMAIN q.stack : \A m \in Missions : ~Owes(q.stack[l], m)
      /\ q.stack # <<>> => At(q).op # "delete_row"
  BY <1>1, <1>2, Begun, Zenon
<1> QED BY <1>2, <1>3, Zenon DEF Passes

\* What the steps that come from outside do to the counters
Counts == drawn' \subseteq Checklists /\ nreq' \in 0..MaxRequests

LEMMA AcceptPasses ==
  ASSUME TypeInv, NEW a \in Apis, nreq < MaxRequests, Idle(a),
         NEW e, NEW progs, NEW ks, Accept(a, e, progs, ks), ks \subseteq Checklists,
         \A f \in progs : EasyProgram(f)
  PROVE  (\E q : Passes(a, q)) /\ UNCHANGED queue /\ Counts
<1>1. Idle(a) /\ UNCHANGED <<stores, queue>> /\ nreq < MaxRequests /\ nreq' = nreq + 1 /\ drawn' = drawn \cup ks
  BY DEF Accept
<1>2. PICK f \in progs : Resume(a, <<f>>, TRUE)
  BY DEF Accept
<1>3. Fresh(f) /\ ProgramReady(World, f, {})
  BY EasyFresh
<1>4. a \in Procs
  BY DEF Procs
<1>5. \E q : Passes(a, q)
  <2> DEFINE s == <<f>>
  <2>1. s = <<f>> /\ Resume(a, s, TRUE)
    BY <1>2
  <2> HIDE DEF s
  <2> QED BY <1>1, <1>3, <1>4, <2>1, StartPasses, Zenon
<1>6. Counts
  <2>1. nreq \in 0..MaxRequests /\ drawn \subseteq Checklists /\ MaxRequests \in Nat
    BY TakApiAssumption DEF TypeInv, TypeOK
  <2> QED BY <1>1, <2>1 DEF Counts
<1> QED BY <1>1, <1>5, <1>6

LEMMA ServePasses ==
  ASSUME TypeInv, NEW a \in Apis, Serve(a)
  PROVE  (\E q : Passes(a, q)) /\ UNCHANGED queue /\ Counts
<1>0. nreq < MaxRequests /\ Idle(a)
  BY DEF Serve
<1>1. nreq \in Nat /\ NewId \in Nat
  BY TakApiAssumption DEF TypeInv, TypeOK, NewId
<1>2. {} \subseteq Checklists
  OBVIOUS
<1>3. ASSUME NEW e, NEW progs, Receive(a, e, progs), \A f \in progs : EasyProgram(f)
      PROVE  (\E q : Passes(a, q)) /\ UNCHANGED queue /\ Counts
  BY <1>0, <1>2, <1>3, AcceptPasses DEF Receive
<1>4. CASE StartChecklist(a)
  <2>1. PICK k : /\ k = CHOOSE x \in Checklists : x \notin drawn
                 /\ Accept(a, "StartChecklist", StartChecklistRequest(k), {k})
    BY <1>4 DEF StartChecklist
  <2>2. k \in Checklists
    <3>1. drawn \subseteq Checklists /\ drawn # Checklists
      BY <1>4 DEF StartChecklist, TypeInv, TypeOK
    <3>2. \E x \in Checklists : x \notin drawn
      BY <3>1
    <3> QED BY <2>1, <3>2
  <2>3. {k} \subseteq Checklists
    BY <2>2
  <2> QED BY <1>0, <2>1, <2>2, <2>3, ObjectsEasy, AcceptPasses
<1>5. CASE \/ Receive(a, "PutMission", PutMissionRequest)
           \/ Receive(a, "AddMissionContents", AddMissionContentsRequest)
           \/ Receive(a, "MissionPackage", MissionPackageRequest)
           \/ Receive(a, "Upload", UploadRequest)
  BY <1>3, <1>5, PutMissionEasy, AddMissionContentsEasy, MissionPackageEasy, UploadEasy
<1>6. CASE \/ Receive(a, "AddLogEntry", AddLogEntryRequest)
           \/ Receive(a, "UpdateLogEntry", UpdateLogEntryRequest)
           \/ Receive(a, "DeleteLogEntry", DeleteLogEntryRequest)
           \/ Receive(a, "AddParent", AddParentRequest)
           \/ Receive(a, "DeleteParent", DeleteParentRequest)
  BY <1>1, <1>3, <1>6, AddLogEntryEasy, LogEntriesEasy, ParentsEasy
<1>7. CASE \/ Receive(a, "Subscribe", SubscribeRequest)
           \/ Receive(a, "Unsubscribe", UnsubscribeRequest)
           \/ Receive(a, "Invite", InviteRequest)
           \/ Receive(a, "ExternalData", ExternalDataRequest)
  BY <1>1, <1>3, <1>7, SubscriptionsEasy, ExternalDataEasy
<1>8. CASE \/ Receive(a, "PutTool", PutToolRequest)
           \/ Receive(a, "DeletePackage", DeletePackageRequest)
           \/ Receive(a, "Template", TemplateRequest)
           \/ Receive(a, "UpdateTask", UpdateTaskRequest)
           \/ Receive(a, "ChecklistMission", ChecklistMissionRequest)
  BY <1>1, <1>3, <1>8, ObjectsEasy, ChecklistsEasy
<1> QED BY <1>4, <1>5, <1>6, <1>7, <1>8 DEF Serve

LEMMA RunBody ==
  ASSUME NEW p, NEW outer, NEW r, Run(p, outer, r)
  PROVE  \E f : IsBody(r, f) /\ Resume(p, Append(outer, f), TRUE)
BY Zenon DEF Run, IsBody

LEMMA JobPasses ==
  ASSUME TypeInv, ReadyInv, NEW w \in Workers, TakeJob(w)
  PROVE  /\ \E q : Passes(w, q)
         /\ \E job \in DOMAIN queue : queue' = Without(queue, job)
         /\ UNCHANGED <<drawn, nreq>>
<1>1. Idle(w) /\ UNCHANGED stores /\ UNCHANGED <<drawn, nreq>>
  BY DEF TakeJob
<1>2. PICK job \in DOMAIN queue : queue' = Without(queue, job) /\ Run(w, <<>>, job)
  BY DEF TakeJob
<1>3. job \in Request /\ RequestReady(World, job, {}, {})
  BY DEF TypeInv, ReadyInv
<1>4. PICK f : IsBody(job, f) /\ Resume(w, Append(<<>>, f), TRUE)
  BY <1>2, RunBody
<1>5. Fresh(f) /\ ProgramReady(World, f, {})
  BY <1>3, <1>4, BodyFresh
<1>6. w \in Procs
  BY DEF Procs
<1> DEFINE s == Append(<<>>, f)
<1>7. s = <<f>>
  OBVIOUS
<1>8. Resume(w, s, TRUE)
  BY <1>4
<1> HIDE DEF s
<1>9. \E q : Passes(w, q)
  BY <1>1, <1>5, <1>6, <1>7, <1>8, StartPasses, Zenon
<1> QED BY <1>1, <1>2, <1>9

-----------------------------------------------------------------------------
(* Readiness and shape are kept. *)

LEMMA ReadyLater ==
  ASSUME NEW w, NEW v, Grows(w, v), NEW st, StackReady(w, st)
  PROVE  StackReady(v, st)
<1> SUFFICES ASSUME NEW n \in DOMAIN st, NEW i \in DOMAIN st[n]
             PROVE  Ready(v, st[n][i], Before(st[n], i), Above(st, n))
  BY DEF StackReady, ProgramReady
<1>1. Ready(w, st[n][i], Before(st[n], i), Above(st, n))
  BY DEF StackReady, ProgramReady
<1> QED BY <1>1, Monotone

LEMMA ProcsAfter ==
  ASSUME TypeInv, ReadyInv, ShapeInv, NEW p \in Procs, NEW q, proc' = [proc EXCEPT ![p] = q],
         NEW v, After(v, q), Grows(World, v)
  PROVE  /\ ProcType' /\ ShapeInv' /\ DOMAIN proc' = Procs
         /\ \A r \in Procs : StackReady(v, proc'[r].stack)
         /\ proc'[p] = q /\ \A r \in Procs : r # p => proc'[r] = proc[r]
<1>1. /\ proc \in [Procs -> [stack : Seq(Program), ok : BOOLEAN]]
      /\ \A r \in Procs : proc[r].stack # <<>> => proc[r].stack[Len(proc[r].stack)] # <<>>
  BY DEF TypeInv, ProcType, Top
<1>2. /\ q \in [stack : Seq(Program), ok : BOOLEAN] /\ StackReady(v, q.stack) /\ StackShape(q.stack)
      /\ q.stack # <<>> => q.stack[Len(q.stack)] # <<>>
  BY DEF After, StackGood
<1>3. proc'[p] = q /\ \A r \in Procs : r # p => proc'[r] = proc[r]
  BY <1>1
<1>4. proc' \in [Procs -> [stack : Seq(Program), ok : BOOLEAN]]
  BY <1>1, <1>2
<1>5. \A r \in Procs : proc'[r].stack # <<>> => proc'[r].stack[Len(proc'[r].stack)] # <<>>
  BY <1>1, <1>2, <1>3, Zenon
<1>6. ProcType'
  BY <1>4, <1>5 DEF ProcType, Top
<1>7. ShapeInv'
  BY <1>2, <1>3 DEF ShapeInv
<1>8. \A r \in Procs : StackReady(v, proc'[r].stack)
  BY <1>2, <1>3, ReadyLater DEF ReadyInv
<1> QED BY <1>3, <1>4, <1>6, <1>7, <1>8

LEMMA PassesInv ==
  ASSUME TypeInv, ReadyInv, ShapeInv, NEW p \in Procs, NEW q, Passes(p, q),
         \A r \in DOMAIN queue' : r \in Request /\ RequestReady(World, r, {}, {})
  PROVE  ProcType' /\ ShapeInv' /\ ReadyInv' /\ (DOMAIN queue \subseteq Request)'
<1>1. UNCHANGED stores /\ proc' = [proc EXCEPT ![p] = q] /\ After(World, q)
  BY DEF Passes
<1>2. Grows(World, World)
  BY DEF Grows
<1>3. ProcType' /\ ShapeInv' /\ \A r \in Procs : StackReady(World, proc'[r].stack)
  BY <1>1, <1>2, ProcsAfter
<1>4. World' = World
  BY <1>1 DEF World, stores, esVars, mVars, xVars
<1>5. StoresRight'
  <2>1. UNCHANGED <<files, tasks, missions, changes, cots, cotStore, published>>
    BY <1>1 DEF stores, esVars, mVars, xVars
  <2>2. StoresRight
    BY DEF ReadyInv
  <2> QED BY <1>4, <2>1, <2>2 DEF StoresRight, MissionCotsResolve, DocumentsComplete, Exists
<1>6. ReadyInv'
  BY <1>3, <1>4, <1>5 DEF ReadyInv
<1> QED BY <1>3, <1>6

LEMMA ExecutesInv ==
  ASSUME TypeInv, ReadyInv, ShapeInv, NEW p \in Procs, NEW q, NEW v, v = World', Executes(p, q, v)
  PROVE  ProcType' /\ ShapeInv' /\ ReadyInv' /\ (DOMAIN queue \subseteq Request)'
<1> DEFINE h == Stmt(p)
<1>1. h \in Statement /\ Ready(World, h, {}, {}) /\ Effect(h)
      /\ proc' = [proc EXCEPT ![p] = q] /\ After(v, q) /\ Grows(World, v)
  BY DEF Executes
<1>2. MissionCotsResolve /\ DocumentsComplete
  BY DEF ReadyInv, StoresRight
<1>3. ProcType' /\ ShapeInv' /\ \A r \in Procs : StackReady(v, proc'[r].stack)
  BY <1>1, ProcsAfter
<1> HIDE DEF h
<1>4. \A r \in DOMAIN queue' : r \in Request /\ RequestReady(v, r, {}, {})
  BY <1>1, EffectQueue
<1>5. MissionCotsResolve'
  BY <1>1, <1>2, EffectCots
<1>6. DocumentsComplete'
  BY <1>1, <1>2, EffectDocuments
<1>7. \A i \in DOMAIN changes' :
        changes'[i].mission # None => HeldReady(v, changes'[i].mission, changes'[i].kind, changes'[i].of, {})
  BY <1>1, EffectChanges
<1>8. \A n \in published' : n.kind \in {"content", "cot"} => <<n.mission, n.kind, n.of>> \in v.held
  BY <1>1, EffectPublished
<1>9. ReadyInv'
  BY <1>3, <1>4, <1>5, <1>6, <1>7, <1>8 DEF ReadyInv, StoresRight
<1> QED BY <1>3, <1>4, <1>9

-----------------------------------------------------------------------------
(* Types of the stores. *)

LEMMA BagTypes ==
  /\ IsABag(EmptyBag) /\ DOMAIN EmptyBag = {}
  /\ \A B, x : IsABag(B) => IsABag(With(B, x))
  /\ \A B, x : IsABag(B) /\ x \in DOMAIN B =>
       IsABag(Without(B, x)) /\ DOMAIN Without(B, x) \subseteq DOMAIN B
<1>1. IsABag(EmptyBag) /\ DOMAIN EmptyBag = {}
  BY DEF IsABag, EmptyBag, SetToBag
<1>2. ASSUME NEW B, NEW x, IsABag(B) PROVE IsABag(With(B, x))
  BY <1>2 DEF IsABag, With, SetToBag, (+)
<1>3. ASSUME NEW B, NEW x, IsABag(B), x \in DOMAIN B
      PROVE  IsABag(Without(B, x)) /\ DOMAIN Without(B, x) \subseteq DOMAIN B
  BY <1>3 DEF IsABag, Without, SetToBag, (-)
<1> QED BY <1>1, <1>2, <1>3

\* RemoveAt takes one element out and moves the later ones down.
LEMMA Removed ==
  ASSUME NEW S, NEW s \in Seq(S), NEW i \in DOMAIN s
  PROVE  /\ RemoveAt(s, i) \in Seq(S) /\ Len(RemoveAt(s, i)) = Len(s) - 1
         /\ \A j \in 1..(Len(s) - 1) : RemoveAt(s, i)[j] = IF j < i THEN s[j] ELSE s[j+1]
<1>1. Len(s) \in Nat /\ i \in 1..Len(s) /\ DOMAIN s = 1..Len(s) /\ i - 1 \in Int /\ i + 1 \in Int
      /\ \A j \in 1..Len(s) : s[j] \in S
  OBVIOUS
<1> DEFINE a == SubSeq(s, 1, i - 1)
           b == SubSeq(s, i + 1, Len(s))
<1>2. a \in Seq(S) /\ Len(a) = i - 1 /\ \A j \in 1..(i - 1) : a[j] = s[j]
  <2>1. \A j \in 1..(i - 1) : s[j] \in S
    BY <1>1
  <2>2. /\ a \in Seq(S) /\ Len(a) = IF 1 <= i - 1 THEN (i - 1) - 1 + 1 ELSE 0
        /\ \A j \in 1..((i - 1) - 1 + 1) : a[j] = s[1 + j - 1]
    BY <1>1, <2>1, SubSeqProperties
  <2> QED BY <1>1, <2>2
<1>3. b \in Seq(S) /\ Len(b) = Len(s) - i /\ \A j \in 1..(Len(s) - i) : b[j] = s[i + j]
  <2>1. \A j \in (i + 1)..Len(s) : s[j] \in S
    BY <1>1
  <2>2. /\ b \in Seq(S) /\ Len(b) = IF i + 1 <= Len(s) THEN Len(s) - (i + 1) + 1 ELSE 0
        /\ \A j \in 1..(Len(s) - (i + 1) + 1) : b[j] = s[(i + 1) + j - 1]
    BY <1>1, <2>1, SubSeqProperties
  <2> QED BY <1>1, <2>2
<1> DEFINE c == a \o b
<1>4. RemoveAt(s, i) = c
  BY DEF RemoveAt
<1> HIDE DEF a, b
<1>5. /\ c \in Seq(S) /\ Len(c) = Len(a) + Len(b)
      /\ \A j \in 1..(Len(a) + Len(b)) : c[j] = IF j <= Len(a) THEN a[j] ELSE b[j - Len(a)]
  BY <1>2, <1>3, ConcatProperties
<1> HIDE DEF c
<1>6. ASSUME NEW j \in 1..(Len(s) - 1) PROVE c[j] = IF j < i THEN s[j] ELSE s[j+1]
  <2>1. j \in 1..(Len(a) + Len(b)) /\ c[j] = IF j <= i - 1 THEN a[j] ELSE b[j - (i - 1)]
    BY <1>1, <1>2, <1>3, <1>5
  <2>2. CASE j < i
    <3>1. j \in 1..(i - 1) /\ j <= i - 1
      BY <1>1, <2>2
    <3> QED BY <1>2, <2>1, <2>2, <3>1
  <2>3. CASE ~(j < i)
    <3>1. j - (i - 1) \in 1..(Len(s) - i) /\ i + (j - (i - 1)) = j + 1 /\ ~(j <= i - 1)
      BY <1>1, <2>3
    <3>2. b[j - (i - 1)] = s[j + 1]
      BY <1>3, <3>1
    <3> QED BY <2>1, <2>3, <3>1, <3>2
  <2> QED BY <2>2, <2>3
<1> QED BY <1>1, <1>2, <1>3, <1>4, <1>5, <1>6

Subscription == [id : Nat, mission : Missions, client : Clients, role : Roles \cup {None}]

Invitation == [mission : Missions, sub : Nat \cup {None}]

\* The commits of the mission tables keep their types.
LEMMA CreateMissionType ==
  ASSUME MTypeOK, NEW m \in Missions, NEW role \in Roles \cup {None}, create_mission(m, role)
  PROVE  MTypeOK'
BY DEF MTypeOK, create_mission

LEMMA CreateSubscriptionType ==
  ASSUME MTypeOK, NEW m \in Missions, NEW c \in Clients, NEW role \in Roles \cup {None},
         create_subscription(m, c, role)
  PROVE  MTypeOK'
<1>1. subs \in Seq(Subscription)
  BY DEF MTypeOK, Subscription
<1>2. NextSubId \in Nat
  <2>1. CASE subs = <<>>
    BY <2>1 DEF NextSubId
  <2>2. CASE subs # <<>>
    <3>1. subs[Len(subs)] \in Subscription
      BY <1>1, <2>2
    <3>2. subs[Len(subs)].id \in Nat
      BY <3>1 DEF Subscription
    <3> QED BY <2>2, <3>2 DEF NextSubId, Last
  <2> QED BY <2>1, <2>2
<1> DEFINE x == [id |-> NextSubId, mission |-> m, client |-> c, role |-> role]
<1>3. x \in Subscription
  BY <1>2 DEF Subscription
<1>4. subs' = Append(subs, x)
  BY DEF create_subscription
<1> HIDE DEF x
<1>5. subs' \in Seq(Subscription)
  BY <1>1, <1>3, <1>4
<1> QED BY <1>5 DEF MTypeOK, create_subscription, Subscription

LEMMA DeleteSubscriptionType ==
  ASSUME MTypeOK, NEW m, NEW c, delete_subscription(m, c)
  PROVE  MTypeOK'
<1>1. subs \in Seq(Subscription) /\ invites \in Seq(Invitation)
  BY DEF MTypeOK, Subscription, Invitation
<1>2. PICK i \in SubOf(m, c) :
        /\ subs' = RemoveAt(subs, i)
        /\ invites' = [j \in DOMAIN invites |->
                         IF invites[j].sub = subs[i].id THEN [invites[j] EXCEPT !.sub = None]
                                                        ELSE invites[j]]
  BY DEF delete_subscription
<1>3. i \in DOMAIN subs
  BY DEF SubOf
<1>4. subs' \in Seq(Subscription)
  BY <1>1, <1>2, <1>3, Removed
<1>5. invites' \in Seq(Invitation)
  <2>1. DOMAIN invites = 1..Len(invites) /\ Len(invites) \in Nat
    BY <1>1
  <2>2. \A x \in Invitation : [x EXCEPT !.sub = None] \in Invitation
    BY DEF Invitation
  <2>3. \A j \in 1..Len(invites) : invites'[j] \in Invitation
    BY <1>1, <1>2, <2>1, <2>2
  <2>4. invites' = [j \in 1..Len(invites) |-> invites'[j]]
    BY <1>2, <2>1
  <2> QED BY <2>1, <2>3, <2>4, IsASeq
<1> QED BY <1>4, <1>5 DEF MTypeOK, delete_subscription, Subscription, Invitation

LEMMA CreateInvitationType ==
  ASSUME MTypeOK, NEW m \in Missions, NEW c, NEW i \in SubOf(m, c), create_invitation(m, subs[i].id)
  PROVE  MTypeOK'
<1>1. subs \in Seq(Subscription) /\ invites \in Seq(Invitation)
  BY DEF MTypeOK, Subscription, Invitation
<1>2. subs[i] \in Subscription
  BY <1>1 DEF SubOf
<1>3. subs[i].id \in Nat
  BY <1>2 DEF Subscription
<1> DEFINE x == [mission |-> m, sub |-> subs[i].id]
<1>4. x \in Invitation
  BY <1>3 DEF Invitation
<1>5. invites' = Append(invites, x)
  BY DEF create_invitation
<1> HIDE DEF x
<1>6. invites' \in Seq(Invitation)
  BY <1>1, <1>4, <1>5
<1> QED BY <1>6 DEF MTypeOK, create_invitation, Invitation

LEMMA ContentTypes ==
  ASSUME MTypeOK, NEW m \in Missions, NEW x \in Objects
  PROVE  create_mission_content(m, x) \/ update_mission(m, x) => MTypeOK'
<1>1. x \in Contents
  BY Contained
<1> DEFINE R == [id : Contents, mission : Missions, linked : BOOLEAN]
<1>2. CASE create_mission_content(m, x)
  <2>1. [id |-> x, mission |-> m, linked |-> FALSE] \in R
    BY <1>1
  <2>2. contents' \subseteq R
    BY <1>2, <2>1 DEF MTypeOK, create_mission_content
  <2> QED BY <1>2, <2>2 DEF MTypeOK, create_mission_content
<1>3. CASE update_mission(m, x)
  <2>1. \A r \in R : [r EXCEPT !.linked = TRUE] \in R
    OBVIOUS
  <2>2. \A r \in contents : r \in R
    BY DEF MTypeOK
  <2>3. contents' = {IF <<r.id, r.mission>> = <<x, m>> THEN [r EXCEPT !.linked = TRUE] ELSE r : r \in contents}
    BY <1>3 DEF update_mission
  <2> HIDE DEF R
  <2>4. contents' \subseteq R
    BY <2>1, <2>2, <2>3
  <2> QED BY <1>3, <2>4 DEF MTypeOK, update_mission, R
<1> QED BY <1>2, <1>3

LEMMA ChangeTypes ==
  ASSUME MTypeOK, NEW type \in {"CREATE_MISSION", "ADD_CONTENT"}, NEW m \in Missions,
         NEW kind \in Kinds, NEW of \in Subjects, create_mission_change(type, m, kind, of)
  PROVE  MTypeOK'
<1> DEFINE x == [type |-> type, kind |-> kind, of |-> of, mission |-> IF Exists(m) THEN m ELSE None]
<1>1. changes \in Seq(Change)
  BY DEF MTypeOK
<1>2. x \in Change
  BY DEF Change, Kinds, Subjects
<1>3. changes' = Append(changes, x)
  BY DEF create_mission_change
<1> HIDE DEF x
<1>4. changes' \in Seq(Change)
  BY <1>1, <1>2, <1>3
<1> QED BY <1>4 DEF MTypeOK, create_mission_change

LEMMA CotAndExternalTypes ==
  ASSUME MTypeOK, NEW m \in Missions
  PROVE  /\ \A c \in Cots : create_mission_cot(m, c) => MTypeOK'
         /\ \A e \in Nat, u \in ExtUids : add_external_data(m, e, u) => MTypeOK'
<1>1. ASSUME NEW c \in Cots, create_mission_cot(m, c) PROVE MTypeOK'
  <2>1. cots' \subseteq Cots \X Missions
    BY <1>1 DEF MTypeOK, create_mission_cot
  <2> QED BY <1>1, <2>1 DEF MTypeOK, create_mission_cot
<1>2. ASSUME NEW e \in Nat, NEW u \in ExtUids, add_external_data(m, e, u) PROVE MTypeOK'
  <2>1. ext' \subseteq [id : Nat, uid : ExtUids, mission : Missions]
    BY <1>2 DEF MTypeOK, add_external_data
  <2> QED BY <1>2, <2>1 DEF MTypeOK, add_external_data
<1> QED BY <1>1, <1>2

LEMMA LogTypes ==
  ASSUME MTypeOK, NEW l \in Nat
  PROVE  /\ \A ms \in Seq(Missions) : create_log(l, ms) \/ update_log(l, ms) => MTypeOK'
         /\ delete_mission_log(l) => MTypeOK'
<1> DEFINE R == (Nat \cup {None}) \X Missions
<1>1. mlogs \in Seq(R) /\ Len(mlogs) \in Nat /\ DOMAIN mlogs = 1..Len(mlogs)
  BY DEF MTypeOK
<1>2. ASSUME NEW ms \in Seq(Missions), create_log(l, ms) \/ update_log(l, ms) PROVE MTypeOK'
  <2> DEFINE g == [i \in DOMAIN ms |-> <<l, ms[i]>>]
  <2>1. mlogs' = mlogs \o g
    BY <1>2 DEF create_log, update_log
  <2>2. DOMAIN ms = 1..Len(ms) /\ Len(ms) \in Nat
    OBVIOUS
  <2>3. \A i \in 1..Len(ms) : <<l, ms[i]>> \in R
    OBVIOUS
  <2> HIDE DEF R
  <2>4. g \in Seq(R)
    BY <2>2, <2>3, IsASeq
  <2> HIDE DEF g
  <2>5. mlogs' \in Seq(R)
    BY <1>1, <2>1, <2>4, ConcatProperties
  <2>6. logs' \subseteq Nat
    BY <1>2 DEF MTypeOK, create_log, update_log
  <2> QED BY <1>2, <2>5, <2>6 DEF MTypeOK, create_log, update_log, R
<1>3. ASSUME delete_mission_log(l) PROVE MTypeOK'
  <2>1. mlogs' = [i \in DOMAIN mlogs |-> IF mlogs[i][1] = l THEN <<None, mlogs[i][2]>> ELSE mlogs[i]]
    BY <1>3 DEF delete_mission_log
  <2>2. \A x \in R : <<None, x[2]>> \in R
    OBVIOUS
  <2> HIDE DEF R
  <2>3. \A i \in 1..Len(mlogs) : mlogs'[i] \in R
    BY <1>1, <2>1, <2>2
  <2>4. mlogs' = [i \in 1..Len(mlogs) |-> mlogs'[i]]
    BY <1>1, <2>1
  <2>5. mlogs' \in Seq(R)
    BY <1>1, <2>3, <2>4, IsASeq
  <2> QED BY <1>3, <2>5 DEF MTypeOK, delete_mission_log, R
<1> QED BY <1>2, <1>3

LEMMA RelationTypes ==
  ASSUME MTypeOK, NEW child \in Missions
  PROVE  /\ \A parent \in Missions : add_parent_to_mission(child, parent) => MTypeOK'
         /\ remove_parent_from_mission(child) => MTypeOK'
<1> DEFINE R == Missions \X Missions
<1>1. rels \in Seq(R)
  BY DEF MTypeOK
<1>2. ASSUME NEW parent \in Missions, add_parent_to_mission(child, parent) PROVE MTypeOK'
  <2>1. <<parent, child>> \in R /\ rels' = Append(rels, <<parent, child>>)
    BY <1>2 DEF add_parent_to_mission
  <2> HIDE DEF R
  <2>2. rels' \in Seq(R)
    BY <1>1, <2>1
  <2> QED BY <1>2, <2>2 DEF MTypeOK, add_parent_to_mission, R
<1>3. ASSUME remove_parent_from_mission(child) PROVE MTypeOK'
  <2> HIDE DEF R
  <2>1. PICK i \in DOMAIN rels : rels' = RemoveAt(rels, i)
    BY <1>3 DEF remove_parent_from_mission
  <2>2. rels' \in Seq(R)
    BY <1>1, <2>1, Removed
  <2> QED BY <1>3, <2>2 DEF MTypeOK, remove_parent_from_mission, R
<1> QED BY <1>2, <1>3

EsType == EsTypeOK /\ StoreType

\* The commits of the enterprise sync store keep its types.
LEMMA FileType ==
  ASSUME EsType, NEW u \in Uids, NEW d \in Data \cup {NoData}, d \in ContentOf(u) \cup {NoData},
         files' = [files EXCEPT ![u] = d] /\ UNCHANGED rows
  PROVE  EsType'
BY DEF EsType, EsTypeOK, StoreType

LEMMA CreateRowType ==
  ASSUME EsType, NEW r \in Row, r.hash \in ContentOf(r.uid), create_enterprise_sync_data_object(r)
  PROVE  EsType'
<1>1. rows \in Seq(Row) /\ rows' = Append(rows, r) /\ UNCHANGED files
  BY DEF EsType, EsTypeOK, create_enterprise_sync_data_object
<1>2. /\ rows' \in Seq(Row)
      /\ \A i \in DOMAIN rows' : rows'[i] = r \/ (i \in DOMAIN rows /\ rows'[i] = rows[i])
  BY <1>1, Pushed
<1>3. \A i \in DOMAIN rows' : rows'[i].hash \in ContentOf(rows'[i].uid)
  BY <1>2 DEF EsType, StoreType
<1> QED BY <1>1, <1>2, <1>3 DEF EsType, EsTypeOK, StoreType

LEMMA UpdateRowType ==
  ASSUME EsType, NEW u \in Uids, NEW h, h = NoData \/ (h \in Data /\ h \in ContentOf(u)), NEW p \in 0..1,
         update_enterprise_sync_object(u, h, p)
  PROVE  /\ EsType' /\ UNCHANGED files /\ DOMAIN rows' = DOMAIN rows
         /\ \A i \in DOMAIN rows : rows'[i].uid = rows[i].uid
<1>1. rows \in Seq(Row) /\ UNCHANGED files
  BY DEF EsType, EsTypeOK, update_enterprise_sync_object
<1>2. CASE UNCHANGED rows
  BY <1>1, <1>2 DEF EsType, EsTypeOK, StoreType
<1>3. ASSUME NEW i \in ByUid(u),
             rows' = [rows EXCEPT ![i] = [rows[i] EXCEPT !.hash = IF h = NoData THEN rows[i].hash ELSE h,
                                                         !.private = p]]
      PROVE  /\ EsType' /\ UNCHANGED files /\ DOMAIN rows' = DOMAIN rows
             /\ \A j \in DOMAIN rows : rows'[j].uid = rows[j].uid
  <2>1. i \in DOMAIN rows /\ rows[i].uid = u
    BY DEF ByUid, FirstOf
  <2>2. rows[i] \in Row
    BY <1>1, <2>1
  <2>3. rows[i].hash \in ContentOf(u)
    BY <2>1 DEF EsType, StoreType
  <2> DEFINE x == [rows[i] EXCEPT !.hash = IF h = NoData THEN rows[i].hash ELSE h, !.private = p]
  <2>4. x \in Row /\ x.uid = u /\ x.hash \in ContentOf(u)
    BY <2>1, <2>2, <2>3 DEF Row
  <2>5. rows' = [rows EXCEPT ![i] = x]
    BY <1>3
  <2> HIDE DEF x
  <2>6. /\ DOMAIN rows' = DOMAIN rows /\ rows'[i] = x
        /\ \A j \in DOMAIN rows : j # i => rows'[j] = rows[j]
    BY <2>1, <2>5
  <2>7. rows' \in Seq(Row)
    <3>1. DOMAIN rows = 1..Len(rows) /\ Len(rows) \in Nat
      BY <1>1
    <3>2. \A j \in 1..Len(rows) : rows'[j] \in Row
      BY <1>1, <2>4, <2>6, <3>1
    <3>3. rows' = [j \in 1..Len(rows) |-> rows'[j]]
      BY <2>5, <3>1
    <3> QED BY <3>1, <3>2, <3>3, IsASeq
  <2>8. \A j \in DOMAIN rows : rows'[j].uid = rows[j].uid
    BY <2>1, <2>4, <2>6
  <2>9. \A j \in DOMAIN rows' : rows'[j].hash \in ContentOf(rows'[j].uid)
    BY <2>1, <2>4, <2>6 DEF EsType, StoreType
  <2> QED BY <1>1, <2>6, <2>7, <2>8, <2>9 DEF EsType, EsTypeOK, StoreType
<1> QED BY <1>1, <1>2, <1>3 DEF update_enterprise_sync_object

LEMMA DeleteRowType ==
  ASSUME EsType, NEW h, delete_enterprise_sync_object(h)
  PROVE  EsType'
<1>1. rows \in Seq(Row) /\ UNCHANGED files
  BY DEF EsType, EsTypeOK, delete_enterprise_sync_object
<1>2. PICK i \in DOMAIN rows : rows' = RemoveAt(rows, i)
  BY DEF delete_enterprise_sync_object, ByHash, FirstOf
<1>3. /\ rows' \in Seq(Row) /\ Len(rows') = Len(rows) - 1
      /\ \A j \in 1..(Len(rows) - 1) : rows'[j] = IF j < i THEN rows[j] ELSE rows[j+1]
  BY <1>1, <1>2, Removed
<1>4. DOMAIN rows = 1..Len(rows) /\ Len(rows) \in Nat /\ DOMAIN rows' = 1..(Len(rows) - 1)
  BY <1>1, <1>3
<1>5. \A j \in DOMAIN rows' : \E l \in DOMAIN rows : rows'[j] = rows[l]
  <2> SUFFICES ASSUME NEW j \in DOMAIN rows' PROVE \E l \in DOMAIN rows : rows'[j] = rows[l]
    OBVIOUS
  <2>1. j \in DOMAIN rows /\ j + 1 \in DOMAIN rows
    BY <1>4
  <2> QED BY <1>3, <1>4, <2>1
<1>6. \A j \in DOMAIN rows' : rows'[j].hash \in ContentOf(rows'[j].uid)
  BY <1>5 DEF EsType, StoreType
<1> QED BY <1>1, <1>3, <1>6 DEF EsType, EsTypeOK, StoreType

XType == XTypeOK /\ links \subseteq Checklists \X Missions

\* So do those of the ExCheck tables.
LEMMA ExCheckTypes ==
  ASSUME XType
  PROVE  /\ \A t \in Templates : create_template(t) => XType'
         /\ \A k \in Checklists : create_checklist(k) => XType'
         /\ \A k \in Checklists, t \in Tasks : create_checklist_task(k, t) => XType'
         /\ \A k \in Checklists, m \in Missions : add_mission_checklist_mapping(k, m) => XType'
<1>1. ASSUME NEW t \in Templates, create_template(t) PROVE XType'
  BY <1>1 DEF XType, XTypeOK, create_template
<1>2. ASSUME NEW k \in Checklists, create_checklist(k) PROVE XType'
  BY <1>2 DEF XType, XTypeOK, create_checklist
<1>3. ASSUME NEW k \in Checklists, NEW t \in Tasks, create_checklist_task(k, t) PROVE XType'
  BY <1>3 DEF XType, XTypeOK, create_checklist_task
<1>4. ASSUME NEW k \in Checklists, NEW m \in Missions, add_mission_checklist_mapping(k, m) PROVE XType'
  <2>1. links' \subseteq Checklists \X Missions
    BY <1>4 DEF XType, add_mission_checklist_mapping
  <2> QED BY <1>4, <2>1 DEF XType, XTypeOK, add_mission_checklist_mapping
<1> QED BY <1>1, <1>2, <1>3, <1>4

StoresType == EsType /\ MTypeOK /\ XType /\ cotStore \subseteq Cots /\ IsABag(queue)

LEMMA TypeParts == TypeInv => StoresType
BY DEF TypeInv, TypeOK, StoresType, EsType, XType

LEMMA SameTypes ==
  ASSUME StoresType
  PROVE  /\ UNCHANGED esVars => EsType'
         /\ UNCHANGED mVars => MTypeOK'
         /\ UNCHANGED xVars => XType'
<1>1. EsType /\ MTypeOK /\ XType
  BY DEF StoresType
<1>2. ASSUME UNCHANGED esVars PROVE EsType'
  BY <1>1, <1>2 DEF esVars, EsType, EsTypeOK, StoreType
<1>3. ASSUME UNCHANGED mVars PROVE MTypeOK'
  BY <1>1, <1>3 DEF mVars, MTypeOK
<1>4. ASSUME UNCHANGED xVars PROVE XType'
  BY <1>1, <1>4 DEF xVars, XType, XTypeOK
<1> QED BY <1>2, <1>3, <1>4

\* Every step of a process keeps the types of the stores.
LEMMA MissionStepTypes ==
  ASSUME StoresType, NEW p, NEW s \in Statement,
         \/ CreateMission(p, s) \/ CreateSubscription(p, s) \/ Subscribe(p, s) \/ Construct(p, s)
         \/ CompleteSubscription(p, s) \/ RecordChange(p, s) \/ DeleteSubscription(p, s)
         \/ CreateInvitation(p, s) \/ CreateContent(p, s) \/ UpdateMission(p, s) \/ CreateCot(p, s)
         \/ CreateLog(p, s) \/ UpdateLog(p, s) \/ DeleteLog(p, s) \/ AddExternalData(p, s)
         \/ AddParent(p, s) \/ RemoveParent(p, s)
  PROVE  StoresType'
<1>1. MTypeOK /\ UNCHANGED <<esVars, xVars, cotStore, queue>>
  BY DEF StoresType, OnMission, CreateMission, CreateSubscription, Subscribe, Construct,
         CompleteSubscription, RecordChange, DeleteSubscription, CreateInvitation, CreateContent,
         UpdateMission, CreateCot, CreateLog, UpdateLog, DeleteLog, AddExternalData, AddParent, RemoveParent
<1>2. EsType' /\ XType' /\ (cotStore \subseteq Cots)' /\ IsABag(queue)'
  BY <1>1, SameTypes DEF StoresType
<1>3. UNCHANGED mVars => MTypeOK'
  BY SameTypes
<1>4. CASE CreateMission(p, s)
  <2>1. create_mission(s.m, s.role) \/ UNCHANGED mVars
    BY <1>4 DEF CreateMission, OnMission, Attempt
  <2>2. s.m \in Missions /\ s.role \in Roles \cup {None}
    BY <1>4, MissionFields DEF CreateMission
  <2> QED BY <1>1, <1>2, <1>3, <2>1, <2>2, CreateMissionType DEF StoresType
<1>5. CASE CreateSubscription(p, s)
  <2>1. create_subscription(s.m, s.c, "MISSION_OWNER") \/ UNCHANGED mVars
    BY <1>5 DEF CreateSubscription, OnMission, Attempt
  <2>2. s.m \in Missions /\ s.c \in Clients /\ "MISSION_OWNER" \in Roles \cup {None}
    BY <1>5, MissionFields DEF CreateSubscription, Roles
  <2> QED BY <1>1, <1>2, <1>3, <2>1, <2>2, CreateSubscriptionType DEF StoresType
<1>6. CASE Subscribe(p, s)
  <2>1. (Exists(s.m) /\ create_subscription(s.m, s.c, missions[s.m])) \/ UNCHANGED mVars
    BY <1>6 DEF Subscribe, OnMission, Attempt
  <2>2. s.m \in Missions /\ s.c \in Clients /\ (Exists(s.m) => missions[s.m] \in Roles \cup {None})
    BY <1>1, <1>6, MissionFields DEF Subscribe, MTypeOK, Exists
  <2> QED BY <1>1, <1>2, <1>3, <2>1, <2>2, CreateSubscriptionType DEF StoresType
<1>7. CASE Construct(p, s) \/ CompleteSubscription(p, s)
  <2>1. UNCHANGED mVars
    BY <1>7 DEF Construct, CompleteSubscription, OnMission, Attempt
  <2> QED BY <1>2, <1>3, <2>1 DEF StoresType
<1>8. CASE RecordChange(p, s)
  <2>1. create_mission_change(s.type, s.m, s.kind, s.of) \/ UNCHANGED mVars
    BY <1>8 DEF RecordChange, OnMission, Attempt
  <2>2. s.type \in {"CREATE_MISSION", "ADD_CONTENT"} /\ s.m \in Missions /\ s.kind \in Kinds /\ s.of \in Subjects
    BY <1>8, MissionFields DEF RecordChange
  <2> QED BY <1>1, <1>2, <1>3, <2>1, <2>2, ChangeTypes DEF StoresType
<1>9. CASE DeleteSubscription(p, s)
  <2>1. delete_subscription(s.m, s.c) \/ UNCHANGED mVars
    BY <1>9 DEF DeleteSubscription, OnMission, Attempt
  <2> QED BY <1>1, <1>2, <1>3, <2>1, DeleteSubscriptionType DEF StoresType
<1>10. CASE CreateInvitation(p, s)
  <2>1. (\E i \in SubOf(s.m, s.c) : create_invitation(s.m, subs[i].id)) \/ UNCHANGED mVars
    BY <1>10 DEF CreateInvitation, OnMission, Attempt
  <2>2. s.m \in Missions
    BY <1>10, MissionFields DEF CreateInvitation
  <2> QED BY <1>1, <1>2, <1>3, <2>1, <2>2, CreateInvitationType DEF StoresType
<1>11. CASE CreateContent(p, s) \/ UpdateMission(p, s)
  <2>1. create_mission_content(s.m, s.x) \/ update_mission(s.m, s.x) \/ UNCHANGED mVars
    BY <1>11 DEF CreateContent, UpdateMission, OnMission, Attempt
  <2>2. s.m \in Missions /\ s.x \in Objects
    BY <1>11, MissionFields DEF CreateContent, UpdateMission
  <2> QED BY <1>1, <1>2, <1>3, <2>1, <2>2, ContentTypes DEF StoresType
<1>12. CASE CreateCot(p, s)
  <2>1. create_mission_cot(s.m, s.c) \/ UNCHANGED mVars
    BY <1>12 DEF CreateCot, OnMission, Attempt
  <2>2. s.m \in Missions /\ s.c \in Cots
    BY <1>12, MissionFields DEF CreateCot
  <2> QED BY <1>1, <1>2, <1>3, <2>1, <2>2, CotAndExternalTypes DEF StoresType
<1>13. CASE AddExternalData(p, s)
  <2>1. add_external_data(s.m, s.e, s.u) \/ UNCHANGED mVars
    BY <1>13 DEF AddExternalData, OnMission, Attempt
  <2>2. s.m \in Missions /\ s.e \in Nat /\ s.u \in ExtUids
    BY <1>13, MissionFields DEF AddExternalData
  <2> QED BY <1>1, <1>2, <1>3, <2>1, <2>2, CotAndExternalTypes DEF StoresType
<1>14. CASE CreateLog(p, s) \/ UpdateLog(p, s)
  <2>1. create_log(s.l, s.ms) \/ update_log(s.l, s.ms) \/ UNCHANGED mVars
    BY <1>14 DEF CreateLog, UpdateLog, OnMission, Attempt
  <2>2. s.l \in Nat /\ s.ms \in Seq(Missions)
    BY <1>14, MissionFields DEF CreateLog, UpdateLog
  <2> QED BY <1>1, <1>2, <1>3, <2>1, <2>2, LogTypes DEF StoresType
<1>15. CASE DeleteLog(p, s)
  <2>1. delete_mission_log(s.l) \/ UNCHANGED mVars
    BY <1>15 DEF DeleteLog, OnMission, Attempt
  <2>2. s.l \in Nat
    BY <1>15, MissionFields DEF DeleteLog
  <2> QED BY <1>1, <1>2, <1>3, <2>1, <2>2, LogTypes DEF StoresType
<1>16. CASE AddParent(p, s)
  <2>1. add_parent_to_mission(s.child, s.parent) \/ UNCHANGED mVars
    BY <1>16 DEF AddParent, OnMission, Attempt
  <2>2. s.child \in Missions /\ s.parent \in Missions
    BY <1>16, MissionFields DEF AddParent
  <2> QED BY <1>1, <1>2, <1>3, <2>1, <2>2, RelationTypes DEF StoresType
<1>17. CASE RemoveParent(p, s)
  <2>1. remove_parent_from_mission(s.child) \/ UNCHANGED mVars
    BY <1>17 DEF RemoveParent, OnMission, Attempt
  <2>2. s.child \in Missions
    BY <1>17, MissionFields DEF RemoveParent
  <2> QED BY <1>1, <1>2, <1>3, <2>1, <2>2, RelationTypes DEF StoresType
<1> QED BY <1>4, <1>5, <1>6, <1>7, <1>8, <1>9, <1>10, <1>11, <1>12, <1>13, <1>14, <1>15, <1>16, <1>17

LEMMA SyncStepTypes ==
  ASSUME TypeInv, NEW p, NEW s \in Statement,
         \/ SaveFile(p, s) \/ CreateRow(p, s) \/ UpdateFile(p, s) \/ UpdateRow(p, s)
         \/ DeleteFile(p, s) \/ DeleteRow(p, s)
  PROVE  StoresType'
<1>0. StoresType
  BY TypeParts
<1>1. EsType /\ UNCHANGED <<mVars, xVars, cotStore, queue>>
  BY <1>0 DEF StoresType, OnSync, SaveFile, CreateRow, UpdateFile, UpdateRow, DeleteFile, DeleteRow
<1>2. MTypeOK' /\ XType' /\ (cotStore \subseteq Cots)' /\ IsABag(queue)'
  BY <1>0, <1>1, SameTypes DEF StoresType
<1>3. UNCHANGED esVars => EsType'
  BY <1>0, SameTypes
<1>4. CASE SaveFile(p, s) \/ UpdateFile(p, s)
  <2>1. save_file(s.u, s.d) \/ UNCHANGED esVars
    BY <1>4 DEF SaveFile, UpdateFile, OnSync, Attempt
  <2>2. s.u \in Uids /\ s.d \in Data /\ s.d \in ContentOf(s.u)
    BY <1>4, SyncFields DEF SaveFile, UpdateFile
  <2>3. save_file(s.u, s.d) => EsType'
    BY <1>1, <2>2, FileType DEF save_file
  <2> QED BY <1>2, <1>3, <2>1, <2>3 DEF StoresType
<1>5. CASE CreateRow(p, s)
  <2>1. create_enterprise_sync_data_object(s.row) \/ UNCHANGED esVars
    BY <1>5 DEF CreateRow, OnSync, Attempt
  <2>2. s.row \in Row /\ s.row.hash \in ContentOf(s.row.uid)
    BY <1>5, SyncFields DEF CreateRow
  <2> QED BY <1>1, <1>2, <1>3, <2>1, <2>2, CreateRowType DEF StoresType
<1>6. CASE UpdateRow(p, s)
  <2>1. update_enterprise_sync_object(s.u, s.h, s.p) \/ UNCHANGED esVars
    BY <1>6 DEF UpdateRow, OnSync, Attempt
  <2>2. s.u \in Uids /\ (s.h = NoData \/ (s.h \in Data /\ s.h \in ContentOf(s.u))) /\ s.p \in 0..1
    BY <1>6, SyncFields DEF UpdateRow
  <2> QED BY <1>1, <1>2, <1>3, <2>1, <2>2, UpdateRowType DEF StoresType
<1>7. CASE DeleteFile(p, s)
  <2>1. (\E r \in MetadataOf(s.h) : delete_file(r.uid)) \/ UNCHANGED esVars
    BY <1>7 DEF DeleteFile, OnSync, Attempt
  <2>2. \A r \in MetadataOf(s.h) : r.uid \in Uids
    <3> SUFFICES ASSUME NEW r \in MetadataOf(s.h) PROVE r.uid \in Uids
      OBVIOUS
    <3>1. r \in Row
      BY MetadataRow
    <3> QED BY <3>1 DEF Row
  <2>3. \A u \in Uids : delete_file(u) => EsType'
    BY <1>1, FileType DEF delete_file
  <2> QED BY <1>2, <1>3, <2>1, <2>2, <2>3 DEF StoresType
<1>8. CASE DeleteRow(p, s)
  <2>1. delete_enterprise_sync_object(s.h) \/ UNCHANGED esVars
    BY <1>8 DEF DeleteRow, OnSync, Attempt
  <2> QED BY <1>1, <1>2, <1>3, <2>1, DeleteRowType DEF StoresType
<1> QED BY <1>4, <1>5, <1>6, <1>7, <1>8

LEMMA ExCheckStepTypes ==
  ASSUME StoresType, NEW p, NEW s \in Statement,
         \/ CreateTemplate(p, s) \/ CreateChecklist(p, s) \/ CreateTask(p, s)
         \/ ReadDocument(p, s) \/ LinkChecklist(p, s)
  PROVE  StoresType'
<1>1. XType /\ UNCHANGED <<mVars, esVars, cotStore, queue>>
  BY DEF StoresType, OnExCheck, CreateTemplate, CreateChecklist, CreateTask, ReadDocument, LinkChecklist
<1>2. MTypeOK' /\ EsType' /\ (cotStore \subseteq Cots)' /\ IsABag(queue)'
  BY <1>1, SameTypes DEF StoresType
<1>3. UNCHANGED xVars => XType'
  BY SameTypes
<1>4. \/ s.op = "create_template" /\ create_template(s.t)
      \/ s.op = "create_checklist" /\ create_checklist(s.k)
      \/ s.op = "create_task" /\ create_checklist_task(s.k, s.t)
      \/ s.op = "link" /\ add_mission_checklist_mapping(s.k, s.m)
      \/ UNCHANGED xVars
  BY DEF OnExCheck, CreateTemplate, CreateChecklist, CreateTask, ReadDocument, LinkChecklist, Attempt
<1>5. XType'
  BY <1>1, <1>3, <1>4, ExCheckFields, ExCheckTypes
<1> QED BY <1>2, <1>5 DEF StoresType

LEMMA ControlStepTypes ==
  ASSUME StoresType, NEW p, NEW s \in Statement,
         \/ CallStep(p, s) \/ PostStep(p, s) \/ NeedStep(p, s) \/ RaiseStep(p, s)
         \/ ForContentsStep(p, s) \/ ForMissionsStep(p, s) \/ ForTasksStep(p, s)
         \/ NotifyStep(p, s) \/ GetMetadata(p, s) \/ GetData(p, s) \/ StoreCot(p, s) \/ ReplaceTask(p, s)
  PROVE  StoresType'
<1>1. UNCHANGED <<mVars, esVars, xVars>>
  BY DEF stores, CallStep, PostStep, NeedStep, RaiseStep, ForContentsStep, ForMissionsStep, ForTasksStep,
         NotifyStep, GetMetadata, GetData, StoreCot, ReplaceTask
<1>2. MTypeOK' /\ EsType' /\ XType'
  BY <1>1, SameTypes
<1>3. queue' = With(queue, s.req) \/ UNCHANGED queue
  BY DEF CallStep, PostStep, NeedStep, RaiseStep, ForContentsStep, ForMissionsStep, ForTasksStep,
         NotifyStep, GetMetadata, GetData, StoreCot, ReplaceTask
<1>4. IsABag(queue)'
  BY <1>3, BagTypes DEF StoresType
<1>5. (s.op = "store_cot" /\ cotStore' = cotStore \cup {s.c}) \/ UNCHANGED cotStore
  BY DEF stores, CallStep, PostStep, NeedStep, RaiseStep, ForContentsStep, ForMissionsStep, ForTasksStep,
         NotifyStep, GetMetadata, GetData, StoreCot, ReplaceTask
<1>6. (cotStore \subseteq Cots)'
  BY <1>5, MissionFields DEF StoresType
<1> QED BY <1>2, <1>4, <1>6 DEF StoresType

LEMMA StepTypes ==
  ASSUME TypeInv, NEW p, Step(p), Stmt(p) \in Statement
  PROVE  StoresType'
<1>1. StoresType
  BY TypeParts
<1> QED BY <1>1, MissionStepTypes, SyncStepTypes, ExCheckStepTypes, ControlStepTypes
       DEF Step, SyncStep, MissionStep, ExCheckStep, ControlStep

-----------------------------------------------------------------------------
(* The core of the inductive invariant. *)

CoreInv == TypeInv /\ ReadyInv /\ ShapeInv

LEMMA TypeFromParts ==
  ASSUME StoresType', ProcType', (DOMAIN queue \subseteq Request)', drawn' \subseteq Checklists,
         nreq' \in 0..MaxRequests
  PROVE  TypeInv'
<1>1. DOMAIN proc' = Procs /\ \A p \in Procs : proc'[p].ok \in BOOLEAN
  <2>1. proc' \in [Procs -> [stack : Seq(Program), ok : BOOLEAN]]
    BY DEF ProcType
  <2> QED BY <2>1
<1>2. TypeOK'
  BY <1>1 DEF TypeOK, StoresType, EsType, XType
<1> QED BY <1>2 DEF TypeInv, StoresType, EsType

LEMMA CotEventQueue ==
  ASSUME TypeInv, ReadyInv, CotEvent
  PROVE  /\ UNCHANGED <<stores, drawn, proc>> /\ nreq' \in 0..MaxRequests /\ IsABag(queue')
         /\ \A r \in DOMAIN queue' : r \in Request /\ RequestReady(World, r, {}, {})
<1>1. UNCHANGED <<stores, drawn, proc>> /\ nreq < MaxRequests /\ nreq' = nreq + 1
  BY DEF CotEvent
<1>2. PICK c \in Cots, ms \in MissionLists :
        queue' = With(queue, [method |-> "CotEvent", ms |-> ms, c |-> c])
  BY DEF CotEvent
<1> DEFINE x == [method |-> "CotEvent", ms |-> ms, c |-> c]
<1>3. x.method = "CotEvent"
  OBVIOUS
<1>4. ms \in Seq(Missions)
  BY TakApiAssumption
<1>5. x \in Request
  BY <1>4, MakeEndpointRequest
<1>6. queue' = With(queue, x)
  BY <1>2
<1> HIDE DEF x
<1>7. RequestReady(World, x, {}, {})
  BY <1>3 DEF RequestReady
<1>8. DOMAIN queue' = DOMAIN queue \cup {x}
  BY <1>6, WithDomain
<1>9. \A r \in DOMAIN queue : r \in Request /\ RequestReady(World, r, {}, {})
  BY DEF TypeInv, ReadyInv
<1>10. \A r \in DOMAIN queue' : r \in Request /\ RequestReady(World, r, {}, {})
  BY ONLY <1>5, <1>7, <1>8, <1>9
<1>11. IsABag(queue')
  BY <1>6, BagTypes DEF TypeInv, TypeOK
<1>12. nreq' \in 0..MaxRequests
  BY <1>1, TakApiAssumption DEF TypeInv, TypeOK
<1> QED BY <1>1, <1>10, <1>11, <1>12

LEMMA SameStores ==
  ASSUME StoresType, UNCHANGED stores, IsABag(queue')
  PROVE  StoresType'
<1>1. UNCHANGED <<esVars, mVars, xVars, cotStore>>
  BY DEF stores
<1>2. EsType' /\ MTypeOK' /\ XType'
  BY <1>1, SameTypes
<1> QED BY <1>1, <1>2 DEF StoresType

\* A step is one of three kinds.
LEMMA NextMoves ==
  ASSUME CoreInv, Next, NEW v, v = World'
  PROVE  \/ \E p \in Procs : \E q : Passes(p, q)
         \/ \E p \in Procs : \E q : Executes(p, q, v)
         \/ UNCHANGED <<stores, proc>>
<1>1. CASE \E a \in Apis : Serve(a)
  BY <1>1, ServePasses DEF CoreInv, Procs
<1>2. CASE CotEvent
  BY <1>2 DEF CotEvent
<1>3. CASE \E w \in Workers : TakeJob(w)
  BY <1>3, JobPasses DEF CoreInv, Procs
<1>4. CASE \E p \in Procs : Step(p)
  BY <1>4, StepMoves DEF CoreInv
<1> QED BY <1>1, <1>2, <1>3, <1>4 DEF Next

\* The three invariants are inductive together.
LEMMA CoreStep ==
  ASSUME CoreInv, Next
  PROVE  CoreInv'
<1>1. TypeInv /\ ReadyInv /\ ShapeInv /\ StoresType
  BY TypeParts DEF CoreInv
<1>2. drawn \subseteq Checklists /\ nreq \in 0..MaxRequests /\ IsABag(queue)
  BY <1>1 DEF TypeInv, TypeOK
<1>3. \A r \in DOMAIN queue : r \in Request /\ RequestReady(World, r, {}, {})
  BY <1>1 DEF TypeInv, ReadyInv
<1>4. ASSUME NEW a \in Apis, Serve(a) PROVE CoreInv'
  <2>1. PICK q : Passes(a, q)
    BY <1>1, <1>4, ServePasses
  <2>2. UNCHANGED queue /\ Counts
    BY <1>1, <1>4, ServePasses
  <2>3. a \in Procs
    BY DEF Procs
  <2>4. ProcType' /\ ShapeInv' /\ ReadyInv' /\ (DOMAIN queue \subseteq Request)'
    BY <1>1, <1>3, <2>1, <2>2, <2>3, PassesInv
  <2>5. StoresType'
    BY <1>1, <1>2, <2>1, <2>2, SameStores DEF Passes
  <2>6. TypeInv'
    BY <2>2, <2>4, <2>5, TypeFromParts DEF Counts
  <2> QED BY <2>4, <2>6 DEF CoreInv
<1>5. ASSUME NEW w \in Workers, TakeJob(w) PROVE CoreInv'
  <2>1. PICK q : Passes(w, q)
    BY <1>1, <1>5, JobPasses
  <2>2. PICK job \in DOMAIN queue : queue' = Without(queue, job)
    BY <1>1, <1>5, JobPasses
  <2>3. w \in Procs /\ UNCHANGED <<drawn, nreq>>
    BY <1>1, <1>5, JobPasses DEF Procs
  <2>4. DOMAIN queue' \subseteq DOMAIN queue /\ IsABag(queue')
    BY <1>2, <2>2, BagTypes
  <2>5. \A r \in DOMAIN queue' : r \in Request /\ RequestReady(World, r, {}, {})
    BY <1>3, <2>4
  <2>6. ProcType' /\ ShapeInv' /\ ReadyInv' /\ (DOMAIN queue \subseteq Request)'
    BY <1>1, <2>1, <2>3, <2>5, PassesInv
  <2>7. StoresType'
    BY <1>1, <2>1, <2>4, SameStores DEF Passes
  <2>8. TypeInv'
    BY <1>2, <2>3, <2>6, <2>7, TypeFromParts
  <2> QED BY <2>6, <2>8 DEF CoreInv
<1>6. ASSUME CotEvent PROVE CoreInv'
  <2>1. /\ UNCHANGED <<stores, drawn, proc>> /\ nreq' \in 0..MaxRequests /\ IsABag(queue')
        /\ \A r \in DOMAIN queue' : r \in Request /\ RequestReady(World, r, {}, {})
    BY <1>1, <1>6, CotEventQueue
  <2>2. StoresType'
    BY <1>1, <2>1, SameStores
  <2>3. ProcType'
    BY <1>1, <2>1 DEF TypeInv, ProcType, Top
  <2>4. TypeInv'
    BY <1>2, <2>1, <2>2, <2>3, TypeFromParts
  <2>5. ShapeInv'
    BY <1>1, <2>1 DEF ShapeInv
  <2>6. World' = World
    BY <2>1 DEF World, stores, esVars, mVars, xVars
  <2>7. StoresRight'
    <3>1. UNCHANGED <<files, tasks, missions, changes, cots, cotStore, published>>
      BY <2>1 DEF stores, esVars, mVars, xVars
    <3>2. StoresRight
      BY <1>1 DEF ReadyInv
    <3> QED BY <2>6, <3>1, <3>2 DEF StoresRight, MissionCotsResolve, DocumentsComplete, Exists
  <2>8. ReadyInv'
    BY <1>1, <2>1, <2>6, <2>7 DEF ReadyInv
  <2> QED BY <2>4, <2>5, <2>8 DEF CoreInv
<1>7. ASSUME NEW p \in Procs, Step(p) PROVE CoreInv'
  <2>1. ~Idle(p)
    BY <1>7 DEF Step
  <2>2. Stmt(p) \in Statement
    BY <1>1, <2>1, AtWork
  <2>3. StoresType'
    BY <1>1, <1>7, <2>2, StepTypes
  <2> DEFINE v == World'
  <2>4. v = World'
    OBVIOUS
  <2> HIDE DEF v
  <2>5. \/ \E q : Passes(p, q) /\ UNCHANGED <<queue, drawn, nreq>>
        \/ \E q : Executes(p, q, v) /\ UNCHANGED <<drawn, nreq>>
    BY <1>1, <1>7, <2>4, StepMoves
  <2>6. ProcType' /\ ShapeInv' /\ ReadyInv' /\ (DOMAIN queue \subseteq Request)' /\ UNCHANGED <<drawn, nreq>>
    <3>1. ASSUME NEW q, Passes(p, q), UNCHANGED <<queue, drawn, nreq>>
          PROVE  ProcType' /\ ShapeInv' /\ ReadyInv' /\ (DOMAIN queue \subseteq Request)'
      BY <1>1, <1>3, <3>1, PassesInv
    <3>2. ASSUME NEW q, Executes(p, q, v)
          PROVE  ProcType' /\ ShapeInv' /\ ReadyInv' /\ (DOMAIN queue \subseteq Request)'
      BY <1>1, <2>4, <3>2, ExecutesInv
    <3> QED BY <2>5, <3>1, <3>2
  <2>7. TypeInv'
    BY <1>2, <2>3, <2>6, TypeFromParts
  <2> QED BY <2>6, <2>7 DEF CoreInv
<1> QED BY <1>4, <1>5, <1>6, <1>7 DEF Next

-----------------------------------------------------------------------------
(* A mission is created once. *)

\* Who owes the record of a creation after a step owed it before, or has just
\* created the mission.
LEMMA OwedBefore ==
  ASSUME CoreInv, NEW p \in Procs, NEW q, NEW v, Executes(p, q, v)
  PROVE  \A x \in Procs : \A n \in DOMAIN proc'[x].stack : \A m \in Missions :
           Owes(proc'[x].stack[n], m) =>
             \/ n \in DOMAIN proc[x].stack /\ Owes(proc[x].stack[n], m)
             \/ x = p /\ n = Len(proc[p].stack) /\ Stmt(p).op = "create_mission" /\ Stmt(p).m = m
<1> SUFFICES ASSUME NEW x \in Procs, NEW n \in DOMAIN proc'[x].stack, NEW m \in Missions,
                    Owes(proc'[x].stack[n], m)
             PROVE  \/ n \in DOMAIN proc[x].stack /\ Owes(proc[x].stack[n], m)
                    \/ x = p /\ n = Len(proc[p].stack) /\ Stmt(p).op = "create_mission" /\ Stmt(p).m = m
  OBVIOUS
<1>1. TypeInv /\ ReadyInv /\ ShapeInv
  BY DEF CoreInv
<1>2. ~Idle(p) /\ proc' = [proc EXCEPT ![p] = q] /\ After(v, q) /\ Grows(World, v)
  BY DEF Executes
<1>3. proc'[p] = q /\ \A r \in Procs : r # p => proc'[r] = proc[r]
  BY <1>1, <1>2, ProcsAfter
<1>4. CASE x # p
  BY <1>3, <1>4
<1>5. CASE x = p
  <2> DEFINE st == proc[p].stack
  <2>1. /\ StackGood(World, st) /\ Running(st)
        /\ Stmt(p) = Head(Inner(st)) /\ Rest(p) = Tail(Inner(st))
    BY <1>1, <1>2, AtWork
  <2>2. \/ n \in DOMAIN st /\ q.stack[n] = st[n]
        \/ n = Len(st) /\ q.stack[n] = Rest(p)
    BY <1>3, <1>5 DEF Executes
  <2> HIDE DEF st
  <2>3. CASE n = Len(st) /\ q.stack[n] = Rest(p)
    <3>1. Inner(st) \in Program /\ Inner(st) # <<>> /\ Len(st) \in DOMAIN st
      BY <2>1, InnerProgram
    <3>2. Owes(Tail(Inner(st)), m)
      BY <1>3, <1>5, <2>1, <2>3
    <3>3. Owes(Inner(st), m) \/ (Head(Inner(st)).op = "create_mission" /\ Head(Inner(st)).m = m)
      BY <3>1, <3>2, OwesTail
    <3> QED BY <1>5, <2>1, <2>3, <3>1, <3>3 DEF Inner, st
  <2> QED BY <1>3, <1>5, <2>2, <2>3 DEF st
<1> QED BY <1>4, <1>5

\* A process about to record a creation owes it, and has nothing else to do in
\* that program.
LEMMA AtCreation ==
  ASSUME CoreInv, NEW p \in Procs, NEW q, NEW v, Executes(p, q, v), IsCreation(Stmt(p))
  PROVE  /\ Len(proc[p].stack) \in DOMAIN proc[p].stack
         /\ Owes(proc[p].stack[Len(proc[p].stack)], Stmt(p).m)
         /\ Rest(p) = <<>>
         /\ \A n \in DOMAIN q.stack : n # Len(proc[p].stack)
<1> DEFINE st == proc[p].stack
<1>1. /\ StackGood(World, st) /\ Running(st)
      /\ Stmt(p) = Head(Inner(st)) /\ Rest(p) = Tail(Inner(st))
  BY AtWork DEF CoreInv, Executes
<1>2. Rest(p) = <<>>
  BY DEF Executes, Follows
<1>3. \A n \in DOMAIN q.stack : n # Len(st)
  BY <1>2 DEF Executes
<1> HIDE DEF st
<1>4. Inner(st) \in Program /\ Inner(st) # <<>> /\ Len(st) \in DOMAIN st
  BY <1>1, InnerProgram
<1>5. Len(Inner(st)) = 1 /\ DOMAIN Inner(st) = 1..1 /\ Head(Inner(st)) = Inner(st)[1]
  BY <1>1, <1>2, <1>4, TailProgram
<1>6. Owes(Inner(st), Stmt(p).m)
  BY <1>1, <1>4, <1>5 DEF Owes, IsCreation
<1> QED BY <1>2, <1>3, <1>4, <1>6 DEF Inner, st

LEMMA EffectOnMissions ==
  ASSUME NEW h, Effect(h)
  PROVE  \/ h.op = "create_mission" /\ create_mission(h.m, h.role)
         \/ h.op = "change" /\ create_mission_change(h.type, h.m, h.kind, h.of)
         \/ UNCHANGED <<missions, changes>>
BY DEF Effect, MissionEffect, SyncEffect, keyVars, mVars, create_mission_content, update_mission,
       create_mission_cot, add_external_data

LEMMA DebtsKept ==
  ASSUME Debts, \A m \in Missions : Created(m)' = Created(m) /\ (Exists(m) => Exists(m)'),
         \A x \in Procs : \A n \in DOMAIN proc'[x].stack : \A m \in Missions :
           Owes(proc'[x].stack[n], m) => n \in DOMAIN proc[x].stack /\ Owes(proc[x].stack[n], m)
  PROVE  Debts'
<1> SUFFICES ASSUME NEW x \in Procs, NEW n \in DOMAIN proc'[x].stack, NEW m \in Missions,
                    Owes(proc'[x].stack[n], m)
             PROVE  /\ Exists(m)' /\ ~Created(m)'
                    /\ \A y \in Procs : \A l \in DOMAIN proc'[y].stack :
                         Owes(proc'[y].stack[l], m) => y = x /\ l = n
  BY Zenon DEF Debts
<1>1. n \in DOMAIN proc[x].stack /\ Owes(proc[x].stack[n], m)
  BY Zenon
<1>2. /\ Exists(m) /\ ~Created(m)
      /\ \A y \in Procs : \A l \in DOMAIN proc[y].stack : Owes(proc[y].stack[l], m) => y = x /\ l = n
  BY <1>1, Zenon DEF Debts
<1> QED BY <1>2, Zenon

LEMMA CreatePasses ==
  ASSUME CoreInv, CreateInv, NEW p \in Procs, NEW q, Passes(p, q)
  PROVE  CreateInv'
<1>1. TypeInv /\ ReadyInv /\ ShapeInv /\ CreatedOnce /\ CreationsExist /\ Debts
  BY DEF CoreInv, CreateInv
<1>2. UNCHANGED <<missions, changes>>
  BY DEF Passes, stores, mVars
<1>3. CreatedOnce' /\ CreationsExist' /\ \A m : Created(m)' = Created(m) /\ Exists(m)' = Exists(m)
  BY <1>1, <1>2 DEF CreatedOnce, CreationsExist, Created, Exists
<1>4. Grows(World, World)
  BY DEF Grows
<1>5. proc'[p] = q /\ \A r \in Procs : r # p => proc'[r] = proc[r]
  BY <1>1, <1>4, ProcsAfter DEF Passes
<1>6. \A x \in Procs : \A n \in DOMAIN proc'[x].stack : \A m \in Missions :
        Owes(proc'[x].stack[n], m) => n \in DOMAIN proc[x].stack /\ Owes(proc[x].stack[n], m)
  BY <1>5, Zenon DEF Passes
<1>7. Debts'
  BY <1>1, <1>3, <1>6, DebtsKept
<1> QED BY <1>3, <1>7 DEF CreateInv

LEMMA CreateExecutes ==
  ASSUME CoreInv, CreateInv, NEW p \in Procs, NEW q, NEW v, Executes(p, q, v)
  PROVE  CreateInv'
<1> DEFINE h == Stmt(p)
           top == Len(proc[p].stack)
<1>1. TypeInv /\ ReadyInv /\ ShapeInv /\ CreatedOnce /\ CreationsExist /\ Debts
  BY DEF CoreInv, CreateInv
<1>2. h \in Statement /\ Effect(h)
  BY DEF Executes
<1>3. \A x \in Procs : \A n \in DOMAIN proc'[x].stack : \A m \in Missions :
        Owes(proc'[x].stack[n], m) =>
          \/ n \in DOMAIN proc[x].stack /\ Owes(proc[x].stack[n], m)
          \/ x = p /\ n = top /\ h.op = "create_mission" /\ h.m = m
  BY OwedBefore
<1>4. proc'[p] = q
  BY <1>1, ProcsAfter DEF Executes
<1> HIDE DEF h, top
<1>5. CASE UNCHANGED <<missions, changes>> /\ h.op # "create_mission"
  <2>1. CreatedOnce' /\ CreationsExist' /\ \A m : Created(m)' = Created(m) /\ Exists(m)' = Exists(m)
    BY <1>1, <1>5 DEF CreatedOnce, CreationsExist, Created, Exists
  <2>2. \A x \in Procs : \A n \in DOMAIN proc'[x].stack : \A m \in Missions :
          Owes(proc'[x].stack[n], m) => n \in DOMAIN proc[x].stack /\ Owes(proc[x].stack[n], m)
    BY <1>3, <1>5, Zenon
  <2>3. Debts'
    BY <1>1, <2>1, <2>2, DebtsKept
  <2> QED BY <2>1, <2>3 DEF CreateInv
<1>6. CASE h.op = "create_mission" /\ create_mission(h.m, h.role)
  <2>1. ~Exists(h.m) /\ UNCHANGED changes /\ \A m : Exists(m)' <=> Exists(m) \/ m = h.m
    BY <1>6 DEF create_mission, CanCreateMission, Exists
  <2>2. CreatedOnce' /\ CreationsExist' /\ \A m : Created(m)' = Created(m)
    BY <1>1, <2>1 DEF CreatedOnce, CreationsExist, Created, Exists
  <2>3. ~Created(h.m)
    BY <1>1, <2>1 DEF CreationsExist, Created, Exists
  <2>4. \A x \in Procs : \A n \in DOMAIN proc[x].stack : \A m \in Missions :
          Owes(proc[x].stack[n], m) => m # h.m
    BY <1>1, <2>1, Zenon DEF Debts
  <2>5. \A x \in Procs : \A n \in DOMAIN proc'[x].stack : \A m \in Missions :
          Owes(proc'[x].stack[n], m) =>
            \/ n \in DOMAIN proc[x].stack /\ Owes(proc[x].stack[n], m) /\ m # h.m
            \/ x = p /\ n = top /\ m = h.m
    BY <1>3, <2>4, Zenon
  <2>6. Debts'
    <3> SUFFICES ASSUME NEW x \in Procs, NEW n \in DOMAIN proc'[x].stack, NEW m \in Missions,
                        Owes(proc'[x].stack[n], m)
                 PROVE  /\ Exists(m)' /\ ~Created(m)'
                        /\ \A y \in Procs : \A l \in DOMAIN proc'[y].stack :
                             Owes(proc'[y].stack[l], m) => y = x /\ l = n
      BY Zenon DEF Debts
    <3>1. CASE m = h.m
      <4>1. x = p /\ n = top
        BY <2>5, <3>1, Zenon
      <4>2. \A y \in Procs : \A l \in DOMAIN proc'[y].stack : Owes(proc'[y].stack[l], m) => y = p /\ l = top
        BY <2>5, <3>1, Zenon
      <4> QED BY <2>1, <2>2, <2>3, <3>1, <4>1, <4>2, Zenon
    <3>2. CASE m # h.m
      <4>1. \A y \in Procs : \A l \in DOMAIN proc'[y].stack : Owes(proc'[y].stack[l], m) =>
              l \in DOMAIN proc[y].stack /\ Owes(proc[y].stack[l], m)
        BY <2>5, <3>2, Zenon
      <4>2. n \in DOMAIN proc[x].stack /\ Owes(proc[x].stack[n], m)
        BY <4>1, Zenon
      <4>3. /\ Exists(m) /\ ~Created(m)
            /\ \A y \in Procs : \A l \in DOMAIN proc[y].stack : Owes(proc[y].stack[l], m) => y = x /\ l = n
        BY <1>1, <4>2, Zenon DEF Debts
      <4> QED BY <2>1, <2>2, <4>1, <4>3, Zenon
    <3> QED BY <3>1, <3>2
  <2> QED BY <2>2, <2>6 DEF CreateInv
<1>7. CASE h.op = "change" /\ create_mission_change(h.type, h.m, h.kind, h.of)
  <2> DEFINE x == [type |-> h.type, kind |-> h.kind, of |-> h.of,
                   mission |-> IF Exists(h.m) THEN h.m ELSE None]
  <2>1. changes \in Seq(Change) /\ changes' = Append(changes, x) /\ UNCHANGED missions
    BY <1>1, <1>7 DEF create_mission_change, TypeInv, TypeOK, MTypeOK
  <2>2. h.type \in {"CREATE_MISSION", "ADD_CONTENT"} /\ h.m \in Missions /\ h.kind \in Kinds /\ h.of \in Subjects
    BY <1>2, <1>7, MissionFields
  <2>3. x \in Change /\ x.type = h.type /\ (Exists(h.m) => x.mission = h.m)
    BY <2>2 DEF Change, Kinds, Subjects
  <2> HIDE DEF x
  <2>4. /\ Len(changes) \in Nat /\ DOMAIN changes = 1..Len(changes) /\ DOMAIN changes' = 1..(Len(changes) + 1)
        /\ changes'[Len(changes) + 1] = x /\ \A i \in DOMAIN changes : changes'[i] = changes[i]
    BY <2>1, <2>3, Pushed
  <2>5. \A i \in DOMAIN changes' : i = Len(changes) + 1 \/ i \in DOMAIN changes
    BY <2>4
  <2>6. \A m : Exists(m)' = Exists(m)
    BY <2>1 DEF Exists
  <2>7. \A x1 \in Procs : \A n \in DOMAIN proc'[x1].stack : \A m \in Missions :
          Owes(proc'[x1].stack[n], m) => n \in DOMAIN proc[x1].stack /\ Owes(proc[x1].stack[n], m)
    BY <1>3, <1>7, Zenon
  <2>8. CASE h.type # "CREATE_MISSION"
    <3>1. \A m : Created(m)' = Created(m)
      BY <2>3, <2>4, <2>5, <2>8 DEF Created
    <3>2. CreatedOnce' /\ CreationsExist'
      BY <1>1, <2>1, <2>3, <2>4, <2>5, <2>8 DEF CreatedOnce, CreationsExist
    <3>3. Debts'
      BY <1>1, <2>6, <2>7, <3>1, DebtsKept
    <3> QED BY <3>2, <3>3 DEF CreateInv
  <2>9. CASE h.type = "CREATE_MISSION"
    <3>1. IsCreation(h)
      BY <1>7, <2>9 DEF IsCreation
    <3>2. /\ top \in DOMAIN proc[p].stack /\ Owes(proc[p].stack[top], h.m)
          /\ \A n \in DOMAIN q.stack : n # top
      BY <3>1, AtCreation DEF h, top
    <3>3. /\ Exists(h.m) /\ ~Created(h.m)
          /\ \A y \in Procs : \A l \in DOMAIN proc[y].stack : Owes(proc[y].stack[l], h.m) => y = p /\ l = top
      BY <1>1, <2>2, <3>2, Zenon DEF Debts
    <3>4. x.mission = h.m
      BY <2>3, <3>3
    <3>5. \A m : Created(m)' <=> Created(m) \/ m = h.m
      BY <2>3, <2>4, <2>5, <2>9, <3>4 DEF Created
    <3>6. CreatedOnce'
      <4>1. \A i \in DOMAIN changes : changes[i].type = "CREATE_MISSION" => changes[i].mission # h.m
        BY <3>3 DEF Created
      <4>2. \A i, j \in DOMAIN changes' :
              changes'[i].type = "CREATE_MISSION" /\ changes'[j].type = "CREATE_MISSION"
              /\ changes'[i].mission = changes'[j].mission => i = j
        BY <1>1, <2>4, <2>5, <3>4, <4>1 DEF CreatedOnce
      <4> QED BY <4>2 DEF CreatedOnce
    <3>7. CreationsExist'
      BY <1>1, <2>1, <2>4, <2>5, <3>3, <3>4 DEF CreationsExist, Exists
    <3>8. \A y \in Procs : \A n \in DOMAIN proc'[y].stack : \A m \in Missions :
            Owes(proc'[y].stack[n], m) => n \in DOMAIN proc[y].stack /\ Owes(proc[y].stack[n], m) /\ m # h.m
      <4> SUFFICES ASSUME NEW y \in Procs, NEW n \in DOMAIN proc'[y].stack, NEW m \in Missions,
                          Owes(proc'[y].stack[n], m)
                   PROVE  n \in DOMAIN proc[y].stack /\ Owes(proc[y].stack[n], m) /\ m # h.m
        BY Zenon
      <4>1. n \in DOMAIN proc[y].stack /\ Owes(proc[y].stack[n], m)
        BY <2>7, Zenon
      <4>2. m = h.m => y = p /\ n = top
        BY <3>3, <4>1, Zenon
      <4>3. ~(y = p /\ n = top)
        BY <1>4, <3>2, Zenon
      <4> QED BY <4>1, <4>2, <4>3
    <3>9. Debts'
      BY <1>1, <2>6, <3>5, <3>8, Zenon DEF Debts
    <3> QED BY <3>6, <3>7, <3>9 DEF CreateInv
  <2> QED BY <2>8, <2>9
<1>8. h.op = "create_mission" => create_mission(h.m, h.role)
  BY <1>2 DEF Effect, MissionEffect, SyncEffect, OtherOps
<1> QED BY <1>2, <1>5, <1>6, <1>7, <1>8, EffectOnMissions

-----------------------------------------------------------------------------
(* What reached a mission is recorded, or about to be. *)

LEMMA AtRecordNext ==
  ASSUME NEW x \in Procs, NEW m, NEW kind, NEW of, proc'[x].stack # <<>>, At(proc'[x]) = Record(m, kind, of)
  PROVE  AtRecord(m, kind, of)'
BY DEF AtRecord, Idle, Stmt, Top, At

\* A process other than the one that moves is still where it was.
LEMMA OthersAtRecord ==
  ASSUME NEW x \in Procs, proc'[x] = proc[x], ~Idle(x), NEW m, NEW kind, NEW of, Stmt(x) = Record(m, kind, of)
  PROVE  AtRecord(m, kind, of)'
BY DEF AtRecord, Idle, Stmt, Top

LEMMA RecordPasses ==
  ASSUME CoreInv, RecordInv, NEW p \in Procs, NEW q, Passes(p, q)
  PROVE  RecordInv'
<1>1. UNCHANGED <<missions, changes, contents, cots, ext>>
  BY DEF Passes, stores, mVars
<1>2. Grows(World, World)
  BY DEF Grows
<1>3. \A r \in Procs : r # p => proc'[r] = proc[r]
  BY <1>2, ProcsAfter DEF Passes, CoreInv
<1>4. ASSUME NEW m, NEW kind, NEW of, AtRecord(m, kind, of)
      PROVE  AtRecord(m, kind, of)'
  <2>1. PICK x \in Procs : ~Idle(x) /\ Stmt(x) = Record(m, kind, of)
    BY <1>4 DEF AtRecord
  <2>2. x # p
    BY <2>1 DEF Passes, Record
  <2> QED BY <1>3, <2>1, <2>2, OthersAtRecord
<1>5. \A kind, of, ms : Recorded(kind, of, ms)' = Recorded(kind, of, ms)
  BY <1>1 DEF Recorded
<1>6. \A m : Exists(m)' = Exists(m)
  BY <1>1 DEF Exists
<1> QED BY <1>1, <1>4, <1>5, <1>6, Zenon DEF RecordInv

LEMMA ChangeRecorded ==
  ASSUME TypeInv, NEW type \in {"CREATE_MISSION", "ADD_CONTENT"}, NEW m \in Missions, NEW kind \in Kinds,
         NEW of \in Subjects, create_mission_change(type, m, kind, of)
  PROVE  /\ \A k, o, ms : Recorded(k, o, ms) => Recorded(k, o, ms)'
         /\ Recorded(kind, of, {m, None})' /\ (Exists(m) => Recorded(kind, of, {m})')
<1> DEFINE x == [type |-> type, kind |-> kind, of |-> of, mission |-> IF Exists(m) THEN m ELSE None]
<1>1. changes' = Append(changes, x)
  BY DEF create_mission_change
<1>2. /\ x \in Change /\ x.kind = kind /\ x.of = of /\ x.mission \in {m, None}
      /\ Exists(m) => x.mission = m
  BY DEF Change, Kinds, Subjects
<1>3. changes \in Seq(Change)
  BY DEF TypeInv, TypeOK, MTypeOK
<1> HIDE DEF x
<1>4. /\ DOMAIN changes' = 1..(Len(changes) + 1) /\ DOMAIN changes = 1..Len(changes) /\ Len(changes) \in Nat
      /\ changes'[Len(changes) + 1] = x /\ \A i \in DOMAIN changes : changes'[i] = changes[i]
  BY <1>1, <1>2, <1>3, Pushed
<1>5. Len(changes) + 1 \in DOMAIN changes' /\ \A i \in DOMAIN changes : i \in DOMAIN changes'
  BY <1>4
<1>6. ASSUME NEW k, NEW o, NEW ms, Recorded(k, o, ms)
      PROVE  Recorded(k, o, ms)'
  BY <1>4, <1>5, <1>6 DEF Recorded
<1>7. ASSUME NEW ms, x.mission \in ms
      PROVE  Recorded(kind, of, ms)'
  BY <1>2, <1>4, <1>5, <1>7 DEF Recorded
<1>8. Recorded(kind, of, {m, None})'
  BY <1>2, <1>7
<1>9. Exists(m) => Recorded(kind, of, {m})'
  BY <1>2, <1>7
<1> QED BY <1>6, <1>8, <1>9

\* Executing keeps what is recorded, and turns what is about to be into a record.
LEMMA RecordKept ==
  ASSUME CoreInv, NEW p \in Procs, NEW q, NEW v, Executes(p, q, v), NEW h, h = Stmt(p)
  PROVE  /\ \A m : Exists(m) => Exists(m)'
         /\ \A kind, of, ms : Recorded(kind, of, ms) => Recorded(kind, of, ms)'
         /\ \A m, kind, of : AtRecord(m, kind, of) =>
              \/ AtRecord(m, kind, of)'
              \/ Recorded(kind, of, {m, None})' /\ (Exists(m) => Recorded(kind, of, {m})')
<1>1. TypeInv /\ Effect(h) /\ h \in Statement
  BY DEF CoreInv, Executes
<1>2. proc'[p] = q /\ \A r \in Procs : r # p => proc'[r] = proc[r]
  BY ProcsAfter DEF Executes, CoreInv
<1>4. \A m : Exists(m) => Exists(m)'
  BY <1>1, EffectOnMissions DEF Exists, create_mission, create_mission_change
<1>5. ASSUME h.op = "change", create_mission_change(h.type, h.m, h.kind, h.of)
      PROVE  /\ \A kind, of, ms : Recorded(kind, of, ms) => Recorded(kind, of, ms)'
             /\ Recorded(h.kind, h.of, {h.m, None})' /\ (Exists(h.m) => Recorded(h.kind, h.of, {h.m})')
  <2>2. h.type \in {"CREATE_MISSION", "ADD_CONTENT"} /\ h.m \in Missions /\ h.kind \in Kinds /\ h.of \in Subjects
    BY <1>1, <1>5, MissionFields
  <2> QED BY <1>1, <1>5, <2>2, ChangeRecorded
<1>6. \A kind, of, ms : Recorded(kind, of, ms) => Recorded(kind, of, ms)'
  <2>1. CASE UNCHANGED changes
    BY <2>1 DEF Recorded
  <2>2. CASE h.op = "change" /\ create_mission_change(h.type, h.m, h.kind, h.of)
    BY <1>5, <2>2
  <2> QED BY <1>1, <2>1, <2>2, EffectOnMissions DEF create_mission
<1>7. ASSUME NEW m, NEW kind, NEW of, AtRecord(m, kind, of), ~AtRecord(m, kind, of)'
      PROVE  Recorded(kind, of, {m, None})' /\ (Exists(m) => Recorded(kind, of, {m})')
  <2>1. PICK x \in Procs : ~Idle(x) /\ Stmt(x) = Record(m, kind, of)
    BY <1>7 DEF AtRecord
  <2>2. x = p
    BY <1>2, <1>7, <2>1, OthersAtRecord
  <2>3. h.op = "change" /\ h.m = m /\ h.kind = kind /\ h.of = of
    BY <2>1, <2>2 DEF Record
  <2>4. create_mission_change(h.type, h.m, h.kind, h.of)
    BY <1>1, <2>3 DEF Effect, MissionEffect, SyncEffect, OtherOps
  <2> QED BY <1>5, <2>3, <2>4
<1> QED BY <1>4, <1>6, <1>7

LEMMA EffectOnRecords ==
  ASSUME NEW h, Effect(h)
  PROVE  \/ h.op = "create_content" /\ create_mission_content(h.m, h.x)
         \/ h.op = "update_mission" /\ update_mission(h.m, h.x)
         \/ h.op = "create_cot" /\ create_mission_cot(h.m, h.c)
         \/ h.op = "add_external_data" /\ add_external_data(h.m, h.e, h.u)
         \/ UNCHANGED <<contents, cots, ext>>
BY DEF Effect, MissionEffect, SyncEffect, keyVars, mVars, create_mission, create_mission_change

LEMMA RecordExecutesOne ==
  ASSUME CoreInv, RecordInv, NEW p \in Procs, NEW q, NEW v, Executes(p, q, v), NEW h, h = Stmt(p)
  PROVE  RecordInv'
<1>1. TypeInv /\ Effect(h) /\ h \in Statement
  BY DEF CoreInv, Executes
<1>2. proc'[p] = q
  BY ProcsAfter DEF Executes, CoreInv
<1>3. /\ \A m : Exists(m) => Exists(m)'
      /\ \A kind, of, ms : Recorded(kind, of, ms) => Recorded(kind, of, ms)'
      /\ \A m, kind, of : AtRecord(m, kind, of) =>
           \/ AtRecord(m, kind, of)'
           \/ Recorded(kind, of, {m, None})' /\ (Exists(m) => Recorded(kind, of, {m})')
  BY RecordKept
<1>4. /\ h.op = "update_mission" => AtRecord(h.m, "content", h.x)'
      /\ h.op = "create_cot" => AtRecord(h.m, "cot", h.c)'
      /\ h.op = "add_external_data" => AtRecord(h.m, "external", h.e)'
  <2>1. h.op \in {"update_mission", "create_cot", "add_external_data"} =>
          q.stack # <<>> /\ Follows(h, At(q))
    BY DEF Executes, Ends
  <2>2. h.op = "update_mission" => q.stack # <<>> /\ At(q) = Record(h.m, "content", h.x)
    BY <2>1 DEF Follows
  <2>3. h.op = "create_cot" => q.stack # <<>> /\ At(q) = Record(h.m, "cot", h.c)
    BY <2>1 DEF Follows
  <2>4. h.op = "add_external_data" => q.stack # <<>> /\ At(q) = Record(h.m, "external", h.e)
    BY <2>1 DEF Follows
  <2> QED BY <1>2, <2>2, <2>3, <2>4, AtRecordNext
<1>5. \A r \in contents' : r.linked =>
        \/ r \in contents /\ r.linked
        \/ h.op = "update_mission" /\ r.id = h.x /\ r.mission = h.m /\ Exists(h.m)
  <2>1. CASE UNCHANGED contents
    BY <2>1
  <2>2. CASE create_mission_content(h.m, h.x)
    BY <2>2 DEF create_mission_content
  <2>3. CASE h.op = "update_mission" /\ update_mission(h.m, h.x)
    <3> SUFFICES ASSUME NEW r \in contents', r.linked, ~(r \in contents /\ r.linked)
                 PROVE  r.id = h.x /\ r.mission = h.m /\ Exists(h.m)
      BY <2>3
    <3>1. PICK y \in contents :
            r = IF <<y.id, y.mission>> = <<h.x, h.m>> THEN [y EXCEPT !.linked = TRUE] ELSE y
      BY <2>3 DEF update_mission
    <3>2. y \in [id : Contents, mission : Missions, linked : BOOLEAN]
      BY <1>1 DEF TypeInv, TypeOK, MTypeOK
    <3>3. y.id = h.x /\ y.mission = h.m /\ r = [y EXCEPT !.linked = TRUE]
      BY <3>1
    <3>4. r.id = y.id /\ r.mission = y.mission
      BY <3>2, <3>3
    <3> QED BY <2>3, <3>3, <3>4 DEF update_mission
  <2> QED BY <1>1, <2>1, <2>2, <2>3, EffectOnRecords DEF create_mission_cot, add_external_data
<1>6. \A x \in cots' : x \in cots \/ (h.op = "create_cot" /\ x = <<h.c, h.m>>)
  BY <1>1, EffectOnRecords DEF create_mission_cot, add_external_data, create_mission_content, update_mission
<1>7. \A r \in ext' : r \in ext \/ (h.op = "add_external_data" /\ r.id = h.e /\ r.mission = h.m /\ Exists(h.m))
  BY <1>1, EffectOnRecords DEF create_mission_cot, add_external_data, create_mission_content, update_mission
<1>8. ASSUME NEW r \in contents', r.linked
      PROVE  Exists(r.mission)' /\ (Recorded("content", r.id, {r.mission})' \/ AtRecord(r.mission, "content", r.id)')
  <2>1. CASE r \in contents
    <3>1. Exists(r.mission) /\ (Recorded("content", r.id, {r.mission}) \/ AtRecord(r.mission, "content", r.id))
      BY <1>8, <2>1 DEF RecordInv
    <3> QED BY <1>3, <3>1
  <2>2. CASE h.op = "update_mission" /\ r.id = h.x /\ r.mission = h.m /\ Exists(h.m)
    BY <1>3, <1>4, <2>2
  <2> QED BY <1>5, <1>8, <2>1, <2>2
<1>9. ASSUME NEW x \in cots'
      PROVE  Recorded("cot", x[1], {x[2], None})' \/ AtRecord(x[2], "cot", x[1])'
  <2>1. CASE x \in cots
    <3>1. Recorded("cot", x[1], {x[2], None}) \/ AtRecord(x[2], "cot", x[1])
      BY <2>1 DEF RecordInv
    <3> QED BY <1>3, <3>1
  <2>2. CASE h.op = "create_cot" /\ x = <<h.c, h.m>>
    BY <1>4, <2>2
  <2> QED BY <1>6, <2>1, <2>2
<1>10. ASSUME NEW r \in ext'
       PROVE  /\ Exists(r.mission)'
              /\ Recorded("external", r.id, {r.mission})' \/ AtRecord(r.mission, "external", r.id)'
  <2>1. CASE r \in ext
    <3>1. Exists(r.mission) /\ (Recorded("external", r.id, {r.mission}) \/ AtRecord(r.mission, "external", r.id))
      BY <2>1 DEF RecordInv
    <3> QED BY <1>3, <3>1
  <2>2. CASE h.op = "add_external_data" /\ r.id = h.e /\ r.mission = h.m /\ Exists(h.m)
    BY <1>3, <1>4, <2>2
  <2> QED BY <1>7, <2>1, <2>2
<1> QED BY <1>8, <1>9, <1>10, Zenon DEF RecordInv

LEMMA RecordExecutes ==
  ASSUME CoreInv, RecordInv, NEW p \in Procs, NEW q, NEW v, Executes(p, q, v)
  PROVE  RecordInv'
BY RecordExecutesOne

-----------------------------------------------------------------------------
(* Rows, additions and deletions are counted. *)

RowsIn(s, u) == {i \in DOMAIN s : s[i].uid = u}

\* The sets that are counted are finite.
LEMMA CountedFinite ==
  ASSUME NEW s \in Seq(Row), NEW u
  PROVE  IsFiniteSet(RowsIn(s, u)) /\ Cardinality(RowsIn(s, u)) \in Nat
<1>1. Len(s) \in Nat /\ DOMAIN s = 1..Len(s)
  OBVIOUS
<1>2. IsFiniteSet(1..Len(s))
  BY <1>1, FS_Interval
<1>3. RowsIn(s, u) \in SUBSET (1..Len(s))
  BY <1>1 DEF RowsIn
<1>4. IsFiniteSet(RowsIn(s, u))
  BY <1>2, <1>3, FS_Subset
<1> QED BY <1>4, FS_CardinalityType

LEMMA ProcessesFinite ==
  ASSUME NEW S \in SUBSET Procs
  PROVE  IsFiniteSet(S) /\ Cardinality(S) \in Nat
<1>1. IsFiniteSet(Procs)
  BY TakApiAssumption DEF Procs
<1>2. IsFiniteSet(S)
  BY <1>1, FS_Subset
<1> QED BY <1>2, FS_CardinalityType

\* Sets that differ in one element at most.
LEMMA OneMoves ==
  ASSUME NEW S, NEW T, NEW x, IsFiniteSet(S), IsFiniteSet(T), T \ {x} = S \ {x}
  PROVE  /\ (x \in S <=> x \in T) => Cardinality(T) = Cardinality(S)
         /\ x \in S /\ x \notin T => Cardinality(T) = Cardinality(S) - 1
         /\ x \notin S /\ x \in T => Cardinality(T) = Cardinality(S) + 1
<1>1. Cardinality(S) \in Nat /\ Cardinality(T) \in Nat
  BY FS_CardinalityType
<1>2. Cardinality(S \ {x}) = IF x \in S THEN Cardinality(S) - 1 ELSE Cardinality(S)
  BY FS_RemoveElement
<1>3. Cardinality(T \ {x}) = IF x \in T THEN Cardinality(T) - 1 ELSE Cardinality(T)
  BY FS_RemoveElement
<1>4. Cardinality(T \ {x}) = Cardinality(S \ {x})
  OBVIOUS
<1> QED BY ONLY <1>1, <1>2, <1>3, <1>4

\* A row is added.
LEMMA RowAdded ==
  ASSUME NEW s \in Seq(Row), NEW r \in Row, NEW u, NEW t, t = Append(s, r)
  PROVE  Cardinality(RowsIn(t, u)) = Cardinality(RowsIn(s, u)) + (IF r.uid = u THEN 1 ELSE 0)
<1>1. /\ t \in Seq(Row) /\ DOMAIN t = 1..(Len(s) + 1) /\ DOMAIN s = 1..Len(s) /\ Len(s) \in Nat
      /\ t[Len(s) + 1] = r /\ \A i \in DOMAIN s : t[i] = s[i]
  BY Pushed
<1>2. IsFiniteSet(RowsIn(s, u)) /\ IsFiniteSet(RowsIn(t, u)) /\ Cardinality(RowsIn(s, u)) \in Nat
  BY <1>1, CountedFinite
<1>3. /\ RowsIn(t, u) \ {Len(s) + 1} = RowsIn(s, u) \ {Len(s) + 1}
      /\ Len(s) + 1 \notin RowsIn(s, u) /\ (Len(s) + 1 \in RowsIn(t, u) <=> r.uid = u)
  BY <1>1 DEF RowsIn
<1>4. r.uid = u => Cardinality(RowsIn(t, u)) = Cardinality(RowsIn(s, u)) + 1
  BY <1>2, <1>3, OneMoves
<1>5. r.uid # u => Cardinality(RowsIn(t, u)) = Cardinality(RowsIn(s, u))
  BY <1>2, <1>3, OneMoves
<1> QED BY <1>2, <1>4, <1>5

\* A row is removed: those behind it move up by one place.
LEMMA RowRemoved ==
  ASSUME NEW s \in Seq(Row), NEW i \in DOMAIN s, NEW u, NEW t, t = RemoveAt(s, i)
  PROVE  Cardinality(RowsIn(t, u)) = Cardinality(RowsIn(s, u)) - (IF s[i].uid = u THEN 1 ELSE 0)
<1> DEFINE A == RowsIn(t, u)
           B == RowsIn(s, u) \ {i}
           f == [j \in A |-> IF j < i THEN j ELSE j + 1]
<1>1. /\ t \in Seq(Row) /\ Len(t) = Len(s) - 1
      /\ \A j \in 1..(Len(s) - 1) : t[j] = IF j < i THEN s[j] ELSE s[j+1]
  BY Removed
<1>2. DOMAIN s = 1..Len(s) /\ Len(s) \in Nat /\ DOMAIN t = 1..(Len(s) - 1) /\ i \in 1..Len(s)
  BY <1>1
<1>3. IsFiniteSet(RowsIn(s, u)) /\ IsFiniteSet(A) /\ Cardinality(RowsIn(s, u)) \in Nat
  BY <1>1, CountedFinite
<1>4. \A j \in A : f[j] \in B
  BY <1>1, <1>2 DEF RowsIn
<1>5. \A j, l \in A : f[j] = f[l] => j = l
  BY <1>2 DEF RowsIn
<1>6. \A l \in B : \E j \in A : f[j] = l
  <2> SUFFICES ASSUME NEW l \in B PROVE \E j \in A : f[j] = l
    OBVIOUS
  <2>1. l \in 1..Len(s) /\ l # i /\ s[l].uid = u
    BY <1>2 DEF RowsIn
  <2>2. CASE l < i
    <3>1. l \in A
      BY <1>1, <1>2, <2>1, <2>2 DEF RowsIn
    <3> QED BY <2>2, <3>1
  <2>3. CASE l > i
    <3>1. l - 1 \in A /\ ~(l - 1 < i) /\ l - 1 + 1 = l
      BY <1>1, <1>2, <2>1, <2>3 DEF RowsIn
    <3> QED BY <3>1
  <2> QED BY <1>2, <2>1, <2>2, <2>3
<1>7. f \in [A -> B]
  BY <1>4
<1> HIDE DEF f
<1>8. f \in Bijection(A, B)
  BY <1>5, <1>6, <1>7 DEF Bijection, Injection, Surjection, IsInjective
<1>9. Cardinality(B) = Cardinality(A)
  BY <1>3, <1>8, FS_Bijection DEF ExistsBijection
<1>10. Cardinality(B) = IF i \in RowsIn(s, u) THEN Cardinality(RowsIn(s, u)) - 1 ELSE Cardinality(RowsIn(s, u))
  BY <1>3, FS_RemoveElement
<1>11. i \in RowsIn(s, u) <=> s[i].uid = u
  BY DEF RowsIn
<1> QED BY <1>3, <1>9, <1>10, <1>11

LEMMA RowsCounted ==
  /\ \A u : RowsOf(u) = RowsIn(rows, u)
  /\ \A u : RowsOf(u)' = RowsIn(rows', u)
BY DEF RowsOf, RowsIn

LEMMA Counted ==
  ASSUME TypeInv, TypeInv', NEW u
  PROVE  /\ Cardinality(RowsOf(u)) \in Nat /\ Cardinality(RowsOf(u))' \in Nat
         /\ IsFiniteSet(RowsOf(u))
         /\ IsFiniteSet(Adding(u)) /\ Cardinality(Adding(u)) \in Nat
         /\ IsFiniteSet(Adding(u)') /\ Cardinality(Adding(u)') \in Nat
         /\ IsFiniteSet(Deleting(u)) /\ Cardinality(Deleting(u)) \in Nat
         /\ IsFiniteSet(Deleting(u)') /\ Cardinality(Deleting(u)') \in Nat
<1>1. rows \in Seq(Row) /\ rows' \in Seq(Row)
  BY DEF TypeInv, TypeOK, EsTypeOK
<1>2. /\ IsFiniteSet(RowsOf(u)) /\ Cardinality(RowsOf(u)) \in Nat /\ Cardinality(RowsOf(u))' \in Nat
  BY <1>1, CountedFinite, RowsCounted
<1>3. /\ Adding(u) \in SUBSET Procs /\ Adding(u)' \in SUBSET Procs
      /\ Deleting(u) \in SUBSET Procs /\ Deleting(u)' \in SUBSET Procs
  BY DEF Adding, Deleting
<1> QED BY <1>2, <1>3, ProcessesFinite

\* Who is about to add or to delete a row of an object, when process p moves.
LEMMA CountedMove ==
  ASSUME NEW p \in Procs, NEW q, proc'[p] = q, \A r \in Procs : r # p => proc'[r] = proc[r], NEW u
  PROVE  /\ Adding(u)' \ {p} = Adding(u) \ {p}
         /\ Deleting(u)' \ {p} = Deleting(u) \ {p}
         /\ p \in Adding(u) <=> ~Idle(p) /\ Stmt(p).op = "create_row" /\ Stmt(p).row.uid = u
         /\ p \in Deleting(u) <=> ~Idle(p) /\ Stmt(p).op = "delete_row" /\ Stmt(p).h = u
         /\ p \in Adding(u)' <=> q.stack # <<>> /\ At(q).op = "create_row" /\ At(q).row.uid = u
         /\ p \in Deleting(u)' <=> q.stack # <<>> /\ At(q).op = "delete_row" /\ At(q).h = u
<1>1. \A r \in Procs : r # p => (r \in Adding(u)' <=> r \in Adding(u)) /\ (r \in Deleting(u)' <=> r \in Deleting(u))
  BY DEF Adding, Deleting, Idle, Stmt, Top
<1>2. Adding(u)' \subseteq Procs /\ Adding(u) \subseteq Procs /\ Deleting(u)' \subseteq Procs /\ Deleting(u) \subseteq Procs
  BY DEF Adding, Deleting
<1>3. Adding(u)' \ {p} = Adding(u) \ {p} /\ Deleting(u)' \ {p} = Deleting(u) \ {p}
  BY <1>1, <1>2
<1>4. /\ p \in Adding(u) <=> ~Idle(p) /\ Stmt(p).op = "create_row" /\ Stmt(p).row.uid = u
      /\ p \in Deleting(u) <=> ~Idle(p) /\ Stmt(p).op = "delete_row" /\ Stmt(p).h = u
  BY DEF Adding, Deleting
<1>5. /\ p \in Adding(u)' <=> q.stack # <<>> /\ At(q).op = "create_row" /\ At(q).row.uid = u
      /\ p \in Deleting(u)' <=> q.stack # <<>> /\ At(q).op = "delete_row" /\ At(q).h = u
  BY DEF Adding, Deleting, Idle, Stmt, Top, At
<1> QED BY <1>3, <1>4, <1>5

\* One step of the count: what p leaves and enters, and what happens to the rows.
LEMMA CountOne ==
  ASSUME TypeInv, TypeInv', CountInv, NEW u \in Uids, NEW p,
         Adding(u)' \ {p} = Adding(u) \ {p}, Deleting(u)' \ {p} = Deleting(u) \ {p},
         NEW k \in -1..1, Cardinality(RowsOf(u))' = Cardinality(RowsOf(u)) + k,
         \* p ceases to be about to add a row only when the row is there
         p \in Adding(u) => k = 1,
         k < 0 => p \in Deleting(u) /\ p \notin Deleting(u)',
         p \notin Deleting(u) /\ p \in Deleting(u)' => files[u] # NoData /\ files'[u] = NoData /\ k = 0,
         files'[u] # NoData =>
           \/ files[u] # NoData
           \/ p \notin Adding(u) /\ p \in Adding(u)'
           \/ Deleting(u)' = {} /\ RowsOf(u) # {} /\ k = 0
  PROVE  /\ Cardinality(RowsOf(u))' + Cardinality(Adding(u))' >= Cardinality(Deleting(u))'
         /\ files'[u] # NoData => Cardinality(RowsOf(u))' + Cardinality(Adding(u))' > Cardinality(Deleting(u))'
<1> DEFINE R == Cardinality(RowsOf(u))
           S == Cardinality(RowsOf(u))'
           A == Cardinality(Adding(u))
           B == Cardinality(Adding(u)')
           D == Cardinality(Deleting(u))
           E == Cardinality(Deleting(u)')
<1>1. R \in Nat /\ S \in Nat /\ A \in Nat /\ B \in Nat /\ D \in Nat /\ E \in Nat /\ S = R + k /\ k \in -1..1
  BY Counted
<1>2. R + A >= D /\ (files[u] # NoData => R + A > D)
  BY DEF CountInv
<1>3. /\ (p \in Adding(u) <=> p \in Adding(u)') => B = A
      /\ p \in Adding(u) /\ p \notin Adding(u)' => B = A - 1
      /\ p \notin Adding(u) /\ p \in Adding(u)' => B = A + 1
  BY Counted, OneMoves
<1>4. /\ (p \in Deleting(u) <=> p \in Deleting(u)') => E = D
      /\ p \in Deleting(u) /\ p \notin Deleting(u)' => E = D - 1
      /\ p \notin Deleting(u) /\ p \in Deleting(u)' => E = D + 1
  BY Counted, OneMoves
<1>5. Deleting(u)' = {} => E = 0
  BY FS_EmptySet
<1>6. RowsOf(u) # {} => R > 0
  BY Counted, FS_EmptySet
<1> HIDE DEF R, S, A, B, D, E
<1>7. S + B >= E
  BY <1>1, <1>2, <1>3, <1>4
<1>8. files'[u] # NoData => S + B > E
  BY <1>1, <1>2, <1>3, <1>4, <1>5, <1>6
<1> QED BY <1>7, <1>8 DEF S, B, E

LEMMA CountStep ==
  ASSUME \A u \in Uids :
           /\ Cardinality(RowsOf(u))' + Cardinality(Adding(u))' >= Cardinality(Deleting(u))'
           /\ files'[u] # NoData => Cardinality(RowsOf(u))' + Cardinality(Adding(u))' > Cardinality(Deleting(u))'
  PROVE  CountInv'
BY DEF CountInv

LEMMA CountPasses ==
  ASSUME CoreInv, TypeInv', CountInv, NEW p \in Procs, NEW q, Passes(p, q)
  PROVE  CountInv'
<1>1. Grows(World, World)
  BY DEF Grows
<1>2. proc'[p] = q /\ \A r \in Procs : r # p => proc'[r] = proc[r]
  BY <1>1, ProcsAfter DEF Passes, CoreInv
<1>3. UNCHANGED <<rows, files>>
  BY DEF Passes, stores, esVars
<1> SUFFICES ASSUME NEW u \in Uids
             PROVE  /\ Cardinality(RowsOf(u))' + Cardinality(Adding(u))' >= Cardinality(Deleting(u))'
                    /\ files'[u] # NoData =>
                         Cardinality(RowsOf(u))' + Cardinality(Adding(u))' > Cardinality(Deleting(u))'
  BY CountStep
<1>4. /\ Adding(u)' \ {p} = Adding(u) \ {p} /\ Deleting(u)' \ {p} = Deleting(u) \ {p}
      /\ p \notin Adding(u) /\ p \notin Deleting(u)'
  BY <1>2, CountedMove DEF Passes
<1>5. TypeInv
  BY DEF CoreInv
<1>6. RowsOf(u)' = RowsOf(u)
  BY <1>3 DEF RowsOf
<1>7. Cardinality(RowsOf(u))' = Cardinality(RowsOf(u)) + 0
  BY <1>5, <1>6, Counted
<1>8. 0 \in -1..1 /\ ~(0 < 0)
  OBVIOUS
<1> QED BY <1>3, <1>4, <1>5, <1>7, <1>8, CountOne

LEMMA EffectOnSync ==
  ASSUME NEW h, Effect(h)
  PROVE  SyncEffect(h) \/ (h.op \notin SyncOps /\ UNCHANGED <<rows, files>>)
BY DEF Effect, MissionEffect, SyncOps, OtherOps, keyVars, esVars

\* What a statement does to the rows and to the file of one object.
LEMMA SyncCount ==
  ASSUME TypeInv, TypeInv', NEW h \in Statement, SyncEffect(h), NEW u \in Uids
  PROVE  \E k \in -1..1 :
           /\ Cardinality(RowsOf(u))' = Cardinality(RowsOf(u)) + k
           /\ k = IF h.op = "create_row" /\ h.row.uid = u THEN 1
                  ELSE IF h.op = "delete_row" /\ h.h = u THEN -1 ELSE 0
           /\ h.op = "delete_file" /\ h.h = u => files[u] # NoData /\ files'[u] = NoData
           /\ files'[u] # NoData =>
                \/ files[u] # NoData
                \/ h.op = "save_file" /\ h.u = u
                \/ u \in Checklists \cup Tasks /\ RowsOf(u) # {} /\ h.op = "update_file"
<1>1. /\ rows \in Seq(Row) /\ rows' \in Seq(Row) /\ files \in [Uids -> Data \cup {NoData}]
      /\ Cardinality(RowsOf(u)) \in Nat
  BY Counted DEF TypeInv, TypeOK, EsTypeOK
<1>2. CASE h.op = "save_file" /\ save_file(h.u, h.d)
  <2>1. h.u \in Uids /\ UNCHANGED rows /\ files' = [files EXCEPT ![h.u] = h.d]
    BY <1>2, SyncFields DEF save_file
  <2>2. RowsOf(u)' = RowsOf(u)
    BY <2>1 DEF RowsOf
  <2>3. u # h.u => files'[u] = files[u]
    BY <1>1, <2>1
  <2>4. 0 \in -1..1 /\ Cardinality(RowsOf(u))' = Cardinality(RowsOf(u)) + 0
    BY <1>1, <2>2
  <2> QED BY <1>2, <2>3, <2>4
<1>3. CASE h.op = "update_file" /\ get_enterprise_sync_data_object(h.u, NoData) # {} /\ save_file(h.u, h.d)
  <2>1. h.u \in Checklists \cup Tasks /\ h.u \in Uids /\ UNCHANGED rows /\ files' = [files EXCEPT ![h.u] = h.d]
    BY <1>3, SyncFields DEF save_file
  <2>2. RowsOf(u)' = RowsOf(u)
    BY <2>1 DEF RowsOf
  <2>3. u # h.u => files'[u] = files[u]
    BY <1>1, <2>1
  <2>4. 0 \in -1..1 /\ Cardinality(RowsOf(u))' = Cardinality(RowsOf(u)) + 0
    BY <1>1, <2>2
  <2>5. RowsOf(h.u) # {}
    <3>1. \A i \in DOMAIN rows : rows[i].hash # NoData
      <4>1. \A i \in DOMAIN rows : rows[i] \in Row
        BY <1>1
      <4>2. \A r \in Row : r.hash \in Data
        BY DEF Row
      <4> QED BY <4>1, <4>2, NoDataAssumption
    <3>2. ByHash(NoData) = {}
      BY <3>1 DEF ByHash, FirstOf
    <3>3. ByUid(h.u) # {}
      BY <1>3, <3>2 DEF get_enterprise_sync_data_object
    <3> QED BY <3>3 DEF ByUid, FirstOf, RowsOf
  <2> QED BY <1>3, <2>1, <2>3, <2>4, <2>5
<1>4. CASE h.op = "create_row" /\ create_enterprise_sync_data_object(h.row)
  <2>1. h.row \in Row /\ rows' = Append(rows, h.row) /\ UNCHANGED files
    BY <1>4, SyncFields DEF create_enterprise_sync_data_object
  <2>2. Cardinality(RowsIn(rows', u)) = Cardinality(RowsIn(rows, u)) + (IF h.row.uid = u THEN 1 ELSE 0)
    <3>1. rows \in Seq(Row) /\ h.row \in Row /\ rows' = Append(rows, h.row)
      BY <1>1, <2>1
    <3> QED BY <3>1, RowAdded, Zenon
  <2>3. Cardinality(RowsOf(u))' = Cardinality(RowsOf(u)) + (IF h.row.uid = u THEN 1 ELSE 0)
    BY <2>2, RowsCounted
  <2>4. 0 \in -1..1 /\ 1 \in -1..1
    OBVIOUS
  <2> QED BY <1>4, <2>1, <2>3, <2>4
<1>5. CASE h.op = "update_row" /\ update_enterprise_sync_object(h.u, h.h, h.p)
  <2>1. EsType
    BY DEF EsType, TypeInv, TypeOK
  <2>2. h.u \in Uids /\ (h.h = NoData \/ (h.h \in Data /\ h.h \in ContentOf(h.u))) /\ h.p \in 0..1
    BY <1>5, SyncFields
  <2>3. /\ UNCHANGED files /\ DOMAIN rows' = DOMAIN rows
        /\ \A i \in DOMAIN rows : rows'[i].uid = rows[i].uid
    BY <1>5, <2>1, <2>2, UpdateRowType
  <2>4. RowsOf(u)' = RowsOf(u)
    BY <2>3 DEF RowsOf
  <2>5. 0 \in -1..1 /\ Cardinality(RowsOf(u))' = Cardinality(RowsOf(u)) + 0
    BY <1>1, <2>4
  <2> QED BY <1>5, <2>3, <2>5
<1>6. CASE h.op = "delete_file" /\ \E r \in MetadataOf(h.h) : files[r.uid] # NoData /\ delete_file(r.uid)
  <2>1. h.h \in Packages
    BY <1>6, SyncFields
  <2>2. files[h.h] # NoData /\ delete_file(h.h)
    BY <1>6, <2>1, DeletedFile
  <2>3. UNCHANGED rows /\ files' = [files EXCEPT ![h.h] = NoData] /\ h.h \in Uids
    BY <2>1, <2>2, TakApiAssumption DEF delete_file
  <2>4. RowsOf(u)' = RowsOf(u)
    BY <2>3 DEF RowsOf
  <2>5. 0 \in -1..1 /\ Cardinality(RowsOf(u))' = Cardinality(RowsOf(u)) + 0
    BY <1>1, <2>4
  <2>6. (u # h.h => files'[u] = files[u]) /\ files'[h.h] = NoData
    BY <1>1, <2>3
  <2> QED BY <1>6, <2>2, <2>5, <2>6
<1>7. CASE h.op = "delete_row" /\ delete_enterprise_sync_object(h.h)
  <2>1. h.h \in Packages
    BY <1>7, SyncFields
  <2>2. PICK i \in ByHash(h.h) : rows' = RemoveAt(rows, i)
    BY <1>7 DEF delete_enterprise_sync_object
  <2>3. UNCHANGED files /\ i \in DOMAIN rows /\ rows[i].hash = h.h
    BY <1>7 DEF delete_enterprise_sync_object, ByHash, FirstOf
  <2>4. rows[i].uid = h.h
    <3>1. h.h \in ContentOf(rows[i].uid)
      BY <2>3 DEF TypeInv, StoreType
    <3>2. h.h \notin Doc
      BY <2>1, Contained DEF Objects
    <3> QED BY <3>1, <3>2 DEF ContentOf
  <2>5. Cardinality(RowsIn(rows', u)) = Cardinality(RowsIn(rows, u)) - (IF rows[i].uid = u THEN 1 ELSE 0)
    BY <1>1, <2>2, <2>3, RowRemoved
  <2>6. Cardinality(RowsOf(u))' = Cardinality(RowsOf(u)) - (IF h.h = u THEN 1 ELSE 0)
    BY <2>4, <2>5, RowsCounted
  <2>7. /\ 0 \in -1..1 /\ -1 \in -1..1
        /\ h.h = u => Cardinality(RowsOf(u))' = Cardinality(RowsOf(u)) + (-1)
        /\ h.h # u => Cardinality(RowsOf(u))' = Cardinality(RowsOf(u)) + 0
    BY <1>1, <2>6
  <2> QED BY <1>7, <2>3, <2>7
<1> QED BY <1>2, <1>3, <1>4, <1>5, <1>6, <1>7 DEF SyncEffect

LEMMA CountExecutesOne ==
  ASSUME CoreInv, TypeInv', CountInv, NEW p \in Procs, NEW q, NEW v, Executes(p, q, v), NEW h, h = Stmt(p)
  PROVE  CountInv'
<1>1. TypeInv /\ Effect(h) /\ h \in Statement /\ ~Idle(p)
  BY DEF CoreInv, Executes
<1>2. proc'[p] = q /\ \A r \in Procs : r # p => proc'[r] = proc[r]
  BY ProcsAfter DEF Executes, CoreInv
<1> SUFFICES ASSUME NEW u \in Uids
             PROVE  /\ Cardinality(RowsOf(u))' + Cardinality(Adding(u))' >= Cardinality(Deleting(u))'
                    /\ files'[u] # NoData =>
                         Cardinality(RowsOf(u))' + Cardinality(Adding(u))' > Cardinality(Deleting(u))'
  BY CountStep
<1>3. /\ Adding(u)' \ {p} = Adding(u) \ {p}
      /\ Deleting(u)' \ {p} = Deleting(u) \ {p}
      /\ p \in Adding(u) <=> h.op = "create_row" /\ h.row.uid = u
      /\ p \in Deleting(u) <=> h.op = "delete_row" /\ h.h = u
      /\ p \in Adding(u)' <=> q.stack # <<>> /\ At(q).op = "create_row" /\ At(q).row.uid = u
      /\ p \in Deleting(u)' <=> q.stack # <<>> /\ At(q).op = "delete_row" /\ At(q).h = u
  BY <1>1, <1>2, CountedMove
<1>4. h.op = "save_file" /\ h.u = u => p \in Adding(u)'
  <2>1. h.op = "save_file" => q.stack # <<>> /\ Follows(h, At(q))
    BY DEF Executes, Ends
  <2> QED BY <1>3, <2>1 DEF Follows
<1>5. p \in Deleting(u)' => h.op = "delete_file" /\ h.h = u
  <2>1. q.stack # <<>> /\ At(q).op = "delete_row" => Follows(h, At(q))
    BY DEF Executes
  <2> QED BY <1>3, <2>1 DEF Follows
<1>6. u \in Checklists \cup Tasks /\ h.op = "update_file" => Deleting(u)' = {}
  <2> SUFFICES ASSUME u \in Checklists \cup Tasks, h.op = "update_file" PROVE Deleting(u)' = {}
    OBVIOUS
  <2>1. u \notin Packages
    BY TakApiAssumption
  <2>2. p \notin Deleting(u)'
    BY <1>5
  <2>3. ASSUME NEW r \in Procs, r \in Deleting(u) PROVE FALSE
    <3>1. ~Idle(r) /\ Stmt(r).op = "delete_row" /\ Stmt(r).h = u
      BY <2>3 DEF Deleting
    <3>2. Stmt(r) \in Statement
      BY <3>1, AtWork DEF CoreInv
    <3> QED BY <2>1, <3>1, <3>2, SyncFields
  <2>4. Deleting(u) \subseteq Procs
    BY DEF Deleting
  <2> QED BY <1>3, <2>2, <2>3, <2>4
<1>7. \E k \in -1..1 :
        /\ Cardinality(RowsOf(u))' = Cardinality(RowsOf(u)) + k
        /\ k = IF h.op = "create_row" /\ h.row.uid = u THEN 1
               ELSE IF h.op = "delete_row" /\ h.h = u THEN -1 ELSE 0
        /\ h.op = "delete_file" /\ h.h = u => files[u] # NoData /\ files'[u] = NoData
        /\ files'[u] # NoData =>
             \/ files[u] # NoData
             \/ h.op = "save_file" /\ h.u = u
             \/ u \in Checklists \cup Tasks /\ RowsOf(u) # {} /\ h.op = "update_file"
  <2>1. CASE SyncEffect(h)
    BY <1>1, <2>1, SyncCount
  <2>2. CASE h.op \notin SyncOps /\ UNCHANGED <<rows, files>>
    <3>1. RowsOf(u)' = RowsOf(u)
      BY <2>2 DEF RowsOf
    <3>2. 0 \in -1..1 /\ Cardinality(RowsOf(u))' = Cardinality(RowsOf(u)) + 0
      BY <1>1, <3>1, Counted
    <3> QED BY <2>2, <3>2 DEF SyncOps
  <2> QED BY <1>1, <2>1, <2>2, EffectOnSync
<1>8. PICK k \in -1..1 :
        /\ Cardinality(RowsOf(u))' = Cardinality(RowsOf(u)) + k
        /\ k = IF h.op = "create_row" /\ h.row.uid = u THEN 1
               ELSE IF h.op = "delete_row" /\ h.h = u THEN -1 ELSE 0
        /\ h.op = "delete_file" /\ h.h = u => files[u] # NoData /\ files'[u] = NoData
        /\ files'[u] # NoData =>
             \/ files[u] # NoData
             \/ h.op = "save_file" /\ h.u = u
             \/ u \in Checklists \cup Tasks /\ RowsOf(u) # {} /\ h.op = "update_file"
  BY <1>7
<1>9. /\ p \in Adding(u) => k = 1
      /\ k < 0 => p \in Deleting(u) /\ p \notin Deleting(u)'
      /\ p \notin Deleting(u) /\ p \in Deleting(u)' => files[u] # NoData /\ files'[u] = NoData /\ k = 0
  BY <1>3, <1>5, <1>8
<1>10. files'[u] # NoData =>
         \/ files[u] # NoData
         \/ p \notin Adding(u) /\ p \in Adding(u)'
         \/ Deleting(u)' = {} /\ RowsOf(u) # {} /\ k = 0
  BY <1>3, <1>4, <1>6, <1>8
<1> QED BY <1>1, <1>3, <1>8, <1>9, <1>10, CountOne

LEMMA CountExecutes ==
  ASSUME CoreInv, TypeInv', CountInv, NEW p \in Procs, NEW q, NEW v, Executes(p, q, v)
  PROVE  CountInv'
BY CountExecutesOne

-----------------------------------------------------------------------------
(* The server starts with everything in place. *)

\* A sequence that begins with a and goes on with the n elements of f.
Prefixed(c, a, f) == c = <<a>> \o f

Starts(c, S, n, a, f) ==
  c \in Seq(S) /\ DOMAIN c = 1..(n+1) /\ c[1] = a /\ \A i \in 2..(n+1) : c[i] = f[i-1]

LEMMA TupleAndMore ==
  ASSUME NEW S, NEW a \in S, NEW n \in Nat, NEW f \in [1..n -> S], NEW c, Prefixed(c, a, f)
  PROVE  Starts(c, S, n, a, f)
<1>1. <<a>> \in Seq(S) /\ Len(<<a>>) = 1 /\ <<a>>[1] = a
  OBVIOUS
<1>2. f \in Seq(S) /\ Len(f) = n
  OBVIOUS
<1>3. /\ c \in Seq(S) /\ Len(c) = 1 + n
      /\ \A i \in 1..(1 + n) : c[i] = IF i <= 1 THEN <<a>>[i] ELSE f[i - 1]
  <2>1. /\ <<a>> \o f \in Seq(S) /\ Len(<<a>> \o f) = Len(<<a>>) + Len(f)
        /\ \A i \in 1..(Len(<<a>>) + Len(f)) :
             (<<a>> \o f)[i] = IF i <= Len(<<a>>) THEN <<a>>[i] ELSE f[i - Len(<<a>>)]
    BY ONLY <1>1, <1>2, ConcatProperties, Zenon
  <2> QED BY <1>1, <1>2, <2>1 DEF Prefixed
<1>4. DOMAIN c = 1..(n+1)
  BY <1>3
<1>5. c[1] = a
  BY ONLY <1>1, <1>3, n \in Nat
<1>6. \A i \in 2..(n+1) : c[i] = f[i-1]
  BY ONLY <1>3, n \in Nat
<1> QED BY <1>3, <1>4, <1>5, <1>6 DEF Starts

Creation(m) == [type |-> "CREATE_MISSION", kind |-> "mission", of |-> None, mission |-> m]
Addition(m, t) == [type |-> "ADD_CONTENT", kind |-> "content", of |-> t, mission |-> m]
Stored(t) == [uid |-> t, hash |-> t, zip |-> FALSE, private |-> 0]

LEMMA InitRows ==
  ASSUME Init
  PROVE  \E n \in Nat : \E stored \in [1..n -> Loaded] :
           /\ Range(stored) = Loaded
           /\ rows \in Seq(Row) /\ DOMAIN rows = 1..n /\ \A i \in 1..n : rows[i] = Stored(stored[i])
           /\ changes \in Seq(Change) /\ DOMAIN changes = 1..(n+1) /\ changes[1] = Creation(TemplateMission)
           /\ \A i \in 2..(n+1) : changes[i] = Addition(TemplateMission, stored[i-1])
<1> DEFINE n == Cardinality(Loaded)
<1>1. n \in Nat
  BY TakApiAssumption, FS_CardinalityType
<1>2. PICK stored \in [1..n -> Loaded] :
        /\ Range(stored) = Loaded
        /\ rows = [i \in DOMAIN stored |-> Stored(stored[i])]
        /\ changes = <<Creation(TemplateMission)>>
                       \o [i \in DOMAIN stored |-> Addition(TemplateMission, stored[i])]
  BY DEF Init, Stored, Creation, Addition
<1>3. DOMAIN stored = 1..n /\ \A i \in 1..n : stored[i] \in Loaded
  OBVIOUS
<1>4. \A t \in Loaded : Stored(t) \in Row
  <2>1. \A t \in Loaded : t \in Uids /\ t \in Data
    BY TakApiAssumption
  <2> QED BY <2>1 DEF Stored, Row
<1>5. Creation(TemplateMission) \in Change /\ \A t \in Loaded : Addition(TemplateMission, t) \in Change
  <2>1. TemplateMission \in Missions /\ \A t \in Loaded : t \in Contents
    BY TakApiAssumption
  <2> QED BY <2>1 DEF Creation, Addition, Change
<1> DEFINE f == [i \in DOMAIN stored |-> Addition(TemplateMission, stored[i])]
<1>6. f \in [1..n -> Change] /\ \A i \in 1..n : f[i] = Addition(TemplateMission, stored[i])
  BY <1>3, <1>5
<1>7. changes = <<Creation(TemplateMission)>> \o f
  BY <1>2
<1> HIDE DEF f, n
<1>8. /\ changes \in Seq(Change) /\ DOMAIN changes = 1..(n+1) /\ changes[1] = Creation(TemplateMission)
      /\ \A i \in 2..(n+1) : changes[i] = f[i-1]
  <2>1. Starts(changes, Change, n, Creation(TemplateMission), f)
    BY <1>1, <1>5, <1>6, <1>7, TupleAndMore DEF Prefixed
  <2> QED BY <2>1 DEF Starts
<1>9. \A i \in 2..(n+1) : changes[i] = Addition(TemplateMission, stored[i-1])
  <2>1. \A i \in 2..(n+1) : i - 1 \in 1..n
    BY <1>1
  <2> QED BY <1>6, <1>8, <2>1
<1>10. rows = [i \in 1..n |-> Stored(stored[i])]
  BY <1>2, <1>3
<1>11. rows \in Seq(Row) /\ DOMAIN rows = 1..n /\ \A i \in 1..n : rows[i] = Stored(stored[i])
  <2>1. rows \in [1..n -> Row]
    BY <1>3, <1>4, <1>10
  <2>2. rows \in Seq(Row)
    BY <1>1, <2>1
  <2> QED BY <1>10, <2>2
<1> QED BY <1>1, <1>2, <1>8, <1>9, <1>11

LEMMA InitProcs ==
  ASSUME Init
  PROVE  /\ proc \in [Procs -> [stack : Seq(Program), ok : BOOLEAN]]
         /\ \A p \in Procs : proc[p].stack = <<>> /\ DOMAIN proc[p].stack = {} /\ Idle(p)
<1>1. proc = [p \in Procs |-> [stack |-> <<>>, ok |-> TRUE]]
  BY DEF Init
<1>2. [stack |-> <<>>, ok |-> TRUE] \in [stack : Seq(Program), ok : BOOLEAN]
  OBVIOUS
<1> QED BY <1>1, <1>2 DEF Idle

LEMMA InitTypes ==
  ASSUME Init
  PROVE  TypeInv
<1>1. PICK n \in Nat : \E stored \in [1..n -> Loaded] :
           /\ Range(stored) = Loaded
           /\ rows \in Seq(Row) /\ DOMAIN rows = 1..n /\ \A i \in 1..n : rows[i] = Stored(stored[i])
           /\ changes \in Seq(Change) /\ DOMAIN changes = 1..(n+1) /\ changes[1] = Creation(TemplateMission)
           /\ \A i \in 2..(n+1) : changes[i] = Addition(TemplateMission, stored[i-1])
  BY InitRows
<1>2. PICK stored \in [1..n -> Loaded] :
           /\ rows \in Seq(Row) /\ DOMAIN rows = 1..n /\ \A i \in 1..n : rows[i] = Stored(stored[i])
           /\ changes \in Seq(Change)
  BY <1>1
<1>3. /\ TemplateMission \in Missions /\ ExCheckClient \in Clients /\ Loaded \subseteq Templates
      /\ \A t \in Loaded : t \in Uids /\ t \in Data /\ t \in Contents /\ t \in Objects
  BY TakApiAssumption DEF Objects
<1>4. files = [u \in Uids |-> IF u \in Loaded THEN u ELSE NoData]
  BY DEF Init
<1>5. EsTypeOK
  BY <1>2, <1>3, <1>4 DEF EsTypeOK
<1>6. StoreType
  <2>1. \A u \in Uids : files[u] \in ContentOf(u) \cup {NoData}
    BY <1>3, <1>4 DEF ContentOf
  <2>2. \A t \in Loaded : Stored(t).hash \in ContentOf(Stored(t).uid)
    BY <1>3 DEF ContentOf, Stored
  <2>3. \A i \in 1..n : stored[i] \in Loaded
    OBVIOUS
  <2> QED BY <1>2, <2>1, <2>2, <2>3 DEF StoreType
<1>7. MTypeOK
  <2>1. missions = [m \in {TemplateMission} |-> "MISSION_OWNER"]
    BY DEF Init
  <2>2. DOMAIN missions = {TemplateMission} /\ missions[TemplateMission] = "MISSION_OWNER"
    BY <2>1
  <2>3. DOMAIN missions \subseteq Missions /\ \A m \in DOMAIN missions : missions[m] \in Roles \cup {None}
    BY <1>3, <2>2 DEF Roles
  <2>4. subs \in Seq([id : Nat, mission : Missions, client : Clients, role : Roles \cup {None}])
    <3>1. [id |-> 1, mission |-> TemplateMission, client |-> ExCheckClient, role |-> "MISSION_OWNER"]
            \in [id : Nat, mission : Missions, client : Clients, role : Roles \cup {None}]
      BY <1>3 DEF Roles
    <3> QED BY <3>1 DEF Init
  <2>5. contents \subseteq [id : Contents, mission : Missions, linked : BOOLEAN]
    <3>1. \A t \in Loaded : [id |-> t, mission |-> TemplateMission, linked |-> TRUE]
                               \in [id : Contents, mission : Missions, linked : BOOLEAN]
      BY <1>3
    <3>2. contents = {[id |-> t, mission |-> TemplateMission, linked |-> TRUE] : t \in Loaded}
      BY DEF Init
    <3> QED BY <3>1, <3>2, Zenon
  <2>6. /\ invites \in Seq([mission : Missions, sub : Nat \cup {None}])
        /\ mlogs \in Seq((Nat \cup {None}) \X Missions) /\ rels \in Seq(Missions \X Missions)
    BY DEF Init
  <2>7. cots \subseteq Cots \X Missions /\ logs \subseteq Nat /\ ext \subseteq [id : Nat, uid : ExtUids, mission : Missions]
    BY DEF Init
  <2> QED BY <1>2, <2>3, <2>4, <2>5, <2>6, <2>7 DEF MTypeOK
<1>8. XTypeOK /\ links \subseteq Checklists \X Missions
  <2>1. templates = Loaded /\ checklists = {} /\ tasks = <<>> /\ links = {} /\ DOMAIN tasks = {}
    BY DEF Init
  <2> QED BY <1>3, <2>1 DEF XTypeOK
<1>9. /\ DOMAIN proc = Procs /\ (\A p \in Procs : proc[p].ok \in BOOLEAN) /\ ProcType
  BY InitProcs DEF ProcType
<1>10. IsABag(queue) /\ DOMAIN queue \subseteq Request
  BY BagTypes DEF Init
<1>11. cotStore \subseteq Cots /\ drawn \subseteq Checklists /\ nreq \in 0..MaxRequests
  BY TakApiAssumption DEF Init
<1>12. TypeOK
  BY <1>5, <1>7, <1>8, <1>9, <1>10, <1>11 DEF TypeOK
<1> QED BY <1>6, <1>9, <1>10, <1>12 DEF TypeInv

LEMMA InitReady ==
  ASSUME Init
  PROVE  ReadyInv
<1>1. MissionCotsResolve
  BY DEF Init, MissionCotsResolve
<1>2. DocumentsComplete
  <2>1. files = [u \in Uids |-> IF u \in Loaded THEN u ELSE NoData] /\ DOMAIN missions = {TemplateMission}
    BY DEF Init
  <2>2. \A k \in Checklists : k \in Uids /\ k \notin Loaded /\ k # TemplateMission
    BY TakApiAssumption
  <2>3. \A k \in Checklists : files[k] = NoData /\ ~Exists(k)
    BY <2>1, <2>2 DEF Exists
  <2> QED BY <2>3 DEF DocumentsComplete
<1>3. \A i \in DOMAIN changes :
        LET x == changes[i] IN x.mission # None => HeldReady(World, x.mission, x.kind, x.of, {})
  <2>1. PICK n \in Nat : \E stored \in [1..n -> Loaded] :
           /\ Range(stored) = Loaded
           /\ rows \in Seq(Row) /\ DOMAIN rows = 1..n /\ \A i \in 1..n : rows[i] = Stored(stored[i])
           /\ changes \in Seq(Change) /\ DOMAIN changes = 1..(n+1) /\ changes[1] = Creation(TemplateMission)
           /\ \A i \in 2..(n+1) : changes[i] = Addition(TemplateMission, stored[i-1])
    BY InitRows
  <2>2. PICK stored \in [1..n -> Loaded] :
           /\ DOMAIN changes = 1..(n+1) /\ changes[1] = Creation(TemplateMission)
           /\ \A i \in 2..(n+1) : changes[i] = Addition(TemplateMission, stored[i-1])
    BY <2>1
  <2>3. \A t \in Loaded : <<TemplateMission, "content", t>> \in World.held
    <3>1. \A t \in Loaded : [id |-> t, mission |-> TemplateMission, linked |-> TRUE] \in contents
      BY DEF Init
    <3>2. \A r \in contents : <<r.mission, "content", r.id>> \in World.held
      BY DEF World, WorldOf
    <3>3. ASSUME NEW t \in Loaded PROVE <<TemplateMission, "content", t>> \in World.held
      <4> DEFINE r == [id |-> t, mission |-> TemplateMission, linked |-> TRUE]
      <4>1. r \in contents /\ r.mission = TemplateMission /\ r.id = t
        BY <3>1
      <4> HIDE DEF r
      <4> QED BY <3>2, <4>1
    <3> QED BY <3>3
  <2>4. HeldReady(World, TemplateMission, "mission", None, {})
    BY DEF HeldReady
  <2>5. \A t \in Loaded : HeldReady(World, TemplateMission, "content", t, {})
    BY <2>3 DEF HeldReady
  <2>6. ASSUME NEW i \in DOMAIN changes
        PROVE  HeldReady(World, changes[i].mission, changes[i].kind, changes[i].of, {})
    <3>1. CASE i = 1
      BY <2>2, <2>4, <3>1 DEF Creation
    <3>2. CASE i # 1
      <4>1. i \in 2..(n+1) /\ stored[i-1] \in Loaded
        BY <2>2, <3>2
      <4>2. changes[i] = Addition(TemplateMission, stored[i-1])
        BY <2>2, <4>1
      <4> QED BY <2>5, <4>1, <4>2 DEF Addition
    <3> QED BY <3>1, <3>2
  <2> QED BY <2>6
<1>4. StoresRight
  BY <1>1, <1>2, <1>3 DEF StoresRight, Init
<1>5. \A r \in DOMAIN queue : RequestReady(World, r, {}, {})
  BY BagTypes DEF Init
<1>6. \A p \in Procs : StackReady(World, proc[p].stack)
  BY InitProcs DEF StackReady
<1> QED BY <1>4, <1>5, <1>6 DEF ReadyInv

LEMMA InitShape ==
  ASSUME Init
  PROVE  ShapeInv
BY InitProcs DEF ShapeInv, StackShape

LEMMA InitCreate ==
  ASSUME Init
  PROVE  CreateInv
<1>1. PICK n \in Nat : \E stored \in [1..n -> Loaded] :
         /\ Range(stored) = Loaded
         /\ rows \in Seq(Row) /\ DOMAIN rows = 1..n /\ \A i \in 1..n : rows[i] = Stored(stored[i])
         /\ changes \in Seq(Change) /\ DOMAIN changes = 1..(n+1) /\ changes[1] = Creation(TemplateMission)
         /\ \A i \in 2..(n+1) : changes[i] = Addition(TemplateMission, stored[i-1])
  BY InitRows
<1>2. PICK stored \in [1..n -> Loaded] :
         /\ DOMAIN changes = 1..(n+1) /\ changes[1] = Creation(TemplateMission)
         /\ \A i \in 2..(n+1) : changes[i] = Addition(TemplateMission, stored[i-1])
  BY <1>1
<1>3. \A i \in DOMAIN changes : i = 1 \/ changes[i].type = "ADD_CONTENT"
  <2>1. \A i \in DOMAIN changes : i = 1 \/ i \in 2..(n+1)
    BY <1>2
  <2>2. \A t : Addition(TemplateMission, t).type = "ADD_CONTENT"
    BY DEF Addition
  <2> QED BY <1>2, <2>1, <2>2
<1>4. \A i \in DOMAIN changes : changes[i].type = "CREATE_MISSION" => i = 1
  BY <1>3
<1>5. CreatedOnce
  BY <1>4 DEF CreatedOnce
<1>6. changes[1].mission = TemplateMission /\ DOMAIN missions = {TemplateMission}
  BY <1>2 DEF Creation, Init
<1>7. CreationsExist
  BY <1>4, <1>6 DEF CreationsExist
<1>8. Debts
  BY InitProcs DEF Debts
<1> QED BY <1>5, <1>7, <1>8 DEF CreateInv

LEMMA InitRecord ==
  ASSUME Init
  PROVE  RecordInv
<1>1. PICK n \in Nat : \E stored \in [1..n -> Loaded] :
         /\ Range(stored) = Loaded
         /\ rows \in Seq(Row) /\ DOMAIN rows = 1..n /\ \A i \in 1..n : rows[i] = Stored(stored[i])
         /\ changes \in Seq(Change) /\ DOMAIN changes = 1..(n+1) /\ changes[1] = Creation(TemplateMission)
         /\ \A i \in 2..(n+1) : changes[i] = Addition(TemplateMission, stored[i-1])
  BY InitRows
<1>2. PICK stored \in [1..n -> Loaded] :
         /\ Range(stored) = Loaded /\ DOMAIN changes = 1..(n+1)
         /\ \A i \in 2..(n+1) : changes[i] = Addition(TemplateMission, stored[i-1])
  BY <1>1
<1>3. \A t \in Loaded : Recorded("content", t, {TemplateMission})
  <2> SUFFICES ASSUME NEW t \in Loaded PROVE Recorded("content", t, {TemplateMission})
    OBVIOUS
  <2>1. PICK i \in 1..n : stored[i] = t
    BY <1>2 DEF Range
  <2>2. i + 1 \in DOMAIN changes /\ i + 1 \in 2..(n+1) /\ i + 1 - 1 = i
    BY <1>2
  <2>3. changes[i+1] = Addition(TemplateMission, t)
    BY <1>2, <2>1, <2>2
  <2> QED BY <2>2, <2>3 DEF Addition, Recorded
<1>4. Exists(TemplateMission)
  BY DEF Init, Exists
<1>5. \A r \in contents : r.mission = TemplateMission /\ r.id \in Loaded
  BY DEF Init
<1>6. cots = {} /\ ext = {}
  BY DEF Init
<1> QED BY <1>3, <1>4, <1>5, <1>6, Zenon DEF RecordInv

LEMMA InitCount ==
  ASSUME Init
  PROVE  CountInv
<1>1. PICK n \in Nat : \E stored \in [1..n -> Loaded] :
         /\ Range(stored) = Loaded
         /\ rows \in Seq(Row) /\ DOMAIN rows = 1..n /\ \A i \in 1..n : rows[i] = Stored(stored[i])
         /\ changes \in Seq(Change) /\ DOMAIN changes = 1..(n+1) /\ changes[1] = Creation(TemplateMission)
         /\ \A i \in 2..(n+1) : changes[i] = Addition(TemplateMission, stored[i-1])
  BY InitRows
<1>2. PICK stored \in [1..n -> Loaded] :
         Range(stored) = Loaded /\ rows \in Seq(Row) /\ DOMAIN rows = 1..n /\ \A i \in 1..n : rows[i] = Stored(stored[i])
  BY <1>1
<1> SUFFICES ASSUME NEW u \in Uids
             PROVE  LET m == Cardinality(RowsOf(u)) + Cardinality(Adding(u))
                    IN m >= Cardinality(Deleting(u)) /\ (files[u] # NoData => m > Cardinality(Deleting(u)))
  BY DEF CountInv
<1>3. Adding(u) = {} /\ Deleting(u) = {}
  BY InitProcs DEF Adding, Deleting
<1>4. Cardinality(Adding(u)) = 0 /\ Cardinality(Deleting(u)) = 0
  BY <1>3, FS_EmptySet
<1>5. IsFiniteSet(RowsOf(u)) /\ Cardinality(RowsOf(u)) \in Nat
  BY <1>2, CountedFinite, RowsCounted
<1>6. files[u] # NoData => RowsOf(u) # {}
  <2> SUFFICES ASSUME files[u] # NoData PROVE RowsOf(u) # {}
    OBVIOUS
  <2>1. u \in Loaded
    BY DEF Init
  <2>2. PICK i \in 1..n : stored[i] = u
    BY <1>2, <2>1 DEF Range
  <2>3. i \in DOMAIN rows /\ rows[i].uid = u
    BY <1>2, <2>2 DEF Stored
  <2> QED BY <2>3 DEF RowsOf
<1>7. RowsOf(u) # {} => Cardinality(RowsOf(u)) > 0
  BY <1>5, FS_EmptySet
<1> QED BY <1>4, <1>5, <1>6, <1>7

-----------------------------------------------------------------------------
(* The inductive invariant. *)

TakApiInv == CoreInv /\ CreateInv /\ RecordInv /\ CountInv

LEMMA InitInv == Init => TakApiInv
BY InitTypes, InitReady, InitShape, InitCreate, InitRecord, InitCount DEF TakApiInv, CoreInv

\* Where neither a store nor a process changes.
LEMMA SameStep ==
  ASSUME CreateInv, RecordInv, CountInv, UNCHANGED <<stores, proc>>
  PROVE  CreateInv' /\ RecordInv' /\ CountInv'
<1>1. UNCHANGED <<rows, files, missions, changes, contents, cots, ext, proc>>
  BY DEF stores, esVars, mVars
<1>2. CreateInv'
  <2>1. CreatedOnce' /\ CreationsExist'
    BY <1>1 DEF CreateInv, CreatedOnce, CreationsExist
  <2>2. \A m : Exists(m)' = Exists(m) /\ Created(m)' = Created(m)
    BY <1>1 DEF Exists, Created
  <2>3. Debts'
    BY <1>1, <2>2 DEF CreateInv, Debts
  <2> QED BY <2>1, <2>3 DEF CreateInv
<1>3. RecordInv'
  <2>1. \A kind, of, ms : Recorded(kind, of, ms)' = Recorded(kind, of, ms)
    BY <1>1 DEF Recorded
  <2>2. \A m, kind, of : AtRecord(m, kind, of)' = AtRecord(m, kind, of)
    BY <1>1 DEF AtRecord, Idle, Stmt, Top
  <2>3. \A m : Exists(m)' = Exists(m)
    BY <1>1 DEF Exists
  <2> QED BY <1>1, <2>1, <2>2, <2>3, Zenon DEF RecordInv
<1>4. CountInv'
  <2>1. \A u : RowsOf(u)' = RowsOf(u)
    BY <1>1 DEF RowsOf
  <2>2. \A u : Adding(u)' = Adding(u) /\ Deleting(u)' = Deleting(u)
    BY <1>1 DEF Adding, Deleting, Idle, Stmt, Top
  <2> QED BY <1>1, <2>1, <2>2 DEF CountInv
<1> QED BY <1>2, <1>3, <1>4

LEMMA StutterInv ==
  ASSUME CoreInv, UNCHANGED vars
  PROVE  CoreInv'
<1>1. UNCHANGED <<stores, proc, queue, drawn, nreq>>
  BY DEF vars, stores
<1>2. TypeInv /\ ReadyInv /\ ShapeInv /\ StoresType
  BY TypeParts DEF CoreInv
<1>3. TypeInv'
  <2>1. /\ drawn \subseteq Checklists /\ nreq \in 0..MaxRequests /\ IsABag(queue)
        /\ DOMAIN queue \subseteq Request
    BY <1>2 DEF TypeInv, TypeOK
  <2>2. StoresType'
    BY <1>1, <1>2, <2>1, SameStores
  <2>3. ProcType'
    BY <1>1, <1>2 DEF TypeInv, ProcType, Top
  <2> QED BY <1>1, <2>1, <2>2, <2>3, TypeFromParts
<1>4. ShapeInv'
  BY <1>1, <1>2 DEF ShapeInv
<1>5. World' = World
  BY <1>1 DEF World, stores, esVars, mVars, xVars
<1>6. StoresRight'
  <2>1. UNCHANGED <<files, tasks, missions, changes, cots, cotStore, published>>
    BY <1>1 DEF stores, esVars, mVars, xVars
  <2>2. StoresRight
    BY <1>2 DEF ReadyInv
  <2> QED BY <1>5, <2>1, <2>2 DEF StoresRight, MissionCotsResolve, DocumentsComplete, Exists
<1>7. ReadyInv'
  BY <1>1, <1>2, <1>5, <1>6 DEF ReadyInv
<1> QED BY <1>3, <1>4, <1>7 DEF CoreInv

LEMMA NextInv ==
  ASSUME TakApiInv, [Next]_vars
  PROVE  TakApiInv'
<1>1. CoreInv /\ CreateInv /\ RecordInv /\ CountInv
  BY DEF TakApiInv
<1>2. CoreInv'
  BY <1>1, CoreStep, StutterInv
<1>3. TypeInv'
  BY <1>2 DEF CoreInv
<1> DEFINE v == World'
<1>4. v = World'
  OBVIOUS
<1> HIDE DEF v
<1>5. \/ \E p \in Procs : \E q : Passes(p, q)
      \/ \E p \in Procs : \E q : Executes(p, q, v)
      \/ UNCHANGED <<stores, proc>>
  <2>1. CASE Next
    BY <1>1, <1>4, <2>1, NextMoves
  <2>2. CASE UNCHANGED vars
    BY <2>2 DEF vars, stores
  <2> QED BY <2>1, <2>2
<1>6. ASSUME NEW p \in Procs, NEW q, Passes(p, q)
      PROVE  CreateInv' /\ RecordInv' /\ CountInv'
  BY <1>1, <1>3, <1>6, CreatePasses, RecordPasses, CountPasses
<1>7. ASSUME NEW p \in Procs, NEW q, Executes(p, q, v)
      PROVE  CreateInv' /\ RecordInv' /\ CountInv'
  BY <1>1, <1>3, <1>7, CreateExecutes, RecordExecutes, CountExecutes
<1>8. UNCHANGED <<stores, proc>> => CreateInv' /\ RecordInv' /\ CountInv'
  BY <1>1, SameStep
<1>9. CreateInv' /\ RecordInv' /\ CountInv'
  BY <1>5, <1>6, <1>7, <1>8
<1> QED BY <1>2, <1>9 DEF TakApiInv

\* The inductive invariant holds in every behaviour of the API services, their
\* endpoints and the routing workers.
THEOREM InvariantHolds == Spec => []TakApiInv
<1>1. TakApiInv /\ [Next]_vars => TakApiInv'
  BY NextInv
<1> QED BY InitInv, <1>1, PTL DEF Spec

-----------------------------------------------------------------------------
(* What the invariant says of the server. *)

LEMMA HeldIsBacked ==
  ASSUME TypeInv, NEW m, NEW kind, NEW of, <<m, kind, of>> \in World.held
  PROVE  of \in Backing(m)[kind]
<1>1. World.held = {<<r.mission, "content", r.id>> : r \in contents} \cup {<<x[2], "cot", x[1]>> : x \in cots}
                     \cup {<<r.mission, "external", r.id>> : r \in ext}
  BY DEF World, WorldOf
<1>2. CASE \E r \in contents : <<m, kind, of>> = <<r.mission, "content", r.id>>
  <2>1. PICK r \in contents : m = r.mission /\ kind = "content" /\ of = r.id
    BY <1>2
  <2>2. Backing(m)["content"] = {y.id : y \in {x \in contents : x.mission = m}}
    BY DEF Backing
  <2> QED BY <2>1, <2>2
<1>3. CASE \E x \in cots : <<m, kind, of>> = <<x[2], "cot", x[1]>>
  <2>1. PICK x \in cots : m = x[2] /\ kind = "cot" /\ of = x[1]
    BY <1>3
  <2>2. x \in Cots \X Missions
    BY DEF TypeInv, TypeOK, MTypeOK
  <2>3. x = <<of, m>> /\ of \in Cots
    BY <2>1, <2>2
  <2>4. Backing(m)["cot"] = {c \in Cots : <<c, m>> \in cots}
    BY DEF Backing
  <2> QED BY <2>1, <2>3, <2>4
<1>4. CASE \E r \in ext : <<m, kind, of>> = <<r.mission, "external", r.id>>
  <2>1. PICK r \in ext : m = r.mission /\ kind = "external" /\ of = r.id
    BY <1>4
  <2>2. Backing(m)["external"] = {y.id : y \in {x \in ext : x.mission = m}}
    BY DEF Backing
  <2> QED BY <2>1, <2>2
<1> QED BY <1>1, <1>2, <1>3, <1>4

LEMMA BackedRecords == TakApiInv => RecordsAreBacked
<1> SUFFICES ASSUME TakApiInv PROVE RecordsAreBacked
  OBVIOUS
<1>1. TypeInv /\ StoresRight
  BY DEF TakApiInv, CoreInv, ReadyInv
<1>2. ASSUME NEW i \in DOMAIN changes, changes[i].mission # None
      PROVE  changes[i].of \in Backing(changes[i].mission)[changes[i].kind]
  <2> DEFINE m == changes[i].mission
             kind == changes[i].kind
             of == changes[i].of
  <2>1. HeldReady(World, m, kind, of, {})
    BY <1>1, <1>2 DEF StoresRight
  <2> HIDE DEF m, kind, of
  <2>2. of \in Backing(m)[kind]
    <3>1. CASE kind \in {"mission", "log"} /\ of = None
      BY <3>1 DEF Backing
    <3>2. CASE <<m, kind, of>> \in World.held
      BY <1>1, <3>2, HeldIsBacked
    <3> QED BY <2>1, <3>1, <3>2 DEF HeldReady
  <2> QED BY <2>2 DEF m, kind, of
<1>3. ASSUME NEW n \in published, n.kind \in {"content", "cot"}
      PROVE  n.of \in Backing(n.mission)[n.kind]
  BY <1>1, <1>3, HeldIsBacked DEF StoresRight
<1> QED BY <1>2, <1>3 DEF RecordsAreBacked

LEMMA RecordedAll == TakApiInv => RecordedWhenQuiet
<1> SUFFICES ASSUME TakApiInv, Quiet PROVE RecordedWhenQuiet
  BY DEF RecordedWhenQuiet
<1>1. RecordInv
  BY DEF TakApiInv
<1>2. \A m, kind, of : ~AtRecord(m, kind, of)
  BY DEF Quiet, AtRecord
<1>3. \A r \in contents : r.linked => Recorded("content", r.id, {r.mission})
  BY <1>1, <1>2, Zenon DEF RecordInv
<1>4. \A x \in cots : Recorded("cot", x[1], {x[2], None})
  BY <1>1, <1>2, Zenon DEF RecordInv
<1>5. \A r \in ext : Recorded("external", r.id, {r.mission})
  BY <1>1, <1>2, Zenon DEF RecordInv
<1> QED BY <1>3, <1>4, <1>5 DEF RecordedWhenQuiet, Recorded

LEMMA FilesHaveRows == TakApiInv => NoOrphanFiles
<1> SUFFICES ASSUME TakApiInv, Quiet, NEW u \in Uids, files[u] # NoData
             PROVE  \E i \in DOMAIN rows : rows[i].uid = u
  BY DEF NoOrphanFiles
<1>1. Adding(u) = {} /\ Deleting(u) = {}
  BY DEF Quiet, Adding, Deleting
<1>2. Cardinality(Adding(u)) = 0 /\ Cardinality(Deleting(u)) = 0
  BY <1>1, FS_EmptySet
<1>3. Cardinality(RowsOf(u)) + Cardinality(Adding(u)) > Cardinality(Deleting(u))
  BY DEF TakApiInv, CountInv
<1>4. Cardinality(RowsOf(u)) + 0 > 0
  BY <1>2, <1>3
<1>5. RowsOf(u) # {}
  BY <1>4, FS_EmptySet
<1> QED BY <1>5 DEF RowsOf

\* The tables, the files, the queue and the stacks of the processes keep their types.
THEOREM TypeCorrect == Spec => []TypeOK
<1>1. TakApiInv => TypeOK
  BY DEF TakApiInv, CoreInv, TypeInv
<1> QED BY <1>1, InvariantHolds, PTL

\* However many services and workers run put_mission for one mission at the same
\* time, its creation is recorded at most once.
THEOREM MissionsAreCreatedOnce == Spec => []CreatedOnce
<1>1. TakApiInv => CreatedOnce
  BY DEF TakApiInv, CreateInv
<1> QED BY <1>1, InvariantHolds, PTL

\* A change record and a notification of a content or a CoT speak of something
\* that the mission they name holds.
THEOREM RecordsStayBacked == Spec => []RecordsAreBacked
BY BackedRecords, InvariantHolds, PTL

\* Once the server is quiet nothing that reached a mission is without its record.
THEOREM NothingGoesUnrecorded == Spec => []RecordedWhenQuiet
BY RecordedAll, InvariantHolds, PTL

\* A CoT of a mission is in the store of CoTs that mission_director reads.
THEOREM CotsStayResolvable == Spec => []MissionCotsResolve
<1>1. TakApiInv => MissionCotsResolve
  BY DEF TakApiInv, CoreInv, ReadyInv, StoresRight
<1> QED BY <1>1, InvariantHolds, PTL

\* A checklist document names only tasks that have their row and their document,
\* and a checklist has a mission only once its document is there.
THEOREM DocumentsStayComplete == Spec => []DocumentsComplete
<1>1. TakApiInv => DocumentsComplete
  BY DEF TakApiInv, CoreInv, ReadyInv, StoresRight
<1> QED BY <1>1, InvariantHolds, PTL

\* Once the server is quiet every file can be found by its metadata.
THEOREM FilesCanBeFound == Spec => []NoOrphanFiles
BY FilesHaveRows, InvariantHolds, PTL
=============================================================================
