------------------------------ MODULE MCTakApi ------------------------------
(* Instances of TakApi for TLC: one plain package and one mission package   *)
(* that holds it; a template whose task has a uid, stored before the start, *)
(* and one whose task gets a new uid in each checklist; two checklists.     *)
EXTENDS TakApi, TLC

CONSTANTS m1, tm, k1, k2, a, excheck, p1, z1, c1, t1, t2, x1, x2, x3

MCMissions   == {m1, tm, k1, k2}
MCClients    == {a, excheck}
MCPackages   == {p1, z1}
MCContents   == {p1, z1, t1, t2}
MCUids       == {p1, z1, t1, t2, k1, k2, x1, x2, x3}
MCTasks      == {x1, x2, x3}
MCChecklists == {k1, k2}
MCData       == {p1, z1, t1, t2} \cup UNION {[S -> 0..MaxVersion] : S \in SUBSET Tasks}
MCInnerOf    == (z1 :> p1)
MCTasksOf    == (t1 :> [k \in Checklists |-> <<x1>>])
                  @@ (t2 :> (k1 :> <<x2>> @@ k2 :> <<x3>>))
MCHashLists  == {<<p1>>, <<p1, z1>>, <<z1, p1>>}
MCMissionLists == {<<m1>>}

AllEndpoints ==
  {"PutMission", "AddMissionContents", "MissionPackage", "AddLogEntry", "UpdateLogEntry",
   "DeleteLogEntry", "AddParent", "DeleteParent", "Subscribe", "Unsubscribe", "Invite",
   "ExternalData", "Upload", "CotEvent", "PutTool", "DeletePackage", "Template",
   "StartChecklist", "UpdateTask", "ChecklistMission"}

\* The API services are alike, and so are the workers.
ProcSymmetry == Permutations(Apis) \cup Permutations(Workers)
=============================================================================
