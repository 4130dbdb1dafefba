------------------------------- MODULE ExCheck -------------------------------
(***************************************************************************)
(* The tables of the ExCheck component (components/extended/excheck): the  *)
(* templates, the checklists started from them, the tasks of a checklist   *)
(* and the missions a checklist was added to.  The documents themselves    *)
(* (a template, a checklist with its tasks, a task) are files of the       *)
(* enterprise sync store.                                                  *)
(***************************************************************************)
EXTENDS Naturals, FiniteSets

CONSTANTS Templates, Checklists, Tasks

VARIABLES templates,   \* template rows
          checklists,  \* checklist rows
          tasks,       \* task row -> its checklist
          links        \* (checklist, mission) rows

xVars == <<templates, checklists, tasks, links>>

XTypeOK == /\ templates \subseteq Templates /\ checklists \subseteq Checklists
           /\ DOMAIN tasks \subseteq Tasks
           /\ \A t \in DOMAIN tasks : tasks[t] \in Checklists

XInit == templates = {} /\ checklists = {} /\ tasks = <<>> /\ links = {}

\* Commits of ExCheckPersistencyController, each with what it needs to succeed.
\* The callers of the first two ignore the exception of a second row of this uid.
create_template(t) ==
  /\ templates' = templates \cup {t} /\ UNCHANGED <<checklists, tasks, links>>

create_checklist(k) ==
  /\ checklists' = checklists \cup {k} /\ UNCHANGED <<templates, tasks, links>>

\* The primary key is the uid of the task alone.
create_checklist_task(k, t) ==
  /\ t \notin DOMAIN tasks
  /\ tasks' = [x \in DOMAIN tasks \cup {t} |-> IF x = t THEN k ELSE tasks[x]]
  /\ UNCHANGED <<templates, checklists, links>>

add_mission_checklist_mapping(k, m) ==
  /\ links' = links \cup {<<k, m>>} /\ UNCHANGED <<templates, checklists, tasks>>
=============================================================================
