------------------------------- MODULE Mission -------------------------------
(***************************************************************************)
(* The tables of the mission component and the commits of its persistence  *)
(* controller (components/extended/mission).  Foreign keys are declared    *)
(* but the SQLite engine does not enforce them: a content or a CoT can be  *)
(* stored for a mission that does not exist.  Mission ids are compared in  *)
(* lower case everywhere, so a name of the set Missions stands for a       *)
(* lower-case id.                                                          *)
(***************************************************************************)
EXTENDS Naturals, Sequences, FiniteSets, SequencesExt

CONSTANTS Missions, Clients, Contents, Cots,
          ExtUids,    \* uids of external data (checklists added to a mission)
          None        \* SQL NULL, Python None

ASSUME NoneAssumption == None \notin Missions \cup Clients \cup Contents \cup Cots

\* create_default_roles: the two roles register() puts in the database.
Roles == {"MISSION_OWNER", "MISSION_SUBSCRIBER"}

VARIABLES missions,   \* mission id -> default role, for the missions that exist
          subs,       \* sequence of subscriptions
          invites,    \* sequence of invitations
          changes,    \* sequence of change records
          contents,   \* rows (content, mission), with a history flag (update_mission)
          cots,       \* rows (cot, mission)
          logs,       \* ids of the log rows
          mlogs,      \* sequence of rows (log, mission)
          ext,        \* external data rows
          rels        \* sequence of (parent, child) rows

mVars == <<missions, subs, invites, changes, contents, cots, logs, mlogs, ext, rels>>

Change == [type : {"CREATE_MISSION", "ADD_CONTENT"}, mission : Missions \cup {None},
           kind : {"mission", "content", "cot", "external", "log"},
           of : Contents \cup Cots \cup Nat \cup {None}]

MTypeOK ==
  /\ DOMAIN missions \subseteq Missions
  /\ \A m \in DOMAIN missions : missions[m] \in Roles \cup {None}
  /\ subs \in Seq([id : Nat, mission : Missions, client : Clients, role : Roles \cup {None}])
  /\ invites \in Seq([mission : Missions, sub : Nat \cup {None}])
  /\ changes \in Seq(Change)
  /\ contents \subseteq [id : Contents, mission : Missions, linked : BOOLEAN]
  /\ cots \subseteq Cots \X Missions
  /\ logs \subseteq Nat
  /\ mlogs \in Seq((Nat \cup {None}) \X Missions)
  /\ ext \subseteq [id : Nat, uid : ExtUids, mission : Missions]
  /\ rels \in Seq(Missions \X Missions)

MInit ==
  /\ missions = <<>> /\ subs = <<>> /\ invites = <<>> /\ changes = <<>>
  /\ contents = {} /\ cots = {} /\ logs = {} /\ mlogs = <<>> /\ ext = {} /\ rels = <<>>

Exists(m) == m \in DOMAIN missions

\* get_subscription(...).first(): the place of the oldest subscription of the
\* client, as a set of at most one number
SubOf(m, c) ==
  LET hits == {i \in DOMAIN subs : subs[i].mission = m /\ subs[i].client = c}
  IN {i \in hits : \A j \in hits : i <= j}

\* SQLite gives the next row the largest id plus one.
NextSubId == IF subs = <<>> THEN 1 ELSE Last(subs).id + 1

\* The rows a mission change can point at, by kind of change.
Backing(m) ==
  [mission  |-> {None},
   content  |-> {r.id : r \in {x \in contents : x.mission = m}},
   cot      |-> {c \in Cots : <<c, m>> \in cots},
   external |-> {r.id : r \in {x \in ext : x.mission = m}},
   log      |-> logs \cup {None}]

-----------------------------------------------------------------------------
(* Commits of MissionPersistenceController.  Where a commit can fail, the    *)
(* Can operator above it says when it does not; otherwise the controller     *)
(* rolls back and raises, which TakApi models.                               *)

\* Faulty: the mission is not looked up.
CanCreateMissionAgain(m) == m \in Missions

\* The primary key is mission_id.lower(): a second mission of this name fails.
CanCreateMission(m) == ~Exists(m)

create_mission(m, role) ==
  /\ CanCreateMission(m)
  /\ missions' = [x \in DOMAIN missions \cup {m} |-> IF x = m THEN role ELSE missions[x]]
  /\ UNCHANGED <<subs, invites, changes, contents, cots, logs, mlogs, ext, rels>>

\* Nothing makes (mission, client) unique.
create_subscription(m, c, role) ==
  /\ subs' = Append(subs, [id |-> NextSubId, mission |-> m, client |-> c, role |-> role])
  /\ UNCHANGED <<missions, invites, changes, contents, cots, logs, mlogs, ext, rels>>

\* The first subscription of the client goes; its invitations lose their link.
CanDeleteSubscription(m, c) == Exists(m) /\ SubOf(m, c) # {}

delete_subscription(m, c) ==
  /\ CanDeleteSubscription(m, c)
  /\ \E i \in SubOf(m, c) :
       /\ subs' = RemoveAt(subs, i)
       /\ invites' = [j \in DOMAIN invites |->
                        IF invites[j].sub = subs[i].id THEN [invites[j] EXCEPT !.sub = None]
                                                       ELSE invites[j]]
  /\ UNCHANGED <<missions, changes, contents, cots, logs, mlogs, ext, rels>>

create_invitation(m, sid) ==
  /\ invites' = Append(invites, [mission |-> m, sub |-> sid])
  /\ UNCHANGED <<missions, subs, changes, contents, cots, logs, mlogs, ext, rels>>

\* The primary key is (content, mission); the mission is not looked at.
CanCreateContent(m, x) == \A r \in contents : <<r.id, r.mission>> # <<x, m>>

create_mission_content(m, x) ==
  /\ CanCreateContent(m, x)
  /\ contents' = contents \cup {[id |-> x, mission |-> m, linked |-> FALSE]}
  /\ UNCHANGED <<missions, subs, invites, changes, cots, logs, mlogs, ext, rels>>

\* update_mission(content=...) appends the content to mission.contents, where
\* its foreign key has put it already, but raises when the mission does not
\* exist; then the row of the content stays alone, to show up in the mission
\* when that is created.  The flag remembers that the update went through.
update_mission(m, x) ==
  /\ Exists(m)
  /\ contents' = {IF <<r.id, r.mission>> = <<x, m>> THEN [r EXCEPT !.linked = TRUE] ELSE r
                    : r \in contents}
  /\ UNCHANGED <<missions, subs, invites, changes, cots, logs, mlogs, ext, rels>>

CanCreateCot(m, c) == <<c, m>> \notin cots

create_mission_cot(m, c) ==
  /\ CanCreateCot(m, c)
  /\ cots' = cots \cup {<<c, m>>}
  /\ UNCHANGED <<missions, subs, invites, changes, contents, logs, mlogs, ext, rels>>

\* change.mission = get_mission(...): a change of a mission that does not exist
\* is stored with no mission.
create_mission_change(type, m, kind, of) ==
  /\ changes' = Append(changes, [type |-> type, kind |-> kind, of |-> of,
                                 mission |-> IF Exists(m) THEN m ELSE None])
  /\ UNCHANGED <<missions, subs, invites, contents, cots, logs, mlogs, ext, rels>>

\* All the missions of a log entry must exist, or nothing is stored.
CanLog(ms) == \A i \in DOMAIN ms : Exists(ms[i])

create_log(l, ms) ==
  /\ CanLog(ms)
  /\ logs' = logs \cup {l}
  /\ mlogs' = mlogs \o [i \in DOMAIN ms |-> <<l, ms[i]>>]
  /\ UNCHANGED <<missions, subs, invites, changes, contents, cots, ext, rels>>

\* The missions given with an update are added again to those of the entry.
update_log(l, ms) ==
  /\ l \in logs /\ CanLog(ms)
  /\ mlogs' = mlogs \o [i \in DOMAIN ms |-> <<l, ms[i]>>]
  /\ UNCHANGED <<missions, subs, invites, changes, contents, cots, logs, ext, rels>>

\* The rows that tie the entry to its missions stay, with no log.
delete_mission_log(l) ==
  /\ l \in logs
  /\ logs' = logs \ {l}
  /\ mlogs' = [i \in DOMAIN mlogs |-> IF mlogs[i][1] = l THEN <<None, mlogs[i][2]>> ELSE mlogs[i]]
  /\ UNCHANGED <<missions, subs, invites, changes, contents, cots, ext, rels>>

add_external_data(m, e, u) ==
  /\ Exists(m)
  /\ ext' = ext \cup {[id |-> e, uid |-> u, mission |-> m]}
  /\ UNCHANGED <<missions, subs, invites, changes, contents, cots, logs, mlogs, rels>>

\* No check for a relation that is already there, nor for a cycle.
add_parent_to_mission(child, parent) ==
  /\ Exists(child) /\ Exists(parent)
  /\ rels' = Append(rels, <<parent, child>>)
  /\ UNCHANGED <<missions, subs, invites, changes, contents, cots, logs, mlogs, ext>>

\* delete_parent takes parent_missions[0], the oldest parent.
HasParent(child) == Exists(child) /\ \E i \in DOMAIN rels : rels[i][2] = child

remove_parent_from_mission(child) ==
  /\ HasParent(child)
  /\ \E i \in DOMAIN rels :
       /\ rels[i][2] = child /\ \A j \in 1..(i-1) : rels[j][2] # child
       /\ rels' = RemoveAt(rels, i)
  /\ UNCHANGED <<missions, subs, invites, changes, contents, cots, logs, mlogs, ext>>
=============================================================================
