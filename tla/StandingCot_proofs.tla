------------------------- MODULE StandingCot_proofs -------------------------
(***************************************************************************)
(* Proofs about the stores of the emergency component and the repeater,    *)
(* and about what connected clients get.                                   *)
(*                                                                         *)
(* StoresAreExact says nothing of the dictionary a worker is about to      *)
(* write; WriterInv adds it: a store that is not spoiled has at most one   *)
(* writer, which holds what will have been asked for when it is done.      *)
(*                                                                         *)
(* ConnectedIsServed speaks of the moments when all is handled.  ServedInv *)
(* says what holds in between: what a client lacks is in a request, at a   *)
(* worker or in a response, and no one writes the file it is read from.    *)
(***************************************************************************)
EXTENDS StandingCot, FiniteSetTheorems, TLAPS

Dumping == {"fill", "dump"}

\* What the writer of a store that is not spoiled is going to write.
WriterInv ==
    \A s \in Store \ spoiled :
        /\ \A v, w \in Worker : Writing(v, s) /\ Writing(w, s) => v = w
        /\ \A w \in Worker : Writing(w, s) =>
            /\ file[s] = Empty
            /\ work[w].pc = "dump" => work[w].mem = Changed(work[w].req, made[s])
            /\ work[w].pc = "fill" => work[w].mem = {} /\ made[s] = {}
        /\ (\A w \in Worker : ~Writing(w, s)) =>
            file[s] = Data(made[s]) \/ (file[s] = Absent /\ made[s] = {})

\* The steps of the requests of an action.
StepsOf(act) ==
    CASE act = "connection" -> {"register"}
      [] act = "repeater" -> {"load", "create", "fill", "tell"}
      [] act \in {"repeat", "unrepeat"} -> {"load", "create", "fill", "save", "dump"}
      [] act = "emergencies" -> {"facade", "construct", "create", "fill", "sync", "tell"}
      [] act = "cancel" -> {"facade", "construct", "create", "fill", "parse", "save",
                            "dump"}
      [] act = "alert" -> {"facade", "construct", "create", "fill", "parse", "save",
                           "dump", "publish"}
      [] act = "cot" -> {"parse", "publish"}

StepInv == \A w \in Worker : work[w].pc # "idle" => work[w].pc \in StepsOf(work[w].req.act)

IInv == TypeOK /\ StepInv /\ WriterInv

-----------------------------------------------------------------------------
(* A worker that is not idle has a well-formed task.                       *)
LEMMA TaskType ==
    ASSUME TypeOK, NEW w \in Worker, work[w].pc # "idle"
    PROVE  /\ work[w] \in Task
           /\ work[w].req \in Request /\ work[w].pc \in Step
           /\ work[w].mem \in SUBSET Uid /\ work[w].rcpt \in SUBSET Client
           /\ StoreOf(work[w].req) \in Store
<1>1. work[w] \in Task
  BY DEF TypeOK, Idle
<1> QED
  BY <1>1 DEF Task, StoreOf, Store

(* Dictionaries are finite, so their length is a number.                   *)
LEMMA DictLength ==
    ASSUME NEW d \in SUBSET Uid
    PROVE  /\ IsFiniteSet(d) /\ Cardinality(d) \in Nat
           /\ Data(d) \in File
<1>1. IsFiniteSet(d)
  BY StandingAssumption, FS_Subset
<1>2. Cardinality(d) \in Nat
  BY <1>1, FS_CardinalityType
<1> QED
  BY <1>1, <1>2 DEF Data, File

(* The longer of two texts decides on the length of the file.              *)
LEMMA LongerText ==
    ASSUME NEW m \in Nat, NEW n \in Nat
    PROVE  Max({m, n}) \in Nat /\ (n = 0 => Max({m, n}) = m)
<1>1. \E x \in {m, n} : \A y \in {m, n} : x >= y
  <2>1. CASE m >= n
    BY <2>1
  <2>2. CASE n >= m
    BY <2>2
  <2> QED
    BY <2>1, <2>2
<1>2. Max({m, n}) \in {m, n} /\ \A y \in {m, n} : Max({m, n}) >= y
  BY <1>1 DEF Max
<1> QED
  BY <1>2

(* A request changes a dictionary to one.                                  *)
LEMMA ChangedType ==
    ASSUME NEW r \in Request, NEW d \in SUBSET Uid
    PROVE  Changed(r, d) \in SUBSET Uid
  BY DEF Changed, Request, Uid

(* What a request is about.                                                *)
LEMMA RequestKinds ==
    ASSUME NEW r \in Request
    PROVE  /\ r.act \in {"connection", "repeater", "emergencies", "alert", "cancel",
                         "repeat", "unrepeat", "cot"}
           /\ r.act \in {"connection", "repeater", "emergencies"} => r.x \in Client
           /\ r.act \in {"alert", "cancel"} => r.x \in Emergency
           /\ r.act \in {"alert", "cancel", "repeat", "unrepeat", "cot"} => r.x \in Uid
           /\ r.to \in SUBSET Svc
           /\ FirstStep(r) \in Step \cap StepsOf(r.act)
  BY DEF Request, Uid, FirstStep, Step, StepsOf

-----------------------------------------------------------------------------
(* Init establishes the inductive invariant.                               *)
LEMMA InitInv == Init => IInv
<1> SUFFICES ASSUME Init PROVE IInv
  OBVIOUS
<1> USE DEF Init
<1>1. Data({}) \in File /\ Absent \in File
  BY DictLength DEF Absent, File
<1>2. TypeOK
  BY <1>1 DEF TypeOK
<1>3. StepInv
  BY DEF StepInv, Idle
<1>4. WriterInv
  BY DEF WriterInv, Writing, Idle, Store
<1> QED
  BY <1>2, <1>3, <1>4 DEF IInv

-----------------------------------------------------------------------------
(* The tasks stay well-formed if the one that changes does.                *)
LEMMA OneTask ==
    ASSUME TypeOK, StepInv, NEW w \in Worker, NEW t \in Task \cup {Idle},
           work' = [work EXCEPT ![w] = t],
           t.pc # "idle" => t.pc \in StepsOf(t.req.act)
    PROVE  work' \in [Worker -> {Idle} \cup Task] /\ StepInv'
<1>1. work' \in [Worker -> {Idle} \cup Task]
  BY DEF TypeOK
<1>2. \A v \in Worker : work'[v] = IF v = w THEN t ELSE work[v]
  BY DEF TypeOK
<1> QED
  BY <1>1, <1>2 DEF StepInv

(* A worker that gives up its request is idle.                             *)
LEMMA FinishType ==
    ASSUME TypeOK, StepInv, NEW w \in Worker, Finish(w)
    PROVE  work' \in [Worker -> {Idle} \cup Task] /\ StepInv'
<1>1. Idle.pc = "idle"
  BY DEF Idle
<1> QED
  BY <1>1, OneTask DEF Finish

(* A worker goes to another step of its request.                           *)
LEMMA GotoType ==
    ASSUME TypeOK, StepInv, NEW w \in Worker, work[w].pc # "idle", NEW p \in Step,
           p \in StepsOf(work[w].req.act), Goto(w, p)
    PROVE  work' \in [Worker -> {Idle} \cup Task] /\ StepInv'
<1> DEFINE t == [work[w] EXCEPT !.pc = p]
<1>1. work[w] \in Task
  BY TaskType
<1>2. t \in Task /\ t.pc = p /\ t.req = work[w].req
  BY <1>1 DEF Task
<1>3. work' = [work EXCEPT ![w] = t]
  BY DEF Goto
<1> QED
  BY <1>2, <1>3, OneTask

(* A worker goes to another step with another dictionary.                  *)
LEMMA GotoWithType ==
    ASSUME TypeOK, StepInv, NEW w \in Worker, work[w].pc # "idle", NEW p \in Step,
           p \in StepsOf(work[w].req.act), NEW d \in SUBSET Uid, GotoWith(w, p, d)
    PROVE  work' \in [Worker -> {Idle} \cup Task] /\ StepInv'
<1> DEFINE t == [work[w] EXCEPT !.pc = p, !.mem = d]
<1>1. work[w] \in Task
  BY TaskType
<1>2. t \in Task /\ t.pc = p /\ t.req = work[w].req
  BY <1>1 DEF Task
<1>3. work' = [work EXCEPT ![w] = t]
  BY DEF GotoWith, TypeOK
<1> QED
  BY <1>2, <1>3, OneTask

-----------------------------------------------------------------------------
(* Every step keeps the types and the order of a request's steps.          *)
LEMMA TypeStep ==
    ASSUME TypeOK, StepInv, Next
    PROVE  TypeOK' /\ StepInv'
<1> USE DEF env, net, history
<1>0. \A w \in Worker : work[w].pc # "idle" => work[w].pc \in StepsOf(work[w].req.act)
  BY DEF StepInv
<1>1. ASSUME NEW c \in Client, Connect(c) PROVE TypeOK' /\ StepInv'
  <2>1. ConnectRequests(c) \subseteq Request
    BY DEF ConnectRequests, Request
  <2> QED
    BY <1>1, <2>1 DEF Connect, Stimulus, TypeOK, StepInv
<1>2. ASSUME NEW rs \in SUBSET Request, Submit(rs) PROVE TypeOK' /\ StepInv'
  BY <1>2 DEF Submit, Enqueue, Stimulus, TypeOK, StepInv
<1>3. CASE Outside
  <2>1. \A e \in Emergency, a \in {"alert", "cancel"}, t \in SUBSET Svc :
            [act |-> a, x |-> e, to |-> t] \in Request
    BY DEF Request
  <2>2. \A m \in Cot : [act |-> "cot", x |-> m, to |-> Svc] \in Request
    BY DEF Request
  <2>3. \A g \in Geo, a \in {"repeat", "unrepeat"} : [act |-> a, x |-> g, to |-> Svc] \in Request
    BY DEF Request
  <2>4. ASSUME NEW e \in Emergency,
               Alert(e) \/ Cancel(e) \/ PostEmergency(e)
        PROVE  \E rs \in SUBSET Request : Submit(rs)
    BY <2>1, <2>4 DEF Alert, Cancel, PostEmergency
  <2>5. ASSUME NEW m \in Cot, PrivateCot(m) PROVE \E rs \in SUBSET Request : Submit(rs)
    BY <2>2, <2>5 DEF PrivateCot
  <2>6. ASSUME NEW g \in Geo, PostGeoObject(g) \/ DeleteRepeated(g)
        PROVE  \E rs \in SUBSET Request : Submit(rs)
    BY <2>3, <2>6 DEF PostGeoObject, DeleteRepeated
  <2>7. ASSUME NEW e \in Emergency, DeleteEmergency(e) \/ DeleteAgain(e)
        PROVE  TypeOK' /\ StepInv'
    <3>1. Deletion(e) \in Request
      BY <2>1 DEF Deletion
    <3> QED
      BY <2>7, <3>1 DEF DeleteEmergency, DeleteAgain, Enqueue, Stimulus, TypeOK, StepInv
  <2> QED
    BY <1>1, <1>2, <1>3, <2>4, <2>5, <2>6, <2>7 DEF Outside
<1>4. ASSUME NEW w \in Worker, NEW r \in queue, Take(w, r) PROVE TypeOK' /\ StepInv'
  <2> DEFINE t == [Idle EXCEPT !.req = r, !.pc = FirstStep(r)]
  <2>1. r \in Request /\ FirstStep(r) \in Step \cap StepsOf(r.act)
    BY RequestKinds DEF TypeOK
  <2>2. t \in Task /\ t.pc = FirstStep(r) /\ t.req = r
    BY <2>1 DEF Idle, Task
  <2>3. work' \in [Worker -> {Idle} \cup Task] /\ StepInv'
    BY <1>4, <2>1, <2>2, OneTask DEF Take
  <2> QED
    BY <1>4, <2>3 DEF Take, TypeOK
<1>5. ASSUME NEW w \in Worker, Register(w) PROVE TypeOK' /\ StepInv'
  <2>1. work[w].req.act = "connection" /\ work[w].req.x \in Client
    BY <1>0, <1>5, TaskType, RequestKinds DEF Register, StepsOf
  <2>2. work' \in [Worker -> {Idle} \cup Task] /\ StepInv'
    BY <1>5, FinishType DEF Register
  <2> QED
    BY <1>5, <2>1, <2>2 DEF Register, TypeOK
<1>6. ASSUME NEW w \in Worker, Raise(w), work[w].pc # "idle"
      PROVE  /\ work' \in [Worker -> {Idle} \cup Task] /\ StepInv'
             /\ failed' \in SUBSET Emergency
  <2>1. work[w].req.act = "alert" => work[w].req.x \in Emergency
    BY <1>6, TaskType, RequestKinds
  <2>2. work' \in [Worker -> {Idle} \cup Task] /\ StepInv'
    BY <1>6, FinishType DEF Raise
  <2> QED
    BY <1>6, <2>1, <2>2 DEF Raise, TypeOK
<1>7. ASSUME NEW w \in Worker, Construct(w) PROVE TypeOK' /\ StepInv'
  <2>1. /\ work[w].pc \in {"facade", "construct"}
        /\ work[w].req.act \in {"alert", "cancel", "emergencies"}
    BY <1>0, <1>7, TaskType, RequestKinds DEF Construct, StepsOf
  <2>2. file["emergencies"].dict \in SUBSET Uid
    BY DEF TypeOK, Store, File
  <2>3. /\ work' \in [Worker -> {Idle} \cup Task] /\ StepInv'
        /\ failed' \in SUBSET Emergency
    <3>1. CASE Goto(w, "create") /\ UNCHANGED failed
      <4>1. "create" \in Step /\ "create" \in StepsOf(work[w].req.act)
        BY <2>1 DEF Step, StepsOf
      <4> QED
        BY <2>1, <3>1, <4>1, GotoType DEF TypeOK
    <3>2. ASSUME NEW p \in {"construct", "sync", "parse", "save"},
                 p \in StepsOf(work[w].req.act),
                 GotoWith(w, p, file["emergencies"].dict), UNCHANGED failed
          PROVE  /\ work' \in [Worker -> {Idle} \cup Task] /\ StepInv'
                 /\ failed' \in SUBSET Emergency
      BY <2>1, <2>2, <3>2, GotoWithType DEF TypeOK, Step
    <3>3. CASE Raise(w)
      BY <1>6, <2>1, <3>3
    <3> QED
      BY <1>7, <2>1, <3>1, <3>2, <3>3 DEF Construct, StepsOf
  <2> QED
    BY <1>7, <2>3 DEF Construct, TypeOK
<1>8. ASSUME NEW w \in Worker, LoadRepeated(w) PROVE TypeOK' /\ StepInv'
  <2>1. work[w].req.act \in {"repeater", "repeat", "unrepeat"}
    BY <1>0, <1>8, TaskType, RequestKinds DEF LoadRepeated, StepsOf
  <2>2. file["repeated"].dict \in SUBSET Uid
    BY DEF TypeOK, Store, File
  <2>3. /\ {"create", AfterLoad(work[w].req)} \subseteq Step
        /\ {"create", AfterLoad(work[w].req)} \subseteq StepsOf(work[w].req.act)
    BY <2>1 DEF AfterLoad, Step, StepsOf
  <2>4. work' \in [Worker -> {Idle} \cup Task] /\ StepInv'
    BY <1>8, <2>2, <2>3, GotoType, GotoWithType DEF LoadRepeated
  <2> QED
    BY <1>8, <2>4 DEF LoadRepeated, TypeOK
<1>9. ASSUME NEW w \in Worker, Create(w) PROVE TypeOK' /\ StepInv'
  <2>1. "fill" \in StepsOf(work[w].req.act) /\ "fill" \in Step
    BY <1>0, <1>9, TaskType, RequestKinds DEF Create, StepsOf, Step
  <2>2. work' \in [Worker -> {Idle} \cup Task] /\ StepInv'
    BY <1>9, <2>1, GotoWithType DEF Create
  <2>3. file' \in [Store -> File] /\ spoiled' \in SUBSET Store
    BY <1>9, TaskType DEF Create, Open, Empty, File, TypeOK
  <2> QED
    BY <1>9, <2>2, <2>3 DEF Create, TypeOK
<1>10. ASSUME NEW w \in Worker, work[w].pc # "idle", NEW s \in Store,
              Overwrite(s, work[w].mem)
       PROVE  file' \in [Store -> File]
  <2>1. Cardinality(work[w].mem) \in Nat /\ work[w].mem \in SUBSET Uid
    BY <1>10, TaskType, DictLength
  <2>2. file[s].len \in Nat
    BY DEF TypeOK, File
  <2>3. Max({Cardinality(work[w].mem), file[s].len}) \in Nat
    BY <2>1, <2>2, LongerText
  <2> QED
    BY <1>10, <2>1, <2>3 DEF Overwrite, File, TypeOK
<1>11. ASSUME NEW w \in Worker, Fill(w) PROVE TypeOK' /\ StepInv'
  <2> DEFINE p == IF StoreOf(work[w].req) = "emergencies" THEN "facade"
                  ELSE AfterLoad(work[w].req)
  <2>1. p \in StepsOf(work[w].req.act) /\ p \in Step
    BY <1>0, <1>11, TaskType, RequestKinds DEF Fill, StepsOf, Step, StoreOf, AfterLoad
  <2>2. work' \in [Worker -> {Idle} \cup Task] /\ StepInv'
    BY <1>11, <2>1, GotoType DEF Fill
  <2>3. file' \in [Store -> File]
    BY <1>10, <1>11, TaskType DEF Fill
  <2> QED
    BY <1>11, <2>2, <2>3 DEF Fill, TypeOK
<1>12. ASSUME NEW w \in Worker, work[w].pc = "parse", NEW r \in SUBSET Client,
              NEW p \in Step, p \in StepsOf(work[w].req.act), Address(w, r, p)
       PROVE  TypeOK' /\ StepInv'
  <2> DEFINE t == [work[w] EXCEPT !.rcpt = r, !.pc = p]
  <2>1. work[w] \in Task
    BY <1>12, TaskType
  <2>2. t \in Task /\ t.pc = p /\ t.req = work[w].req
    BY <1>12, <2>1 DEF Task
  <2>3. work' = [work EXCEPT ![w] = t]
    BY <1>12 DEF Address, TypeOK
  <2>4. work' \in [Worker -> {Idle} \cup Task] /\ StepInv'
    BY <1>12, <2>2, <2>3, OneTask
  <2> QED
    BY <1>12, <2>4 DEF Address, TypeOK
<1>20. ASSUME NEW w \in Worker,
              ParseEmergencyOn(w) \/ ParseEmergencyOff(w) \/ HandleDefaultCot(w)
       PROVE  TypeOK' /\ StepInv'
  <2>1. /\ NearRecipients(work[w].req.x) \in SUBSET Client
        /\ NamedRecipients(work[w].req.x) \in SUBSET Client
        /\ iam \in SUBSET Client
    BY DEF NearRecipients, NamedRecipients, TypeOK
  <2>2. {"construct", "publish"} \subseteq Step
    BY DEF Step
  <2>3. /\ "construct" \in StepsOf("alert") /\ "construct" \in StepsOf("cancel")
        /\ "publish" \in StepsOf("cot")
    BY DEF StepsOf
  <2> QED
    BY <1>12, <1>20, <2>1, <2>2, <2>3
    DEF ParseEmergencyOn, ParseEmergencyOff, HandleDefaultCot
<1>13. ASSUME NEW w \in Worker, Sync(w) PROVE TypeOK' /\ StepInv'
  <2>1. "tell" \in StepsOf(work[w].req.act) /\ "tell" \in Step
    BY <1>0, <1>13, TaskType, RequestKinds DEF Sync, StepsOf, Step
  <2>2. /\ work' \in [Worker -> {Idle} \cup Task] /\ StepInv'
        /\ failed' \in SUBSET Emergency
    BY <1>6, <1>13, <2>1, GotoType DEF Sync, TypeOK
  <2> QED
    BY <1>13, <2>2 DEF Sync, TypeOK
<1>14. ASSUME NEW w \in Worker, Save(w) PROVE TypeOK' /\ StepInv'
  <2>1. "dump" \in StepsOf(work[w].req.act) /\ "dump" \in Step
    BY <1>0, <1>14, TaskType, RequestKinds DEF Save, StepsOf, Step
  <2>2. Changed(work[w].req, work[w].mem) \in SUBSET Uid
    BY <1>14, TaskType, ChangedType DEF Save
  <2>3. CASE Raise(w) /\ UNCHANGED <<file, spoiled>>
    BY <1>6, <1>14, <2>3 DEF Save, TypeOK
  <2>4. CASE /\ Open(w, StoreOf(work[w].req), Data(work[w].mem))
             /\ GotoWith(w, "dump", Changed(work[w].req, work[w].mem))
             /\ UNCHANGED failed
    <3>1. work' \in [Worker -> {Idle} \cup Task] /\ StepInv'
      BY <1>14, <2>1, <2>2, <2>4, GotoWithType DEF Save
    <3>2. file' \in [Store -> File] /\ spoiled' \in SUBSET Store
      BY <1>14, <2>4, TaskType DEF Save, Open, Empty, File, TypeOK
    <3> QED
      BY <1>14, <2>4, <3>1, <3>2 DEF Save, TypeOK
  <2> QED
    BY <1>14, <2>3, <2>4 DEF Save
<1>15. ASSUME NEW w \in Worker, Dump(w) PROVE TypeOK' /\ StepInv'
  <2>1. work[w].req.act = "alert" => "publish" \in StepsOf(work[w].req.act)
    BY DEF StepsOf
  <2>2. work' \in [Worker -> {Idle} \cup Task] /\ StepInv'
    BY <1>15, <2>1, GotoType, FinishType DEF Dump, Step
  <2>3. file' \in [Store -> File]
    BY <1>10, <1>15, TaskType DEF Dump
  <2>4. made' \in [Store -> SUBSET Uid]
    BY <1>15, TaskType, ChangedType DEF Dump, TypeOK
  <2> QED
    BY <1>15, <2>2, <2>3, <2>4 DEF Dump, TypeOK
<1>16. ASSUME NEW w \in Worker, Publish(w) PROVE TypeOK' /\ StepInv'
  <2>1. work[w].req.x \in Uid /\ work[w].req.to \in SUBSET Svc /\ work[w].rcpt \in SUBSET Client
    BY <1>0, <1>16, TaskType, RequestKinds DEF Publish, StepsOf
  <2>2. work' \in [Worker -> {Idle} \cup Task] /\ StepInv'
    BY <1>16, FinishType DEF Publish
  <2>3. outbox' \in SUBSET [msgs : SUBSET Uid, rcpt : SUBSET Client, to : SUBSET Svc]
    BY <1>16, <2>1 DEF Publish, TypeOK
  <2> QED
    BY <1>16, <2>2, <2>3 DEF Publish, TypeOK
<1>17. ASSUME NEW w \in Worker, SendEmergenciesToClient(w) \/ ConnectedUser(w)
       PROVE  TypeOK' /\ StepInv'
  <2>1. work[w].req.x \in Client /\ work[w].mem \in SUBSET Uid
    BY <1>17, TaskType, RequestKinds DEF SendEmergenciesToClient, ConnectedUser
  <2>2. work' \in [Worker -> {Idle} \cup Task] /\ StepInv'
    BY <1>17, FinishType DEF SendEmergenciesToClient, ConnectedUser
  <2>3. outbox' \in SUBSET [msgs : SUBSET Uid, rcpt : SUBSET Client, to : SUBSET Svc]
    BY <1>17, <2>1 DEF SendEmergenciesToClient, ConnectedUser, TypeOK
  <2>4. answered' \in SUBSET Client
    BY <1>17, <2>1 DEF SendEmergenciesToClient, ConnectedUser, TypeOK
  <2> QED
    BY <1>17, <2>2, <2>3, <2>4 DEF SendEmergenciesToClient, ConnectedUser, TypeOK
<1>18. ASSUME NEW m \in outbox, BroadcastResponse(m) PROVE TypeOK' /\ StepInv'
  BY <1>18 DEF BroadcastResponse, TypeOK, StepInv
<1>19. ASSUME Crash PROVE TypeOK' /\ StepInv'
  <2>1. StepInv'
    BY <1>19 DEF Crash, StepInv, Idle
  <2> QED
    BY <1>19, <2>1 DEF Crash, Stimulus, TypeOK
<1> QED
  BY <1>3, <1>4, <1>5, <1>7, <1>8, <1>9, <1>11, <1>13, <1>14, <1>15, <1>16,
     <1>17, <1>18, <1>19, <1>20 DEF Next, WorkerStep

-----------------------------------------------------------------------------
(* A worker that is not writing before or after its step, and leaves the   *)
(* files alone, disturbs no writer.                                        *)
LEMMA Aside ==
    ASSUME WriterInv, UNCHANGED <<file, made, spoiled>>,
           \A v \in Worker : work'[v] = work[v] \/ ( /\ work[v].pc \notin Dumping
                                                     /\ work'[v].pc \notin Dumping )
    PROVE  WriterInv'
<1>1. \A v \in Worker : \A s \in Store : Writing(v, s)' <=> Writing(v, s)
  BY DEF Writing, Dumping
<1>2. \A v \in Worker : \A s \in Store : Writing(v, s) => work'[v] = work[v]
  BY DEF Writing, Dumping
<1> QED
  BY <1>1, <1>2 DEF WriterInv

(* The three ways in which a worker changes its own task alone.            *)
LEMMA OwnTask ==
    ASSUME TypeOK, NEW w \in Worker
    PROVE  /\ Finish(w) => /\ work'[w].pc = "idle"
                           /\ \A v \in Worker \ {w} : work'[v] = work[v]
           /\ \A p \in Step : Goto(w, p) =>
                 /\ work'[w].pc = p /\ work'[w].req = work[w].req
                 /\ \A v \in Worker \ {w} : work'[v] = work[v]
           /\ \A p \in Step, d \in SUBSET Uid : GotoWith(w, p, d) =>
                 /\ work'[w].pc = p /\ work'[w].mem = d /\ work'[w].req = work[w].req
                 /\ \A v \in Worker \ {w} : work'[v] = work[v]
<1>1. work[w] \in {Idle} \cup Task /\ DOMAIN work = Worker
  BY DEF TypeOK
<1>2. DOMAIN work[w] = {"req", "pc", "mem", "rcpt"}
  BY <1>1 DEF Idle, Task
<1>3. Finish(w) => /\ work'[w].pc = "idle"
                   /\ \A v \in Worker \ {w} : work'[v] = work[v]
  BY <1>1 DEF Finish, Idle
<1>4. ASSUME NEW p \in Step, Goto(w, p)
      PROVE  /\ work'[w].pc = p /\ work'[w].req = work[w].req
             /\ \A v \in Worker \ {w} : work'[v] = work[v]
  BY <1>1, <1>2, <1>4 DEF Goto
<1>5. ASSUME NEW p \in Step, NEW d \in SUBSET Uid, GotoWith(w, p, d)
      PROVE  /\ work'[w].pc = p /\ work'[w].mem = d /\ work'[w].req = work[w].req
             /\ \A v \in Worker \ {w} : work'[v] = work[v]
  BY <1>1, <1>2, <1>5 DEF GotoWith
<1> QED
  BY <1>3, <1>4, <1>5

(* Opening a file for writing: the store is spoiled unless the worker      *)
(* replaces what it expects and is alone, and then it is its one writer.   *)
LEMMA OpenStep ==
    ASSUME TypeOK, WriterInv, NEW w \in Worker, NEW s \in Store, NEW x,
           work[w].pc \notin Dumping, StoreOf(work[w].req) = s, Open(w, s, x),
           UNCHANGED made,
           work'[w].pc \in Dumping, work'[w].req = work[w].req,
           \A v \in Worker \ {w} : work'[v] = work[v],
           file[s] = x /\ (file[s] = Data(made[s]) \/ (file[s] = Absent /\ made[s] = {})) =>
               /\ work'[w].pc = "dump" => work'[w].mem = Changed(work[w].req, made[s])
               /\ work'[w].pc = "fill" => work'[w].mem = {} /\ made[s] = {}
    PROVE  WriterInv'
<1> SUFFICES ASSUME NEW q \in Store \ spoiled'
             PROVE  /\ \A u, v \in Worker : Writing(u, q)' /\ Writing(v, q)' => u = v
                    /\ \A v \in Worker : Writing(v, q)' =>
                        /\ file'[q] = Empty
                        /\ work'[v].pc = "dump" =>
                               work'[v].mem = Changed(work'[v].req, made'[q])
                        /\ work'[v].pc = "fill" => work'[v].mem = {} /\ made'[q] = {}
                    /\ (\A v \in Worker : ~Writing(v, q)') =>
                        file'[q] = Data(made'[q]) \/ (file'[q] = Absent /\ made'[q] = {})
  BY DEF WriterInv
<1>1. q \in Store \ spoiled
  BY DEF Open
<1>2. \A v \in Worker \ {w} : Writing(v, q)' <=> Writing(v, q)
  BY DEF Writing
<1>3. ~Writing(w, q) /\ (Writing(w, q)' <=> q = s)
  BY DEF Writing, Dumping
<1>4. CASE q # s
  <2>1. file'[q] = file[q]
    BY <1>4 DEF Open, TypeOK
  <2>2. ~Writing(w, q)'
    BY <1>3, <1>4
  <2> QED
    BY <1>1, <1>2, <1>3, <2>1, <2>2 DEF WriterInv
<1>5. CASE q = s
  <2>1. file[s] = x /\ \A v \in Worker \ {w} : ~Writing(v, s)
    BY <1>5 DEF Open
  <2>2. file[s] = Data(made[s]) \/ (file[s] = Absent /\ made[s] = {})
    BY <1>1, <1>3, <1>5, <2>1 DEF WriterInv
  <2>3. file'[s] = Empty
    BY DEF Open, TypeOK
  <2> QED
    BY <1>2, <1>3, <1>5, <2>1, <2>2, <2>3
<1> QED
  BY <1>4, <1>5

(* Closing a file again: what the only writer held is what was asked for.  *)
LEMMA CloseStep ==
    ASSUME TypeOK, WriterInv, NEW w \in Worker, NEW s \in Store, Writing(w, s),
           work[w].mem \in SUBSET Uid, Overwrite(s, work[w].mem), UNCHANGED spoiled,
           work'[w].pc \notin Dumping,
           \A v \in Worker \ {w} : work'[v] = work[v],
           \A q \in Store \ {s} : made'[q] = made[q],
           work[w].pc = "dump" => made'[s] = Changed(work[w].req, made[s]),
           work[w].pc = "fill" => made'[s] = made[s]
    PROVE  WriterInv'
<1> SUFFICES ASSUME NEW q \in Store \ spoiled
             PROVE  /\ \A u, v \in Worker : Writing(u, q)' /\ Writing(v, q)' => u = v
                    /\ \A v \in Worker : Writing(v, q)' =>
                        /\ file'[q] = Empty
                        /\ work'[v].pc = "dump" =>
                               work'[v].mem = Changed(work'[v].req, made'[q])
                        /\ work'[v].pc = "fill" => work'[v].mem = {} /\ made'[q] = {}
                    /\ (\A v \in Worker : ~Writing(v, q)') =>
                        file'[q] = Data(made'[q]) \/ (file'[q] = Absent /\ made'[q] = {})
  BY DEF WriterInv
<1>1. \A v \in Worker \ {w} : Writing(v, q)' <=> Writing(v, q)
  BY DEF Writing
<1>2. ~Writing(w, q)' /\ (Writing(w, q) => q = s)
  BY DEF Writing, Dumping
<1>3. CASE q # s
  <2>1. file'[q] = file[q] /\ made'[q] = made[q]
    BY <1>3 DEF Overwrite, TypeOK
  <2>2. ~Writing(w, q)
    BY <1>2, <1>3
  <2> QED
    BY <1>1, <1>2, <2>1, <2>2 DEF WriterInv
<1>4. CASE q = s
  <2>1. file[s] = Empty /\ \A v \in Worker \ {w} : ~Writing(v, s)
    BY <1>4 DEF WriterInv
  <2>2. work[w].mem = made'[s]
    BY <1>4 DEF WriterInv, Writing
  <2>3. Cardinality(work[w].mem) \in Nat /\ file[s].len = 0
    BY <2>1, DictLength DEF Empty
  <2>4. Max({Cardinality(work[w].mem), file[s].len}) = Cardinality(work[w].mem)
    BY <2>3, LongerText
  <2>5. file'[s] = Data(made'[s])
    BY <2>2, <2>4 DEF Overwrite, Data, TypeOK
  <2> QED
    BY <1>1, <1>2, <1>4, <2>1, <2>5
<1> QED
  BY <1>3, <1>4

(* Every step keeps WriterInv.                                             *)
LEMMA WriterStep ==
    ASSUME TypeOK, StepInv, WriterInv, Next
    PROVE  WriterInv'
<1> USE DEF env, net, history
<1>0. \A w \in Worker : work[w].pc # "idle" => work[w].pc \in StepsOf(work[w].req.act)
  BY DEF StepInv
<1>1. CASE Outside
  <2>1. UNCHANGED <<file, made, spoiled, work>>
    BY <1>1 DEF Outside, Connect, Submit, Enqueue, Alert, Cancel, PostEmergency,
                DeleteEmergency, DeleteAgain, PrivateCot, PostGeoObject, DeleteRepeated
  <2> QED
    BY <2>1, Aside
<1>2. ASSUME NEW w \in Worker, NEW r \in queue, Take(w, r) PROVE WriterInv'
  <2>1. FirstStep(r) \notin Dumping
    BY DEF FirstStep, Dumping
  <2>2. /\ work'[w].pc = FirstStep(r)
        /\ \A v \in Worker \ {w} : work'[v] = work[v]
    BY <1>2 DEF Take, TypeOK, Idle
  <2>3. work[w].pc \notin Dumping
    BY <1>2 DEF Take, Dumping
  <2> QED
    BY <1>2, <2>1, <2>2, <2>3, Aside DEF Take
<1>3. ASSUME NEW w \in Worker, Finish(w), work[w].pc \notin Dumping,
             UNCHANGED <<file, made, spoiled>>
      PROVE  WriterInv'
  BY <1>3, OwnTask, Aside DEF Dumping
<1>4. ASSUME NEW w \in Worker, NEW p \in Step \ Dumping, Goto(w, p),
             work[w].pc \notin Dumping, UNCHANGED <<file, made, spoiled>>
      PROVE  WriterInv'
  BY <1>4, OwnTask, Aside
<1>5. ASSUME NEW w \in Worker, NEW p \in Step \ Dumping, NEW d \in SUBSET Uid,
             GotoWith(w, p, d), work[w].pc \notin Dumping, UNCHANGED <<file, made, spoiled>>
      PROVE  WriterInv'
  BY <1>5, OwnTask, Aside
<1>6. ASSUME NEW w \in Worker, \/ Register(w) \/ Publish(w)
                               \/ SendEmergenciesToClient(w) \/ ConnectedUser(w)
      PROVE  WriterInv'
  BY <1>3, <1>6 DEF Register, Publish, SendEmergenciesToClient, ConnectedUser, Dumping
<1>7. ASSUME NEW w \in Worker, Construct(w) PROVE WriterInv'
  <2>1. work[w].pc \notin Dumping /\ UNCHANGED <<file, made, spoiled>>
    BY <1>7 DEF Construct, Dumping
  <2>2. file["emergencies"].dict \in SUBSET Uid
    BY DEF TypeOK, Store, File
  <2>3. {"create", "construct", "sync", "parse", "save"} \subseteq Step \ Dumping
    BY DEF Step, Dumping
  <2>4. \/ Goto(w, "create") \/ Raise(w)
        \/ \E p \in {"construct", "sync", "parse", "save"} :
               GotoWith(w, p, file["emergencies"].dict)
    BY <1>7 DEF Construct
  <2> QED
    BY <1>3, <1>4, <1>5, <2>1, <2>2, <2>3, <2>4 DEF Raise
<1>8. ASSUME NEW w \in Worker, LoadRepeated(w) PROVE WriterInv'
  <2>1. work[w].pc \notin Dumping /\ UNCHANGED <<file, made, spoiled>>
    BY <1>8 DEF LoadRepeated, Dumping
  <2>2. file["repeated"].dict \in SUBSET Uid
    BY DEF TypeOK, Store, File
  <2>3. {"create", AfterLoad(work[w].req)} \subseteq Step \ Dumping
    BY DEF AfterLoad, Step, Dumping
  <2> QED
    BY <1>4, <1>5, <1>8, <2>1, <2>2, <2>3 DEF LoadRepeated
<1>9. ASSUME NEW w \in Worker, Create(w) PROVE WriterInv'
  <2>1. /\ work'[w].pc = "fill" /\ work'[w].mem = {} /\ work'[w].req = work[w].req
        /\ \A v \in Worker \ {w} : work'[v] = work[v]
    BY <1>9, OwnTask DEF Create, Step
  <2>2. /\ StoreOf(work[w].req) \in Store /\ work[w].pc \notin Dumping
        /\ Open(w, StoreOf(work[w].req), Absent) /\ UNCHANGED made
    BY <1>9, TaskType DEF Create, Dumping
  <2>3. \A d : Data(d) # Absent
    BY DEF Data, Absent
  <2> QED
    BY <2>1, <2>2, <2>3, OpenStep DEF Dumping
<1>10. ASSUME NEW w \in Worker, Fill(w) PROVE WriterInv'
  <2> DEFINE s == StoreOf(work[w].req)
             p == IF s = "emergencies" THEN "facade" ELSE AfterLoad(work[w].req)
  <2>1. p \in Step /\ p \notin Dumping
    BY DEF AfterLoad, Step, Dumping
  <2>2. /\ work'[w].pc = p
        /\ \A v \in Worker \ {w} : work'[v] = work[v]
    BY <1>10, <2>1, OwnTask DEF Fill
  <2>3. /\ s \in Store /\ Writing(w, s) /\ work[w].mem \in SUBSET Uid
        /\ Overwrite(s, work[w].mem) /\ UNCHANGED <<made, spoiled>> /\ work[w].pc = "fill"
    BY <1>10, TaskType DEF Fill, Writing
  <2> QED
    BY <2>1, <2>2, <2>3, CloseStep
<1>11. ASSUME NEW w \in Worker,
              ParseEmergencyOn(w) \/ ParseEmergencyOff(w) \/ HandleDefaultCot(w)
       PROVE  WriterInv'
  <2>1. PICK r, p : /\ p \in {"publish", "construct"} /\ Address(w, r, p)
                    /\ work[w].pc = "parse"
    BY <1>11 DEF ParseEmergencyOn, ParseEmergencyOff, HandleDefaultCot
  <2>2. work[w] \in Task
    BY <2>1, TaskType
  <2>3. /\ work'[w].pc = p
        /\ \A v \in Worker \ {w} : work'[v] = work[v]
    BY <2>1, <2>2 DEF Address, TypeOK, Task
  <2> QED
    BY <2>1, <2>3, Aside DEF Address, Dumping
<1>12. ASSUME NEW w \in Worker, Sync(w) PROVE WriterInv'
  BY <1>3, <1>4, <1>12 DEF Sync, Raise, Step, Dumping
<1>13. ASSUME NEW w \in Worker, Save(w) PROVE WriterInv'
  <2> DEFINE s == StoreOf(work[w].req)
             d == Changed(work[w].req, work[w].mem)
  <2>1. CASE Raise(w) /\ UNCHANGED <<file, spoiled>>
    BY <1>3, <1>13, <2>1 DEF Save, Raise, Dumping
  <2>2. CASE Open(w, s, Data(work[w].mem)) /\ GotoWith(w, "dump", d)
    <3>1. d \in SUBSET Uid /\ s \in Store
      BY <1>13, TaskType, ChangedType DEF Save
    <3>2. /\ work'[w].pc = "dump" /\ work'[w].mem = d /\ work'[w].req = work[w].req
          /\ \A v \in Worker \ {w} : work'[v] = work[v]
      BY <2>2, <3>1, OwnTask DEF Step
    <3>3. file[s] = Data(work[w].mem)
            /\ (file[s] = Data(made[s]) \/ (file[s] = Absent /\ made[s] = {}))
          => work[w].mem = made[s]
      BY DEF Data, Absent
    <3>4. work[w].pc \notin Dumping /\ UNCHANGED made
      BY <1>13 DEF Save, Dumping
    <3> HIDE DEF d, s
    <3>5. file[s] = Data(work[w].mem)
            /\ (file[s] = Data(made[s]) \/ (file[s] = Absent /\ made[s] = {}))
          => work'[w].mem = Changed(work[w].req, made[s])
      BY <3>2, <3>3 DEF d
    <3>6. StoreOf(work[w].req) = s
      BY DEF s
    <3> QED
      BY <2>2, <3>1, <3>2, <3>4, <3>5, <3>6, OpenStep DEF Dumping
  <2> QED
    BY <1>13, <2>1, <2>2 DEF Save
<1>14. ASSUME NEW w \in Worker, Dump(w) PROVE WriterInv'
  <2> DEFINE s == StoreOf(work[w].req)
  <2>1. /\ work'[w].pc \in {"publish", "idle"}
        /\ \A v \in Worker \ {w} : work'[v] = work[v]
    BY <1>14, OwnTask DEF Dump, Step
  <2>2. /\ s \in Store /\ Writing(w, s) /\ work[w].mem \in SUBSET Uid
        /\ Overwrite(s, work[w].mem) /\ UNCHANGED spoiled /\ work[w].pc = "dump"
    BY <1>14, TaskType DEF Dump, Writing
  <2>3. /\ made'[s] = Changed(work[w].req, made[s])
        /\ \A q \in Store \ {s} : made'[q] = made[q]
    BY <1>14, <2>2 DEF Dump, TypeOK
  <2>4. work'[w].pc \notin Dumping
    BY <2>1 DEF Dumping
  <2> HIDE DEF s
  <2> QED
    BY <2>1, <2>2, <2>3, <2>4, CloseStep
<1>15. ASSUME NEW m \in outbox, BroadcastResponse(m) PROVE WriterInv'
  BY <1>15, Aside DEF BroadcastResponse
<1>16. ASSUME Crash PROVE WriterInv'
  <2>1. \A w \in Worker : work'[w].pc = "idle"
    BY <1>16 DEF Crash, Idle
  <2>2. \A s \in Store, w \in Worker : ~Writing(w, s)'
    BY <2>1 DEF Writing
  <2>3. \A s \in Store \ spoiled' : s \notin spoiled /\ \A w \in Worker : ~Writing(w, s)
    BY <1>16 DEF Crash
  <2> QED
    BY <1>16, <2>2, <2>3 DEF Crash, WriterInv
<1> QED
  BY <1>1, <1>2, <1>6, <1>7, <1>8, <1>9, <1>10, <1>11, <1>12, <1>13, <1>14, <1>15,
     <1>16 DEF Next, WorkerStep

-----------------------------------------------------------------------------
(* The inductive invariant holds in every state of the specification.      *)
THEOREM Inductive == Spec => []IInv
<1>1. IInv /\ [Next]_vars => IInv'
  <2>1. CASE Next
    BY <2>1, TypeStep, WriterStep DEF IInv
  <2>2. CASE UNCHANGED vars
    <3>1. TypeOK => TypeOK'
      BY <2>2 DEF vars, env, net, history, TypeOK
    <3>2. StepInv => StepInv'
      BY <2>2 DEF vars, env, net, history, StepInv
    <3>3. WriterInv => WriterInv'
      BY <2>2, Aside DEF vars, env, net, history
    <3> QED
      BY <3>1, <3>2, <3>3 DEF IInv
  <2> QED
    BY <2>1, <2>2
<1> QED
  BY <1>1, InitInv, PTL DEF Spec

(* Every variable keeps its type, for every number of workers, clients and *)
(* messages.                                                               *)
THEOREM TypeCorrect == Spec => []TypeOK
  BY Inductive, PTL DEF IInv

(* With any number of workers, requests and crashes, a file that no two    *)
(* writers and no crash have spoiled is exactly what was asked for, or is  *)
(* being written by one worker.                                            *)
THEOREM Exact == Spec => []StoresAreExact
<1>1. IInv => StoresAreExact
  BY DEF IInv, WriterInv, StoresAreExact
<1> QED
  BY <1>1, Inductive, PTL
-----------------------------------------------------------------------------
(* Connected clients are served.                                           *)

\* A request that was made and is not finished.
Asked(act, c) == [act |-> act, x |-> c, to |-> Svc]
Waiting(r) == r \in queue \/ \E w \in Worker : work[w].req = r

\* A connected client is registered, and answered by the repeater, or is going to be.
\* It asks for the emergencies once.
ClientInv ==
    /\ \A c \in conn : c \in iam \/ Waiting(Asked("connection", c))
    /\ \A c \in conn : c \in answered \/ Waiting(Asked("repeater", c))
    /\ \A c \in Client : Waiting(Asked("emergencies", c)) => c \in conn
    /\ \A c \in Client, w \in Worker : work[w].req = Asked("emergencies", c) =>
        /\ Asked("emergencies", c) \notin queue
        /\ \A v \in Worker : work[v].req = work[w].req => v = w

Altering(w) == work[w].pc # "idle" /\ work[w].req.act \in {"alert", "cancel"}
Creating(w) == work[w].pc = "fill" /\ work[w].req.act = "emergencies"

\* While a client without a clash is connecting, nobody writes the emergencies, but
\* for its own request, which may create the file.
AloneInv ==
    \A c \in conn \ clash, w \in Worker : Pending(c) =>
        /\ ~Altering(w)
        /\ Creating(w) => work[w].req.x = c

Near(c, e) == everywhere \/ c \in Reach[e]

\* The steps of an alert at which its recipients have been looked up.
Addressed == {"construct", "save", "dump", "publish"}

AlertOf(r, e) == r.act = "alert" /\ r.x = e

\* The client was sent the alert or is going to be.
Told(c, e) ==
    \/ e \in got[c]
    \/ \E m \in outbox : e \in m.msgs /\ Home[c] \in m.to /\ (m.rcpt = {} \/ c \in m.rcpt)
    \/ \E r \in queue : AlertOf(r, e) /\ Home[c] \in r.to
    \/ \E w \in Worker :
        /\ work[w].pc # "idle" /\ AlertOf(work[w].req, e) /\ Home[c] \in work[w].req.to
        /\ work[w].pc \in Addressed => work[w].rcpt = {} \/ c \in work[w].rcpt

\* The client's own request for the emergencies is going to find this one.
Asking(c, e) ==
    \/ Asked("emergencies", c) \in queue
    \/ \E w \in Worker : /\ work[w].req = Asked("emergencies", c)
                         /\ work[w].pc \in {"sync", "tell"} => e \in work[w].mem

UnderWay(e) ==
    \/ \E r \in queue : AlertOf(r, e)
    \/ \E w \in Worker : work[w].pc # "idle" /\ AlertOf(work[w].req, e)

\* An alert that is under way will reach every connected client near it, and an
\* emergency that is in the file has reached them or is being asked for.
TellInv ==
    \A c \in conn \ clash, e \in Uid \ failed :
        /\ UnderWay(e) /\ Near(c, e) => Told(c, e)
        /\ "emergencies" \notin spoiled /\ e \in made["emergencies"] /\ Near(c, e) =>
               Told(c, e) \/ Asking(c, e)

ServedInv == ClientInv /\ AloneInv /\ TellInv

-----------------------------------------------------------------------------
(* What a client asks for when it connects is a request, of its act alone. *)
LEMMA AskedType ==
    ASSUME NEW c \in Client
    PROVE  /\ \A a \in {"connection", "repeater", "emergencies"} :
                 /\ Asked(a, c) \in Request /\ Asked(a, c).act = a /\ Asked(a, c).x = c
                 /\ \A r \in Request : r.act = a /\ r.x = c => r = Asked(a, c)
           /\ Idle.pc = "idle" /\ \A r \in Request : Idle.req # r
<1>1. \A a \in {"connection", "repeater", "emergencies"} :
          Asked(a, c) \in Request /\ Asked(a, c).act = a /\ Asked(a, c).x = c
  BY DEF Asked, Request
<1>2. ASSUME NEW a \in {"connection", "repeater", "emergencies"}, NEW r \in Request,
             r.act = a, r.x = c
      PROVE  r = Asked(a, c)
  <2>1. r \in [act : {"connection", "repeater", "emergencies"}, x : Client, to : {Svc}]
    BY <1>2 DEF Request
  <2> QED
    BY <1>2, <2>1 DEF Asked
<1>3. Idle.pc = "idle" /\ \A r \in Request : Idle.req # r
  BY NoReqAssumption DEF Idle
<1> QED
  BY <1>1, <1>2, <1>3

(* A worker is idle or has a request of its own.                           *)
LEMMA WorkKinds ==
    ASSUME TypeOK, NEW w \in Worker
    PROVE  /\ work[w].pc = "idle" => work[w] = Idle
           /\ \A r \in Request : work[w].req = r => work[w].pc # "idle"
<1>1. work[w] \in {Idle} \cup Task
  BY DEF TypeOK
<1>2. \A t \in Task : t.pc # "idle"
  BY DEF Task, Step
<1>3. \A r \in Request : Idle.req # r
  BY NoReqAssumption DEF Idle
<1> QED
  BY <1>1, <1>2, <1>3 DEF Idle

(* A client is pending as long as one of its two requests waits.           *)
LEMMA PendingIs ==
    ASSUME TypeOK, NEW c \in Client
    PROVE  Pending(c) <=>
               Waiting(Asked("connection", c)) \/ Waiting(Asked("emergencies", c))
<1>1. \A r \in Request : r.x = c /\ r.act \in {"connection", "emergencies"} <=>
                         r \in {Asked("connection", c), Asked("emergencies", c)}
  BY AskedType
<1>2. queue \subseteq Request
  BY DEF TypeOK
<1>3. ASSUME NEW w \in Worker
      PROVE  (/\ work[w].pc # "idle" /\ work[w].req.x = c
              /\ work[w].req.act \in {"connection", "emergencies"}) <=>
             work[w].req \in {Asked("connection", c), Asked("emergencies", c)}
  <2>1. work[w].pc # "idle" => work[w].req \in Request
    BY TaskType
  <2>2. work[w].req \in {Asked("connection", c), Asked("emergencies", c)} =>
            work[w].pc # "idle"
    BY WorkKinds, AskedType
  <2> QED
    BY <1>1, <2>1, <2>2
<1> QED
  BY <1>1, <1>2, <1>3 DEF Pending, Waiting


(* What the step of a worker leaves alone and what only grows: it keeps    *)
(* its request or gives it up, and nobody else's task changes.             *)
LEMMA WorkerFrame ==
    ASSUME TypeOK, StepInv, NEW w \in Worker, WorkerStep(w)
    PROVE  /\ work[w].pc # "idle"
           /\ \A v \in Worker \ {w} : work'[v] = work[v]
           /\ \/ work'[w] = Idle
              \/ work'[w].req = work[w].req /\ work'[w].pc # "idle"
           /\ UNCHANGED <<queue, conn, everywhere, got>>
           /\ iam \subseteq iam' /\ answered \subseteq answered' /\ clash \subseteq clash'
           /\ failed \subseteq failed' /\ spoiled \subseteq spoiled'
           /\ outbox \subseteq outbox'
<1> USE DEF env, net, history
<1>1. /\ Finish(w) => /\ work'[w] = Idle
                      /\ \A v \in Worker \ {w} : work'[v] = work[v]
  BY DEF Finish, TypeOK
<1>2. ASSUME NEW p \in Step, NEW d \in SUBSET Uid, Goto(w, p) \/ GotoWith(w, p, d)
      PROVE  /\ work'[w].req = work[w].req /\ work'[w].pc # "idle"
             /\ \A v \in Worker \ {w} : work'[v] = work[v]
  BY <1>2, OwnTask DEF Step
<1>3. ASSUME work[w].pc # "idle", NEW r, NEW p \in Step, Address(w, r, p)
      PROVE  /\ work'[w].req = work[w].req /\ work'[w].pc # "idle"
             /\ \A v \in Worker \ {w} : work'[v] = work[v]
  <2>1. work[w] \in Task
    BY <1>3, TaskType
  <2> QED
    BY <1>3, <2>1 DEF Address, TypeOK, Task, Step
<1> DEFINE Framed == /\ \A v \in Worker \ {w} : work'[v] = work[v]
                     /\ \/ work'[w] = Idle
                        \/ work'[w].req = work[w].req /\ work'[w].pc # "idle"
<1>4. {"create", "construct", "sync", "parse", "save", "fill", "facade", "tell", "dump",
       "publish"} \subseteq Step
  BY DEF Step
<1>5. file["emergencies"].dict \in SUBSET Uid /\ file["repeated"].dict \in SUBSET Uid
  BY DEF TypeOK, Store, File
<1>6. work[w].pc # "idle"
  BY DEF WorkerStep, Register, Construct, LoadRepeated, Create, Fill, ParseEmergencyOn,
         ParseEmergencyOff, HandleDefaultCot, Sync, Save, Dump, Publish,
         SendEmergenciesToClient, ConnectedUser
<1>7. CASE Register(w) \/ Publish(w) \/ SendEmergenciesToClient(w) \/ ConnectedUser(w)
  <2>1. Framed
    BY <1>1, <1>7 DEF Register, Publish, SendEmergenciesToClient, ConnectedUser
  <2> QED
    BY <1>6, <1>7, <2>1 DEF Register, Publish, SendEmergenciesToClient, ConnectedUser
<1>8. CASE Construct(w) \/ LoadRepeated(w) \/ Sync(w)
  <2>1. Framed
    <3>1. CASE Construct(w)
      <4>1. \/ Goto(w, "create") \/ Raise(w)
            \/ \E p \in {"construct", "sync", "parse", "save"} :
                   GotoWith(w, p, file["emergencies"].dict)
        BY <3>1 DEF Construct
      <4> QED
        BY <1>1, <1>2, <1>4, <1>5, <4>1 DEF Raise
    <3>2. CASE LoadRepeated(w)
      BY <1>2, <1>4, <1>5, <3>2 DEF LoadRepeated, AfterLoad
    <3>3. CASE Sync(w)
      BY <1>1, <1>2, <1>4, <3>3 DEF Sync, Raise
    <3> QED
      BY <1>8, <3>1, <3>2, <3>3
  <2> QED
    BY <1>6, <1>8, <2>1 DEF Construct, LoadRepeated, Sync, Raise
<1>9. CASE Create(w) \/ Fill(w)
  <2>1. Framed
    BY <1>2, <1>4, <1>9 DEF Create, Fill, AfterLoad
  <2> QED
    BY <1>6, <1>9, <2>1 DEF Create, Fill, Open
<1>10. CASE ParseEmergencyOn(w) \/ ParseEmergencyOff(w) \/ HandleDefaultCot(w)
  <2>1. Framed
    BY <1>3, <1>4, <1>6, <1>10 DEF ParseEmergencyOn, ParseEmergencyOff, HandleDefaultCot
  <2> QED
    BY <1>6, <1>10, <2>1
    DEF ParseEmergencyOn, ParseEmergencyOff, HandleDefaultCot, Address
<1>11. CASE Save(w) \/ Dump(w)
  <2>1. Changed(work[w].req, work[w].mem) \in SUBSET Uid
    BY <1>6, TaskType, ChangedType
  <2>2. Framed
    BY <1>1, <1>2, <1>4, <1>11, <2>1 DEF Save, Dump, Raise
  <2> QED
    BY <1>6, <1>11, <2>2 DEF Save, Dump, Raise, Open
<1> QED
  BY <1>7, <1>8, <1>9, <1>10, <1>11 DEF WorkerStep

(* The requests that wait while a worker takes a step: none is added, and  *)
(* only its own may go.                                                    *)
LEMMA WaitingStep ==
    ASSUME TypeOK, StepInv, NEW w \in Worker, WorkerStep(w), NEW r \in Request
    PROVE  /\ Waiting(r)' => Waiting(r)
           /\ Waiting(r) => Waiting(r)' \/ (work[w].req = r /\ work'[w] = Idle)
           /\ \A v \in Worker : work'[v].req = r => work[v].req = r
<1>1. Idle.req # r
  BY NoReqAssumption DEF Idle
<1>2. \A v \in Worker : work'[v].req = r => work[v].req = r
  BY <1>1, WorkerFrame
<1>3. \A v \in Worker : work[v].req = r => work'[v].req = r \/ (v = w /\ work'[w] = Idle)
  BY WorkerFrame
<1> QED
  BY <1>2, <1>3, WorkerFrame DEF Waiting

(* The same after a step.                                                  *)
LEMMA PendingIsNext ==
    ASSUME TypeOK', NEW c \in Client
    PROVE  Pending(c)' <=>
               Waiting(Asked("connection", c))' \/ Waiting(Asked("emergencies", c))'
<1>1. TypeOK' /\ c \in Client => (Pending(c)' <=>
          Waiting(Asked("connection", c))' \/ Waiting(Asked("emergencies", c))')
  BY PendingIs, PTL
<1> QED
  BY <1>1

(* A client that is pending after a worker's step was so before it.        *)
LEMMA PendingStep ==
    ASSUME TypeOK, TypeOK', StepInv, NEW w \in Worker, WorkerStep(w), NEW c \in Client,
           Pending(c)'
    PROVE  Pending(c)
<1>1. Waiting(Asked("connection", c))' \/ Waiting(Asked("emergencies", c))'
  BY PendingIsNext
<1>2. Waiting(Asked("connection", c)) \/ Waiting(Asked("emergencies", c))
  BY <1>1, AskedType, WaitingStep
<1> QED
  BY <1>2, PendingIs

(* A worker gives up the registration of a client, or its request to the   *)
(* repeater, only when it has done it.                                     *)
LEMMA DoneWhenGivenUp ==
    ASSUME TypeOK, StepInv, NEW w \in Worker, WorkerStep(w), NEW c \in Client,
           work'[w] = Idle
    PROVE  /\ work[w].req = Asked("connection", c) => c \in iam'
           /\ work[w].req = Asked("repeater", c) => c \in answered'
<1> USE DEF env, net, history
<1>1. work[w].pc # "idle" /\ work[w].pc \in StepsOf(work[w].req.act)
  BY WorkerFrame DEF StepInv
<1>2. work'[w].pc = "idle"
  BY DEF Idle
<1>3. ASSUME work[w].req = Asked("connection", c) PROVE c \in iam'
  <2>1. work[w].pc = "register" /\ work[w].req.x = c
    BY <1>1, <1>3 DEF Asked, StepsOf
  <2>2. Register(w)
    BY <2>1 DEF WorkerStep, Construct, LoadRepeated, Create, Fill, ParseEmergencyOn,
         ParseEmergencyOff, HandleDefaultCot, Sync, Save, Dump, Publish,
         SendEmergenciesToClient, ConnectedUser
  <2> QED
    BY <2>1, <2>2 DEF Register
<1>4. ASSUME work[w].req = Asked("repeater", c) PROVE c \in answered'
  <2>1. /\ work[w].pc \in {"load", "create", "fill", "tell"}
        /\ work[w].req.act = "repeater" /\ work[w].req.x = c
    BY <1>1, <1>4 DEF Asked, StepsOf
  <2>2. LoadRepeated(w) \/ Create(w) \/ Fill(w) \/ ConnectedUser(w)
    BY <2>1 DEF WorkerStep, Register, Construct, ParseEmergencyOn, ParseEmergencyOff,
         HandleDefaultCot, Sync, Save, Dump, Publish, SendEmergenciesToClient
  <2>3. ASSUME NEW p \in Step, NEW d \in SUBSET Uid, Goto(w, p) \/ GotoWith(w, p, d)
        PROVE  FALSE
    BY <1>2, <2>3, OwnTask DEF Step
  <2>4. {"create", "fill", "facade", "tell", "save"} \subseteq Step
    BY DEF Step
  <2>5. file["repeated"].dict \in SUBSET Uid
    BY DEF TypeOK, Store, File
  <2>6. ~LoadRepeated(w) /\ ~Create(w) /\ ~Fill(w)
    BY <2>3, <2>4, <2>5 DEF LoadRepeated, Create, Fill, AfterLoad
  <2> QED
    BY <2>1, <2>2, <2>6 DEF ConnectedUser
<1> QED
  BY <1>3, <1>4

(* Taking a request moves it to the worker.                                *)
LEMMA TakeFrame ==
    ASSUME TypeOK, NEW w \in Worker, NEW r \in queue, Take(w, r)
    PROVE  /\ r \in Request /\ work[w] = Idle
           /\ work'[w] = [Idle EXCEPT !.req = r, !.pc = FirstStep(r)]
           /\ work'[w].req = r /\ work'[w].pc = FirstStep(r) /\ work'[w].pc # "idle"
           /\ \A v \in Worker \ {w} : work'[v] = work[v]
           /\ queue' = queue \ {r}
           /\ \A q \in Request : Waiting(q)' <=> Waiting(q)
<1>1. r \in Request /\ work[w] = Idle
  BY WorkKinds DEF Take, TypeOK
<1>2. work'[w] = [Idle EXCEPT !.req = r, !.pc = FirstStep(r)]
  BY DEF Take, TypeOK
<1>3. /\ work'[w].req = r /\ work'[w].pc = FirstStep(r)
      /\ \A v \in Worker \ {w} : work'[v] = work[v]
  BY <1>2 DEF Take, TypeOK, Idle
<1>4. FirstStep(r) # "idle"
  BY DEF FirstStep
<1>5. \A q \in Request : work[w].req # q
  BY <1>1, NoReqAssumption DEF Idle
<1>6. \A q \in Request : Waiting(q)' <=> Waiting(q)
  BY <1>3, <1>5 DEF Waiting, Take
<1> QED
  BY <1>1, <1>2, <1>3, <1>4, <1>6 DEF Take

(* The requests from outside that are not about a connection.              *)
LEMMA OutsideFrame ==
    ASSUME TypeOK, Outside
    PROVE  \/ \E c \in Client : Connect(c)
           \/ \E rs \in SUBSET Request :
                  /\ Enqueue(rs)
                  /\ \A r \in rs : /\ r.act \notin {"connection", "repeater", "emergencies"}
                                   /\ r.act = "alert" => r.x \in Emergency
                  /\ \A r \in rs, s \in Svc : r.act = "alert" =>
                         \E q \in rs : AlertOf(q, r.x) /\ s \in q.to
<1>1. \A e \in Emergency, a \in {"alert", "cancel"}, t \in SUBSET Svc :
          [act |-> a, x |-> e, to |-> t] \in Request
  BY DEF Request
<1>2. \A m \in Cot : [act |-> "cot", x |-> m, to |-> Svc] \in Request
  BY DEF Request
<1>3. \A g \in Geo, a \in {"repeat", "unrepeat"} :
          [act |-> a, x |-> g, to |-> Svc] \in Request
  BY DEF Request
<1> DEFINE Fits(rs) ==
        /\ \A r \in rs : /\ r.act \notin {"connection", "repeater", "emergencies"}
                         /\ r.act = "alert" => r.x \in Emergency
        /\ \A r \in rs, s \in Svc : r.act = "alert" =>
               \E q \in rs : AlertOf(q, r.x) /\ s \in q.to
<1>4. ASSUME NEW e \in Emergency, Alert(e)
      PROVE  \E rs \in SUBSET Request : Enqueue(rs) /\ Fits(rs)
  <2> DEFINE rs == {[act |-> "alert", x |-> e, to |-> Svc]}
  <2>1. rs \in SUBSET Request /\ Enqueue(rs)
    BY <1>1, <1>4 DEF Alert, Submit
  <2>2. Fits(rs)
    BY DEF AlertOf
  <2> QED
    BY <2>1, <2>2
<1>5. ASSUME NEW e \in Emergency, PostEmergency(e)
      PROVE  \E rs \in SUBSET Request : Enqueue(rs) /\ Fits(rs)
  <2> DEFINE rs == {[act |-> "alert", x |-> e, to |-> {s}] : s \in Svc}
  <2>1. rs \in SUBSET Request /\ Enqueue(rs)
    BY <1>1, <1>5 DEF PostEmergency, Submit
  <2>2. \A r \in rs : r.act = "alert" /\ r.x = e
    OBVIOUS
  <2>3. \A s \in Svc : \E q \in rs : AlertOf(q, e) /\ s \in q.to
    <3> SUFFICES ASSUME NEW s \in Svc PROVE \E q \in rs : AlertOf(q, e) /\ s \in q.to
      OBVIOUS
    <3>1. [act |-> "alert", x |-> e, to |-> {s}] \in rs
      OBVIOUS
    <3> QED
      BY <3>1 DEF AlertOf
  <2> HIDE DEF rs
  <2>4. Fits(rs)
    BY <2>2, <2>3
  <2> QED
    BY <2>1, <2>4
<1>6. ASSUME NEW e \in Emergency, Cancel(e) \/ DeleteEmergency(e) \/ DeleteAgain(e)
      PROVE  \E rs \in SUBSET Request : Enqueue(rs) /\ Fits(rs)
  <2>1. PICK t \in SUBSET Svc : Enqueue({[act |-> "cancel", x |-> e, to |-> t]})
    BY <1>6 DEF Cancel, Submit, DeleteEmergency, DeleteAgain, Deletion
  <2> DEFINE rs == {[act |-> "cancel", x |-> e, to |-> t]}
  <2>2. rs \in SUBSET Request /\ Enqueue(rs)
    BY <1>1, <2>1
  <2>3. Fits(rs)
    OBVIOUS
  <2> QED
    BY <2>2, <2>3
<1>7. ASSUME NEW m \in Cot, PrivateCot(m)
      PROVE  \E rs \in SUBSET Request : Enqueue(rs) /\ Fits(rs)
  <2> DEFINE rs == {[act |-> "cot", x |-> m, to |-> Svc]}
  <2>1. rs \in SUBSET Request /\ Enqueue(rs)
    BY <1>2, <1>7 DEF PrivateCot, Submit
  <2>2. Fits(rs)
    OBVIOUS
  <2> QED
    BY <2>1, <2>2
<1>8. ASSUME NEW g \in Geo, PostGeoObject(g) \/ DeleteRepeated(g)
      PROVE  \E rs \in SUBSET Request : Enqueue(rs) /\ Fits(rs)
  <2>1. PICK a \in {"repeat", "unrepeat"} : Enqueue({[act |-> a, x |-> g, to |-> Svc]})
    BY <1>8 DEF PostGeoObject, DeleteRepeated, Submit
  <2> DEFINE rs == {[act |-> a, x |-> g, to |-> Svc]}
  <2>2. rs \in SUBSET Request /\ Enqueue(rs)
    BY <1>3, <2>1
  <2>3. Fits(rs)
    OBVIOUS
  <2> QED
    BY <2>2, <2>3
<1> QED
  BY <1>4, <1>5, <1>6, <1>7, <1>8 DEF Outside

-----------------------------------------------------------------------------
(* A connecting client: its three requests are new, and nobody else's      *)
(* requests change.                                                        *)
LEMMA ConnectFrame ==
    ASSUME TypeOK, NEW c \in Client, Connect(c)
    PROVE  /\ c \notin conn /\ conn' = conn \cup {c}
           /\ queue \subseteq queue' /\ UNCHANGED <<work, iam, outbox, got, everywhere>>
           /\ UNCHANGED <<made, spoiled, failed, file>>
           /\ \A r \in queue' : r \in queue \/ (r.x = c /\ r.act # "alert")
           /\ \A a \in {"connection", "repeater", "emergencies"} :
                 /\ Asked(a, c) \in queue'
                 /\ \A d \in Client \ {c} : Asked(a, d) \in queue' <=> Asked(a, d) \in queue
           /\ clash' = IF Changing THEN clash \cup {c} ELSE clash \ {c}
           /\ answered' = answered \ {c}
<1>1. queue' = queue \cup {Asked(a, c) : a \in {"connection", "repeater", "emergencies"}}
  BY DEF Connect, ConnectRequests, Asked
<1>2. \A a, b : \A d \in Client \ {c} : Asked(a, d) # Asked(b, c)
  BY DEF Asked
<1>3. \A a : Asked(a, c).x = c /\ Asked(a, c).act = a
  BY DEF Asked
<1>4. \A a \in {"connection", "repeater", "emergencies"} :
          /\ Asked(a, c) \in queue'
          /\ \A d \in Client \ {c} : Asked(a, d) \in queue' <=> Asked(a, d) \in queue
  BY <1>1, <1>2
<1>5. \A r \in queue' : r \in queue \/ (r.x = c /\ r.act # "alert")
  BY <1>1, <1>3
<1> QED
  BY <1>1, <1>4, <1>5 DEF Connect

(* A client is registered and answered, or is going to be.                 *)
LEMMA ClientStep ==
    ASSUME TypeOK, StepInv, ClientInv, Next
    PROVE  ClientInv'
<1> USE DEF env, net, history
<1>0. conn \subseteq Client
  BY DEF TypeOK
<1> DEFINE Kind == {"connection", "repeater", "emergencies"}
<1>1. ASSUME NEW c \in Client, Connect(c) PROVE ClientInv'
  <2>1. \A a \in Kind : Waiting(Asked(a, c))'
    BY <1>1, ConnectFrame DEF Waiting
  <2>2. \A a \in Kind : \A d \in Client \ {c} : Waiting(Asked(a, d))' <=> Waiting(Asked(a, d))
    BY <1>1, ConnectFrame DEF Waiting
  <2>3. \A w \in Worker : work[w].req # Asked("emergencies", c)
    BY <1>1, ConnectFrame DEF ClientInv, Waiting
  <2>4. \A d \in conn' : d \in iam' \/ Waiting(Asked("connection", d))'
    BY <1>0, <1>1, <2>1, <2>2, ConnectFrame DEF ClientInv
  <2>5. \A d \in conn' : d \in answered' \/ Waiting(Asked("repeater", d))'
    BY <1>0, <1>1, <2>1, <2>2, ConnectFrame DEF ClientInv
  <2>6. \A d \in Client : Waiting(Asked("emergencies", d))' => d \in conn'
    BY <1>1, <2>2, ConnectFrame DEF ClientInv
  <2>7. ASSUME NEW d \in Client, NEW w \in Worker, work'[w].req = Asked("emergencies", d)
        PROVE  /\ Asked("emergencies", d) \notin queue'
               /\ \A v \in Worker : work'[v].req = work'[w].req => v = w
    <3>1. work' = work /\ d # c
      BY <1>1, <2>3, <2>7, ConnectFrame
    <3> QED
      BY <1>1, <2>7, <3>1, ConnectFrame DEF ClientInv
  <2>8. \A d \in Client, w \in Worker : work'[w].req = Asked("emergencies", d)' =>
            /\ Asked("emergencies", d)' \notin queue'
            /\ \A v \in Worker : work'[v].req = work'[w].req => v = w
    BY <2>7 DEF Asked
  <2> QED
    BY <2>4, <2>5, <2>6, <2>8 DEF ClientInv, Waiting, Asked
<1>2. ASSUME NEW rs \in SUBSET Request, Enqueue(rs), \A r \in rs : r.act \notin Kind
      PROVE  ClientInv'
  <2>1. \A a \in Kind, c \in Client : Asked(a, c) \in queue' <=> Asked(a, c) \in queue
    BY <1>2, AskedType DEF Enqueue
  <2>2. UNCHANGED <<work, conn, iam, answered>>
    BY <1>2 DEF Enqueue
  <2>3. \A a \in Kind, c \in Client : Waiting(Asked(a, c))' <=> Waiting(Asked(a, c))
    BY <2>1, <2>2 DEF Waiting, Asked
  <2> QED
    BY <1>0, <2>1, <2>2, <2>3 DEF ClientInv, Asked
<1>3. ASSUME NEW w \in Worker, NEW r \in queue, Take(w, r) PROVE ClientInv'
  <2>1. UNCHANGED <<conn, iam, answered>>
    BY <1>3 DEF Take
  <2>2. \A a \in Kind, c \in Client : Waiting(Asked(a, c))' <=> Waiting(Asked(a, c))
    BY <1>3, TakeFrame, AskedType DEF Asked
  <2>4. queue' = queue \ {r}
    BY <1>3 DEF Take
  <2>3. ASSUME NEW c \in Client, NEW v \in Worker, work'[v].req = Asked("emergencies", c)
        PROVE  /\ Asked("emergencies", c) \notin queue'
               /\ \A u \in Worker : work'[u].req = work'[v].req => u = v
    <3>1. Asked("emergencies", c) \in Request
      BY AskedType
    <3>2. CASE Asked("emergencies", c) = r
      <4>1. \A u \in Worker : work[u].req # r
        BY <3>2 DEF ClientInv
      <4>2. \A u \in Worker : work'[u].req = r => u = w
        BY <1>3, <4>1, TakeFrame
      <4> QED
        BY <2>3, <2>4, <3>2, <4>2
    <3>3. CASE Asked("emergencies", c) # r
      <4>1. \A u \in Worker : work'[u].req = Asked("emergencies", c) =>
                u # w /\ work[u].req = Asked("emergencies", c)
        BY <1>3, <3>3, TakeFrame
      <4> QED
        BY <2>3, <2>4, <4>1 DEF ClientInv
    <3> QED
      BY <3>2, <3>3
  <2> QED
    BY <1>0, <2>1, <2>2, <2>3 DEF ClientInv, Asked
<1>4. ASSUME NEW w \in Worker, WorkerStep(w) PROVE ClientInv'
  <2>1. \A a \in Kind, c \in Client :
            /\ Waiting(Asked(a, c))' => Waiting(Asked(a, c))
            /\ Waiting(Asked(a, c)) =>
                   Waiting(Asked(a, c))' \/ (work[w].req = Asked(a, c) /\ work'[w] = Idle)
            /\ \A v \in Worker : work'[v].req = Asked(a, c) => work[v].req = Asked(a, c)
    <3> SUFFICES ASSUME NEW a \in Kind, NEW c \in Client, NEW r \in Request, r = Asked(a, c)
                 PROVE  /\ Waiting(r)' => Waiting(r)
                        /\ Waiting(r) => Waiting(r)' \/ (work[w].req = r /\ work'[w] = Idle)
                        /\ \A v \in Worker : work'[v].req = r => work[v].req = r
      BY AskedType DEF Waiting
    <3> QED
      BY <1>4, WaitingStep
  <2>2. \A c \in conn' : c \in iam' \/ Waiting(Asked("connection", c))'
    BY <1>0, <1>4, <2>1, WorkerFrame, DoneWhenGivenUp DEF ClientInv
  <2>3. \A c \in conn' : c \in answered' \/ Waiting(Asked("repeater", c))'
    BY <1>0, <1>4, <2>1, WorkerFrame, DoneWhenGivenUp DEF ClientInv
  <2>4. \A c \in Client : Waiting(Asked("emergencies", c))' => c \in conn'
    BY <1>4, <2>1, WorkerFrame DEF ClientInv
  <2>5. ASSUME NEW c \in Client, NEW v \in Worker, work'[v].req = Asked("emergencies", c)
        PROVE  /\ Asked("emergencies", c) \notin queue'
               /\ \A u \in Worker : work'[u].req = work'[v].req => u = v
    BY <1>4, <2>1, <2>5, WorkerFrame DEF ClientInv
  <2> QED
    BY <2>2, <2>3, <2>4, <2>5 DEF ClientInv, Asked
<1>5. ASSUME NEW m \in outbox, BroadcastResponse(m) PROVE ClientInv'
  BY <1>5 DEF BroadcastResponse, ClientInv, Waiting, Asked
<1>6. ASSUME Crash PROVE ClientInv'
  <2>1. \A c \in Client, a \in Kind : ~Waiting(Asked(a, c))'
    BY <1>6, AskedType DEF Crash, Waiting, Asked
  <2>2. conn' = {}
    BY <1>6 DEF Crash
  <2>3. \A c \in Client, w \in Worker : work'[w].req # Asked("emergencies", c)
    BY <1>6, AskedType DEF Crash
  <2> QED
    BY <2>1, <2>2, <2>3 DEF ClientInv, Asked
<1> QED
  BY <1>1, <1>2, <1>3, <1>4, <1>5, <1>6, OutsideFrame DEF Next

(* A worker opens the file to create it, and every other client that is    *)
(* connecting has a clash.                                                 *)
LEMMA CreatingStep ==
    ASSUME TypeOK, StepInv, NEW w \in Worker, WorkerStep(w), Creating(w)'
    PROVE  \A c \in Client : Pending(c) => c \in clash' \/ work[w].req.x = c
<1> USE DEF env, net, history
<1>1. /\ work'[w].pc = "fill" /\ work'[w].req = work[w].req
      /\ work[w].req.act = "emergencies"
  BY WorkerFrame DEF Creating, Idle
<1>2. work[w].pc \in {"facade", "construct", "create", "fill", "sync", "tell"}
  BY <1>1, WorkerFrame DEF StepInv, StepsOf
<1>3. Construct(w) \/ Create(w) \/ Fill(w) \/ Sync(w) \/ SendEmergenciesToClient(w)
  BY <1>1, <1>2 DEF WorkerStep, Register, LoadRepeated, ParseEmergencyOn,
       ParseEmergencyOff, HandleDefaultCot, Save, Dump, Publish, ConnectedUser
<1>4. ASSUME NEW p \in Step \ {"fill"}, NEW d \in SUBSET Uid,
             Goto(w, p) \/ GotoWith(w, p, d) \/ Finish(w)
      PROVE  FALSE
  BY <1>1, <1>4, OwnTask
<1>5. {"create", "construct", "sync", "tell", "facade"} \subseteq Step \ {"fill"}
  BY DEF Step
<1>6. file["emergencies"].dict \in SUBSET Uid
  BY DEF TypeOK, Store, File
<1>7. StoreOf(work[w].req) = "emergencies"
  BY <1>1 DEF StoreOf
<1>8. ~Construct(w)
  <2> SUFFICES ASSUME Construct(w) PROVE FALSE
    OBVIOUS
  <2>1. \/ Goto(w, "create") \/ Finish(w)
        \/ \E p \in {"construct", "sync"} : GotoWith(w, p, file["emergencies"].dict)
    BY <1>1 DEF Construct, Raise
  <2> QED
    BY <1>4, <1>5, <1>6, <2>1
<1>9. ~Fill(w) /\ ~Sync(w) /\ ~SendEmergenciesToClient(w)
  BY <1>4, <1>5, <1>6, <1>7 DEF Fill, Sync, Raise, SendEmergenciesToClient
<1> QED
  BY <1>3, <1>7, <1>8, <1>9 DEF Create

(* While a client without a clash is connecting, nobody else writes the    *)
(* file of the emergencies.                                                *)
LEMMA AloneStep ==
    ASSUME TypeOK, TypeOK', StepInv, ClientInv, AloneInv, Next
    PROVE  AloneInv'
<1> USE DEF env, net, history
<1>0. conn \subseteq Client /\ conn' \subseteq Client
  BY DEF TypeOK
<1>1. ASSUME NEW c \in Client, Connect(c) PROVE AloneInv'
  <2> SUFFICES ASSUME NEW d \in conn' \ clash', NEW w \in Worker, Pending(d)'
               PROVE  ~Altering(w)' /\ (Creating(w)' => work'[w].req.x = d)
    BY DEF AloneInv
  <2>1. (Altering(w)' <=> Altering(w)) /\ (Creating(w)' <=> Creating(w)) /\ work' = work
    BY <1>1, ConnectFrame DEF Altering, Creating
  <2>2. CASE d = c
    <3>1. ~Changing
      BY <1>1, <2>2, ConnectFrame
    <3>2. Creating(w) => StoreOf(work[w].req) = "emergencies" /\ work[w].pc = "fill"
      BY DEF Creating, StoreOf
    <3>3. ~Altering(w) /\ ~Creating(w)
      BY <3>1, <3>2 DEF Changing, Altering
    <3> QED
      BY <2>1, <3>3
  <2>3. CASE d # c
    <3>1. d \in conn \ clash
      BY <1>1, <2>3, ConnectFrame
    <3>2. \A a \in {"connection", "emergencies"} :
              Waiting(Asked(a, d))' <=> Waiting(Asked(a, d))
      BY <1>0, <1>1, <2>3, ConnectFrame DEF Waiting
    <3>3. Pending(d)
      BY <1>0, <3>2, PendingIs, PendingIsNext
    <3> QED
      BY <2>1, <3>1, <3>3 DEF AloneInv
  <2> QED
    BY <2>2, <2>3
<1>2. ASSUME NEW rs \in SUBSET Request, Enqueue(rs),
             \A r \in rs : r.act \notin {"connection", "repeater", "emergencies"}
      PROVE  AloneInv'
  <2>1. UNCHANGED <<work, conn, clash>>
    BY <1>2 DEF Enqueue
  <2>2. \A d \in Client : Pending(d)' => Pending(d)
    BY <1>2 DEF Enqueue, Pending
  <2> QED
    BY <1>0, <2>1, <2>2 DEF AloneInv, Altering, Creating
<1>3. ASSUME NEW w \in Worker, NEW r \in queue, Take(w, r) PROVE AloneInv'
  <2> SUFFICES ASSUME NEW d \in conn' \ clash', NEW v \in Worker, Pending(d)'
               PROVE  ~Altering(v)' /\ (Creating(v)' => work'[v].req.x = d)
    BY DEF AloneInv
  <2>1. d \in conn \ clash /\ d \in Client
    BY <1>0, <1>3 DEF Take
  <2>2. \A q \in Request : Waiting(q)' <=> Waiting(q)
    BY <1>3, TakeFrame
  <2>3. \A a \in {"connection", "emergencies"} : Waiting(Asked(a, d))' => Waiting(Asked(a, d))
    <3> SUFFICES ASSUME NEW q \in Request PROVE Waiting(q)' => Waiting(q)
      BY <2>1, AskedType DEF Waiting
    <3> QED
      BY <2>2
  <2>4. Pending(d)
    BY <2>1, <2>3, PendingIs, PendingIsNext
  <2>5. r.act \notin {"alert", "cancel"}
    BY <1>3, <2>1, <2>4 DEF Take
  <2>6. CASE v = w
    <3>1. work'[v].req = r /\ work'[v].pc = FirstStep(r) /\ FirstStep(r) # "fill"
      BY <1>3, <2>6, TakeFrame DEF FirstStep
    <3> QED
      BY <2>5, <3>1 DEF Altering, Creating
  <2>7. CASE v # w
    <3>1. work'[v] = work[v]
      BY <1>3, <2>7, TakeFrame
    <3> QED
      BY <2>1, <2>4, <3>1 DEF AloneInv, Altering, Creating
  <2> QED
    BY <2>6, <2>7
<1>4. ASSUME NEW w \in Worker, WorkerStep(w) PROVE AloneInv'
  <2> SUFFICES ASSUME NEW d \in conn' \ clash', NEW v \in Worker, Pending(d)'
               PROVE  ~Altering(v)' /\ (Creating(v)' => work'[v].req.x = d)
    BY DEF AloneInv
  <2>1. d \in conn \ clash /\ d \in Client
    BY <1>0, <1>4, WorkerFrame
  <2>2. Pending(d)
    BY <1>4, <2>1, PendingStep
  <2>3. CASE v = w
    <3>1. Altering(w)' => Altering(w)
      BY <1>4, WorkerFrame DEF Altering, Idle
    <3>2. Creating(w)' => work'[w].req = work[w].req
      BY <1>4, WorkerFrame DEF Creating, Idle
    <3> QED
      BY <1>4, <2>1, <2>2, <2>3, <3>1, <3>2, CreatingStep DEF AloneInv
  <2>4. CASE v # w
    <3>1. work'[v] = work[v]
      BY <1>4, <2>4, WorkerFrame
    <3> QED
      BY <2>1, <2>2, <3>1 DEF AloneInv, Altering, Creating
  <2> QED
    BY <2>3, <2>4
<1>5. ASSUME NEW m \in outbox, BroadcastResponse(m) PROVE AloneInv'
  BY <1>5 DEF BroadcastResponse, AloneInv, Pending, Altering, Creating
<1>6. ASSUME Crash PROVE AloneInv'
  BY <1>6 DEF Crash, AloneInv
<1> QED
  BY <1>1, <1>2, <1>3, <1>4, <1>5, <1>6, OutsideFrame DEF Next

-----------------------------------------------------------------------------
(* A worker that goes to another step keeps the recipients and, unless it  *)
(* has loaded another dictionary, what it has in memory.                   *)
LEMMA KeptFields ==
    ASSUME TypeOK, NEW w \in Worker, work[w].pc # "idle", NEW p \in Step,
           NEW d \in SUBSET Uid
    PROVE  /\ Goto(w, p) => work'[w].rcpt = work[w].rcpt /\ work'[w].mem = work[w].mem
           /\ GotoWith(w, p, d) => work'[w].rcpt = work[w].rcpt /\ work'[w].mem = d
<1>1. work[w] \in Task /\ DOMAIN work = Worker
  BY TaskType DEF TypeOK
<1>2. DOMAIN work[w] = {"req", "pc", "mem", "rcpt"}
  BY <1>1 DEF Task
<1>3. Goto(w, p) => work'[w].rcpt = work[w].rcpt /\ work'[w].mem = work[w].mem
  BY <1>1, <1>2 DEF Goto
<1>4. GotoWith(w, p, d) => work'[w].rcpt = work[w].rcpt /\ work'[w].mem = d
  BY <1>1, <1>2 DEF GotoWith
<1> QED
  BY <1>3, <1>4

(* The step of a worker that handles an alert: it gives up only when it    *)
(* has raised or published, and the recipients are those it has looked up. *)
LEMMA AlertFrame ==
    ASSUME TypeOK, StepInv, NEW w \in Worker, WorkerStep(w), work[w].req.act = "alert"
    PROVE  /\ work'[w] = Idle =>
                 \/ work[w].req.x \in failed'
                 \/ /\ work[w].pc = "publish"
                    /\ [msgs |-> {work[w].req.x}, rcpt |-> work[w].rcpt,
                        to |-> work[w].req.to] \in outbox'
           /\ work'[w].pc \in Addressed =>
                 \/ work[w].pc \in Addressed /\ work'[w].rcpt = work[w].rcpt
                 \/ work'[w].rcpt = NearRecipients(work[w].req.x)
<1> USE DEF env, net, history
<1>1. /\ work[w].pc # "idle"
      /\ work[w].pc \in {"facade", "construct", "create", "fill", "parse", "save", "dump",
                         "publish"}
  BY WorkerFrame DEF StepInv, StepsOf
<1>2. \/ Construct(w) \/ Create(w) \/ Fill(w) \/ ParseEmergencyOn(w) \/ Save(w)
      \/ Dump(w) \/ Publish(w)
  BY <1>1 DEF WorkerStep, Register, LoadRepeated, ParseEmergencyOff, HandleDefaultCot,
       Sync, SendEmergenciesToClient, ConnectedUser
<1>3. /\ Idle.pc = "idle" /\ "idle" \notin Addressed
      /\ {"create", "construct", "parse", "save", "fill", "facade", "dump", "publish"}
             \subseteq Step
  BY DEF Idle, Addressed, Step
<1>4. ASSUME NEW p \in Step, NEW d \in SUBSET Uid, Goto(w, p) \/ GotoWith(w, p, d)
      PROVE  work'[w].pc = p /\ p # "idle" /\ work'[w].rcpt = work[w].rcpt
  <2>1. work'[w].pc = p /\ p # "idle"
    BY <1>4, OwnTask DEF Step
  <2>2. work'[w].rcpt = work[w].rcpt
    BY <1>1, <1>4, KeptFields
  <2> QED
    BY <2>1, <2>2
<1>5. file["emergencies"].dict \in SUBSET Uid
  BY DEF TypeOK, Store, File
<1>6. Raise(w) => work[w].req.x \in failed' /\ work'[w].pc = "idle"
  BY OwnTask DEF Raise
<1>7. CASE Construct(w)
  <2>1. \/ Goto(w, "create") \/ Raise(w)
        \/ /\ work[w].pc = "facade"
           /\ GotoWith(w, "parse", file["emergencies"].dict)
        \/ /\ work[w].pc = "construct"
           /\ GotoWith(w, "save", file["emergencies"].dict)
    BY <1>7 DEF Construct
  <2> QED
    BY <1>3, <1>4, <1>5, <1>6, <2>1 DEF Addressed
<1>8. CASE Create(w) \/ Fill(w)
  <2>1. StoreOf(work[w].req) = "emergencies"
    BY DEF StoreOf
  <2> QED
    BY <1>3, <1>4, <1>8, <2>1 DEF Create, Fill, Addressed
<1>9. CASE ParseEmergencyOn(w)
  <2>1. work[w] \in Task /\ DOMAIN work = Worker
    BY <1>1, TaskType DEF TypeOK
  <2>2. DOMAIN work[w] = {"req", "pc", "mem", "rcpt"}
    BY <2>1 DEF Task
  <2>3. /\ work'[w].pc = "construct"
        /\ work'[w].rcpt = NearRecipients(work[w].req.x)
    BY <1>9, <2>1, <2>2 DEF ParseEmergencyOn, Address
  <2> QED
    BY <1>3, <2>3
<1>10. CASE Save(w)
  <2>1. Changed(work[w].req, work[w].mem) \in SUBSET Uid
    BY <1>1, TaskType, ChangedType
  <2>2. Raise(w) \/ GotoWith(w, "dump", Changed(work[w].req, work[w].mem))
    BY <1>10 DEF Save
  <2>3. work[w].pc = "save"
    BY <1>10 DEF Save
  <2> QED
    BY <1>3, <1>4, <1>6, <2>1, <2>2, <2>3 DEF Addressed
<1>11. CASE Dump(w)
  <2>1. Goto(w, "publish") /\ work[w].pc = "dump"
    BY <1>11 DEF Dump
  <2> QED
    BY <1>3, <1>4, <2>1 DEF Addressed
<1>12. CASE Publish(w)
  <2>1. work'[w].pc = "idle"
    BY <1>12, OwnTask DEF Publish
  <2> QED
    BY <1>3, <1>12, <2>1 DEF Publish
<1> QED
  BY <1>2, <1>7, <1>8, <1>9, <1>10, <1>11, <1>12

(* The step of a worker that handles a client's request for the            *)
(* emergencies.                                                            *)
LEMMA AskFrame ==
    ASSUME TypeOK, StepInv, NEW w \in Worker, WorkerStep(w), NEW c \in Client,
           work[w].req = Asked("emergencies", c)
    PROVE  \/ work'[w].req = work[w].req /\ work'[w].pc \notin {"sync", "tell"}
           \/ /\ work'[w].req = work[w].req /\ work[w].pc = "construct"
              /\ Loads("emergencies") /\ work'[w].mem = file["emergencies"].dict
           \/ /\ work'[w].req = work[w].req /\ work[w].pc = "sync"
              /\ work'[w].mem = work[w].mem
           \/ /\ work[w].pc = "tell"
              /\ LET msgs == {e \in work[w].mem : everywhere \/ c \in Reach[e]}
                 IN  msgs # {} => [msgs |-> msgs, rcpt |-> {c}, to |-> Svc] \in outbox'
           \/ /\ work[w].pc \in {"facade", "construct"} /\ ~Loads("emergencies")
              /\ file["emergencies"].st # "absent"
           \/ work[w].pc = "sync" /\ ~Loads("emergencies")
<1> USE DEF env, net, history
<1>1. work[w].req.act = "emergencies" /\ work[w].req.x = c
  BY DEF Asked
<1>2. /\ work[w].pc # "idle"
      /\ work[w].pc \in {"facade", "construct", "create", "fill", "sync", "tell"}
  BY <1>1, WorkerFrame DEF StepInv, StepsOf
<1>3. Construct(w) \/ Create(w) \/ Fill(w) \/ Sync(w) \/ SendEmergenciesToClient(w)
  BY <1>1, <1>2 DEF WorkerStep, Register, LoadRepeated, ParseEmergencyOn,
       ParseEmergencyOff, HandleDefaultCot, Save, Dump, Publish, ConnectedUser
<1>4. {"create", "construct", "sync", "tell", "fill", "facade"} \subseteq Step
  BY DEF Step
<1>5. file["emergencies"].dict \in SUBSET Uid
  BY DEF TypeOK, Store, File
<1>6. ASSUME NEW p \in Step, NEW d \in SUBSET Uid, Goto(w, p) \/ GotoWith(w, p, d)
      PROVE  /\ work'[w].pc = p /\ work'[w].req = work[w].req
             /\ Goto(w, p) => work'[w].mem = work[w].mem
             /\ GotoWith(w, p, d) => work'[w].mem = d
  <2>1. Goto(w, p) => /\ work'[w].pc = p /\ work'[w].req = work[w].req
                      /\ work'[w].mem = work[w].mem
    BY <1>2, OwnTask, KeptFields
  <2>2. GotoWith(w, p, d) => /\ work'[w].pc = p /\ work'[w].req = work[w].req
                             /\ work'[w].mem = d
    BY OwnTask
  <2> QED
    BY <1>6, <2>1, <2>2
<1>7. CASE Construct(w)
  <2>1. \/ Goto(w, "create")
        \/ /\ work[w].pc = "facade"
           /\ GotoWith(w, "construct", file["emergencies"].dict)
        \/ /\ work[w].pc = "construct" /\ Loads("emergencies")
           /\ GotoWith(w, "sync", file["emergencies"].dict)
        \/ /\ work[w].pc \in {"facade", "construct"} /\ ~Loads("emergencies")
           /\ file["emergencies"].st # "absent"
    BY <1>1, <1>7 DEF Construct
  <2> QED
    BY <1>4, <1>5, <1>6, <2>1
<1>8. CASE Create(w) \/ Fill(w)
  <2>1. StoreOf(work[w].req) = "emergencies"
    BY <1>1 DEF StoreOf
  <2> QED
    BY <1>4, <1>6, <1>8, <2>1 DEF Create, Fill
<1>9. CASE Sync(w)
  BY <1>4, <1>6, <1>9 DEF Sync
<1>10. CASE SendEmergenciesToClient(w)
  BY <1>1, <1>10 DEF SendEmergenciesToClient
<1> QED
  BY <1>3, <1>7, <1>8, <1>9, <1>10

(* Only the end of an alert's request adds to what the file should hold.   *)
LEMMA MadeStep ==
    ASSUME TypeOK, StepInv, NEW w \in Worker, WorkerStep(w), NEW e \in Uid,
           e \in made'["emergencies"]
    PROVE  e \in made["emergencies"] \/ AlertOf(work[w].req, e)
<1> USE DEF env, net, history
<1>1. CASE Dump(w)
  <2>1. /\ work[w].pc # "idle" /\ StoreOf(work[w].req) \in Store
        /\ "emergencies" \in Store /\ work[w].req \in Request
    BY <1>1, TaskType DEF Dump, Store
  <2>2. CASE StoreOf(work[w].req) = "emergencies"
    <3>1. made'["emergencies"] = Changed(work[w].req, made["emergencies"])
      BY <1>1, <2>1, <2>2 DEF Dump, TypeOK
    <3>2. work[w].req.act # "repeat"
      BY <2>2 DEF StoreOf
    <3> QED
      BY <3>1, <3>2 DEF Changed, AlertOf
  <2>3. CASE StoreOf(work[w].req) # "emergencies"
    <3>1. made'["emergencies"] = made["emergencies"]
      BY <1>1, <2>1, <2>3 DEF Dump, TypeOK
    <3> QED
      BY <3>1
  <2> QED
    BY <2>2, <2>3
<1>2. CASE ~Dump(w)
  <2>1. UNCHANGED made
    BY <1>2 DEF WorkerStep, Register, Construct, LoadRepeated, Create, Fill,
         ParseEmergencyOn, ParseEmergencyOff, HandleDefaultCot, Address, Sync, Save,
         Publish, SendEmergenciesToClient, ConnectedUser
  <2> QED
    BY <2>1
<1> QED
  BY <1>1, <1>2

(* A client without a clash that asks for the emergencies finds the file   *)
(* as it should be, or not there.                                          *)
LEMMA FileReady ==
    ASSUME TypeOK, StepInv, WriterInv, ClientInv, AloneInv, "emergencies" \notin spoiled,
           NEW c \in conn \ clash, NEW w \in Worker,
           work[w].req = Asked("emergencies", c),
           work[w].pc \in {"facade", "construct", "sync"}
    PROVE  LET f == file["emergencies"] m == made["emergencies"]
           IN  (f = Data(m) /\ Loads("emergencies")) \/ (f = Absent /\ m = {})
<1>1. c \in Client /\ "emergencies" \in Store
  BY DEF TypeOK, Store
<1>2. Pending(c)
  BY <1>1, PendingIs DEF Waiting
<1>3. ASSUME NEW v \in Worker, Writing(v, "emergencies") PROVE FALSE
  <2>1. work[v].pc \in {"fill", "dump"} /\ StoreOf(work[v].req) = "emergencies"
    BY <1>3 DEF Writing
  <2>2. work[v].req \in Request /\ work[v].pc \in StepsOf(work[v].req.act)
    BY <2>1, TaskType DEF StepInv
  <2>3. work[v].req.act \in {"alert", "cancel", "emergencies"}
    BY <2>1 DEF StoreOf
  <2>4. CASE work[v].req.act \in {"alert", "cancel"}
    BY <1>2, <2>1, <2>4 DEF AloneInv, Altering
  <2>5. CASE work[v].req.act = "emergencies"
    <3>1. work[v].pc = "fill"
      BY <2>1, <2>2, <2>5 DEF StepsOf
    <3>2. work[v].req.x = c
      BY <1>2, <2>5, <3>1 DEF AloneInv, Creating
    <3>3. work[v].req = Asked("emergencies", c)
      BY <1>1, <2>2, <2>5, <3>2, AskedType
    <3>4. v = w
      BY <1>1, <3>3 DEF ClientInv
    <3> QED
      BY <3>1, <3>4
  <2> QED
    BY <2>3, <2>4, <2>5
<1>4. \/ file["emergencies"] = Data(made["emergencies"])
      \/ file["emergencies"] = Absent /\ made["emergencies"] = {}
  BY <1>1, <1>3 DEF WriterInv
<1>5. file["emergencies"] = Data(made["emergencies"]) => Loads("emergencies")
  BY DEF Data, Loads
<1> QED
  BY <1>4, <1>5

(* A client to which an alert is on its way, or has come, stays so when a  *)
(* worker takes a step.                                                    *)
LEMMA ToldStep ==
    ASSUME TypeOK, StepInv, ClientInv, AloneInv, NEW w \in Worker, WorkerStep(w),
           NEW c \in conn \ clash, NEW e \in Uid, e \notin failed', Near(c, e), Told(c, e)
    PROVE  Told(c, e)'
<1>0. c \in Client
  BY DEF TypeOK
<1>1. CASE e \in got[c]
  BY <1>1, WorkerFrame DEF Told
<1>2. CASE \E m \in outbox :
               e \in m.msgs /\ Home[c] \in m.to /\ (m.rcpt = {} \/ c \in m.rcpt)
  BY <1>2, WorkerFrame DEF Told
<1>3. CASE \E r \in queue : AlertOf(r, e) /\ Home[c] \in r.to
  <2>1. queue' = queue
    BY WorkerFrame
  <2> QED
    BY <1>3, <2>1 DEF Told, AlertOf
<1>4. ASSUME NEW v \in Worker, work[v].pc # "idle", AlertOf(work[v].req, e),
             Home[c] \in work[v].req.to,
             work[v].pc \in Addressed => work[v].rcpt = {} \/ c \in work[v].rcpt
      PROVE  Told(c, e)'
  <2>1. CASE v # w
    <3>1. work'[v] = work[v]
      BY <2>1, WorkerFrame
    <3> QED
      BY <1>4, <3>1 DEF Told, AlertOf
  <2>2. CASE v = w
    <3>1. work[w].req.act = "alert" /\ work[w].req.x = e
      BY <1>4, <2>2 DEF AlertOf
    <3>2. c \in iam
      <4>1. ~Pending(c)
        BY <1>4, <2>2, <3>1 DEF AloneInv, Altering
      <4> QED
        BY <1>0, <4>1, PendingIs DEF ClientInv
    <3>3. c \in NearRecipients(e)
      BY <3>2 DEF NearRecipients, Near
    <3>4. CASE work'[w] = Idle
      <4> DEFINE m == [msgs |-> {e}, rcpt |-> work[w].rcpt, to |-> work[w].req.to]
      <4>1. work[w].pc = "publish" /\ m \in outbox'
        BY <3>1, <3>4, AlertFrame
      <4>2. e \in m.msgs /\ Home[c] \in m.to /\ (m.rcpt = {} \/ c \in m.rcpt)
        BY <1>4, <2>2, <4>1 DEF Addressed
      <4> QED
        BY <4>1, <4>2 DEF Told
    <3>5. CASE work'[w].req = work[w].req /\ work'[w].pc # "idle"
      <4>1. work'[w].pc \in Addressed => work'[w].rcpt = {} \/ c \in work'[w].rcpt
        BY <1>4, <2>2, <3>1, <3>3, AlertFrame
      <4>2. AlertOf(work'[w].req, e) /\ Home[c] \in work'[w].req.to
        BY <1>4, <2>2, <3>5
      <4> QED
        BY <3>5, <4>1, <4>2 DEF Told, AlertOf
    <3> QED
      BY <3>4, <3>5, WorkerFrame
  <2> QED
    BY <2>1, <2>2
<1> QED
  BY <1>1, <1>2, <1>3, <1>4 DEF Told

(* A client that asks for the emergencies goes on asking or is told.       *)
LEMMA AskingStep ==
    ASSUME TypeOK, StepInv, WriterInv, ClientInv, AloneInv, "emergencies" \notin spoiled,
           NEW w \in Worker, WorkerStep(w), NEW c \in conn \ clash,
           NEW e \in made["emergencies"], Near(c, e), Asking(c, e)
    PROVE  Asking(c, e)' \/ Told(c, e)'
<1>0. c \in Client
  BY DEF TypeOK
<1>1. CASE Asked("emergencies", c) \in queue
  BY <1>1, WorkerFrame DEF Asking
<1>2. ASSUME NEW v \in Worker, work[v].req = Asked("emergencies", c),
             work[v].pc \in {"sync", "tell"} => e \in work[v].mem
      PROVE  Asking(c, e)' \/ Told(c, e)'
  <2>1. CASE v # w
    <3>1. work'[v] = work[v]
      BY <2>1, WorkerFrame
    <3> QED
      BY <1>2, <3>1 DEF Asking
  <2>2. CASE v = w
    <3>0. work[w].req = Asked("emergencies", c)
      BY <1>2, <2>2
    <3>1. work[w].pc \in {"facade", "construct", "sync"} =>
              /\ Loads("emergencies") /\ file["emergencies"].dict = made["emergencies"]
      BY <3>0, FileReady DEF Data
    <3>2. CASE /\ work'[w].req = work[w].req
               /\ work'[w].pc \in {"sync", "tell"} => e \in work'[w].mem
      BY <3>0, <3>2 DEF Asking
    <3>3. CASE work[w].pc = "tell"
      <4> DEFINE msgs == {x \in work[w].mem : everywhere \/ c \in Reach[x]}
                 m == [msgs |-> msgs, rcpt |-> {c}, to |-> Svc]
      <4>1. e \in msgs
        BY <1>2, <2>2, <3>3 DEF Near
      <4>2. CASE m \in outbox'
        <5>1. e \in m.msgs /\ Home[c] \in m.to /\ c \in m.rcpt
          BY <1>0, <4>1, StandingAssumption
        <5> HIDE DEF m
        <5> QED
          BY <4>2, <5>1 DEF Told
      <4>3. CASE work'[w].req = work[w].req /\ work'[w].pc \notin {"sync", "tell"}
        BY <3>2, <4>3
      <4> QED
        BY <1>0, <3>0, <3>3, <4>1, <4>2, <4>3, AskFrame
    <3> QED
      BY <1>0, <1>2, <2>2, <3>0, <3>1, <3>2, <3>3, AskFrame
  <2> QED
    BY <2>1, <2>2
<1> QED
  BY <1>1, <1>2 DEF Asking

(* Every step keeps the promise that near clients are told.                *)
LEMMA TellStep ==
    ASSUME TypeOK, TypeOK', StepInv, WriterInv, ClientInv, AloneInv, TellInv, Next
    PROVE  TellInv'
<1> USE DEF env, net, history
<1>0. conn \subseteq Client /\ conn' \subseteq Client
  BY DEF TypeOK
<1> DEFINE Listed(e) == "emergencies" \notin spoiled /\ e \in made["emergencies"]
<1> SUFFICES ASSUME NEW c \in conn' \ clash', NEW e \in Uid \ failed', Near(c, e)'
             PROVE  /\ UnderWay(e)' => Told(c, e)'
                    /\ Listed(e)' => Told(c, e)' \/ Asking(c, e)'
  BY DEF TellInv
<1>1. ASSUME NEW d \in Client, Connect(d)
      PROVE  /\ UnderWay(e)' => Told(c, e)'
             /\ Listed(e)' => Told(c, e)' \/ Asking(c, e)'
  <2>1. UnderWay(e)' => UnderWay(e)
    BY <1>1, ConnectFrame DEF UnderWay, AlertOf
  <2>2. (Listed(e)' <=> Listed(e)) /\ (Near(c, e)' <=> Near(c, e)) /\ e \notin failed
    BY <1>1, ConnectFrame DEF Near
  <2>3. CASE c = d
    <3>1. ~Changing
      BY <1>1, <2>3, ConnectFrame
    <3>2. Asking(c, e)'
      BY <1>1, <2>3, ConnectFrame DEF Asking
    <3>3. ASSUME UnderWay(e) PROVE Told(c, e)'
      <4>1. PICK r \in queue : AlertOf(r, e)
        BY <3>1, <3>3 DEF UnderWay, Changing, AlertOf
      <4>2. r.to = Svc
        BY <3>1, <4>1 DEF Changing, AlertOf
      <4>3. Home[c] \in r.to
        BY <1>0, <4>2, StandingAssumption
      <4>4. r \in queue'
        BY <1>1, ConnectFrame
      <4> QED
        BY <4>1, <4>3, <4>4 DEF Told, AlertOf
    <3> QED
      BY <2>1, <3>2, <3>3
  <2>4. CASE c # d
    <3>1. c \in conn \ clash
      BY <1>1, <2>4, ConnectFrame
    <3>2. Told(c, e) => Told(c, e)'
      <4>1. queue \subseteq queue' /\ UNCHANGED <<work, outbox, got>>
        BY <1>1, ConnectFrame
      <4> QED
        BY <4>1 DEF Told, AlertOf
    <3>3. Asking(c, e) => Asking(c, e)'
      <4>1. queue \subseteq queue' /\ UNCHANGED work
        BY <1>1, ConnectFrame
      <4> QED
        BY <4>1 DEF Asking
    <3> QED
      BY <2>1, <2>2, <3>1, <3>2, <3>3 DEF TellInv
  <2> QED
    BY <2>3, <2>4
<1>2. ASSUME NEW rs \in SUBSET Request, Enqueue(rs),
             \A r \in rs, s \in Svc : r.act = "alert" =>
                 \E q \in rs : AlertOf(q, r.x) /\ s \in q.to
      PROVE  /\ UnderWay(e)' => Told(c, e)'
             /\ Listed(e)' => Told(c, e)' \/ Asking(c, e)'
  <2>1. /\ queue' = queue \cup rs
        /\ UNCHANGED <<work, outbox, got, conn, clash, failed, made, spoiled, everywhere>>
    BY <1>2 DEF Enqueue
  <2>2. Told(c, e) => Told(c, e)'
    BY <2>1 DEF Told, AlertOf
  <2>3. Asking(c, e) => Asking(c, e)'
    BY <2>1 DEF Asking
  <2>4. Near(c, e) /\ c \in conn \ clash /\ e \notin failed
    BY <2>1 DEF Near
  <2>5. UnderWay(e)' => UnderWay(e) \/ \E r \in rs : AlertOf(r, e)
    BY <2>1 DEF UnderWay, AlertOf
  <2>6. ASSUME NEW r \in rs, AlertOf(r, e) PROVE Told(c, e)'
    <3>1. Home[c] \in Svc
      BY <1>0, StandingAssumption
    <3>2. PICK q \in rs : AlertOf(q, e) /\ Home[c] \in q.to
      BY <1>2, <2>6, <3>1 DEF AlertOf
    <3> QED
      BY <2>1, <3>2 DEF Told, AlertOf
  <2> QED
    BY <2>1, <2>2, <2>3, <2>4, <2>5, <2>6 DEF TellInv
<1>3. ASSUME NEW w \in Worker, NEW r \in queue, Take(w, r)
      PROVE  /\ UnderWay(e)' => Told(c, e)'
             /\ Listed(e)' => Told(c, e)' \/ Asking(c, e)'
  <2>1. /\ UNCHANGED <<outbox, got, conn, failed, made, spoiled, everywhere>>
        /\ clash \subseteq clash'
    BY <1>3 DEF Take
  <2>2. Near(c, e) /\ c \in conn \ clash /\ e \notin failed /\ c \in Client
    BY <1>0, <2>1 DEF Near
  <2>3. /\ work[w] = Idle /\ work'[w].req = r /\ work'[w].pc = FirstStep(r)
        /\ work'[w].pc # "idle"
        /\ \A v \in Worker \ {w} : work'[v] = work[v]
        /\ queue' = queue \ {r}
    BY <1>3, TakeFrame
  <2>4. UnderWay(e)' => UnderWay(e)
    BY <2>3 DEF UnderWay, AlertOf
  <2>5. ASSUME Told(c, e) PROVE Told(c, e)'
    <3>1. CASE e \in got[c] \/ \E m \in outbox :
               e \in m.msgs /\ Home[c] \in m.to /\ (m.rcpt = {} \/ c \in m.rcpt)
      BY <2>1, <3>1 DEF Told
    <3>2. ASSUME NEW q \in queue, AlertOf(q, e) /\ Home[c] \in q.to PROVE Told(c, e)'
      <4>1. CASE q # r
        BY <2>3, <3>2, <4>1 DEF Told, AlertOf
      <4>2. CASE q = r
        <5>1. work'[w].pc \notin Addressed
          BY <2>3, <3>2, <4>2 DEF FirstStep, AlertOf, Addressed
        <5>2. AlertOf(work'[w].req, e) /\ Home[c] \in work'[w].req.to
          BY <2>3, <3>2, <4>2
        <5> QED
          BY <2>3, <5>1, <5>2 DEF Told, AlertOf
      <4> QED
        BY <4>1, <4>2
    <3>3. ASSUME NEW v \in Worker, work[v].pc # "idle", AlertOf(work[v].req, e),
                 Home[c] \in work[v].req.to,
                 work[v].pc \in Addressed => work[v].rcpt = {} \/ c \in work[v].rcpt
          PROVE  Told(c, e)'
      <4>1. work'[v] = work[v]
        BY <2>3, <3>3 DEF Idle
      <4> QED
        BY <3>3, <4>1 DEF Told, AlertOf
    <3> QED
      BY <2>5, <3>1, <3>2, <3>3 DEF Told
  <2>6. ASSUME Asking(c, e) PROVE Asking(c, e)'
    <3>1. CASE Asked("emergencies", c) \in queue
      <4>1. CASE Asked("emergencies", c) = r
        <5>1. r.act = "emergencies"
          BY <2>2, <4>1, AskedType
        <5>2. work'[w].pc \notin {"sync", "tell"}
          BY <2>3, <5>1 DEF FirstStep
        <5> QED
          BY <2>3, <4>1, <5>2 DEF Asking
      <4>2. CASE Asked("emergencies", c) # r
        BY <2>3, <3>1, <4>2 DEF Asking
      <4> QED
        BY <4>1, <4>2
    <3>2. ASSUME NEW v \in Worker, work[v].req = Asked("emergencies", c),
                 work[v].pc \in {"sync", "tell"} => e \in work[v].mem
          PROVE  Asking(c, e)'
      <4>1. v # w
        BY <2>2, <2>3, <3>2, AskedType
      <4>2. work'[v] = work[v]
        BY <2>3, <4>1
      <4> QED
        BY <3>2, <4>2 DEF Asking
    <3> QED
      BY <2>6, <3>1, <3>2 DEF Asking
  <2> QED
    BY <2>1, <2>2, <2>4, <2>5, <2>6 DEF TellInv
<1>4. ASSUME NEW w \in Worker, WorkerStep(w)
      PROVE  /\ UnderWay(e)' => Told(c, e)'
             /\ Listed(e)' => Told(c, e)' \/ Asking(c, e)'
  <2>1. /\ c \in conn \ clash /\ e \notin failed /\ Near(c, e)
        /\ spoiled \subseteq spoiled' /\ work[w].pc # "idle"
    BY <1>4, WorkerFrame DEF Near
  <2>2. UnderWay(e)' => UnderWay(e)
    <3>1. \A v \in Worker : work'[v].pc # "idle" =>
              work[v].pc # "idle" /\ work'[v].req = work[v].req
      BY <1>4, WorkerFrame DEF Idle
    <3>2. queue' = queue
      BY <1>4, WorkerFrame
    <3> QED
      BY <3>1, <3>2 DEF UnderWay, AlertOf
  <2>3. Told(c, e) => Told(c, e)'
    BY <1>4, <2>1, ToldStep
  <2>4. UnderWay(e) => Told(c, e)
    BY <2>1 DEF TellInv
  <2>5. ASSUME Listed(e)' PROVE Told(c, e)' \/ Asking(c, e)'
    <3>1. "emergencies" \notin spoiled
      BY <2>1, <2>5
    <3>2. CASE e \in made["emergencies"]
      <4>1. Told(c, e) \/ Asking(c, e)
        BY <2>1, <3>1, <3>2 DEF TellInv
      <4> QED
        BY <1>4, <2>1, <2>3, <3>1, <3>2, <4>1, AskingStep
    <3>3. CASE e \notin made["emergencies"]
      <4>1. AlertOf(work[w].req, e)
        BY <1>4, <2>5, <3>3, MadeStep
      <4>2. UnderWay(e)
        BY <2>1, <4>1 DEF UnderWay
      <4> QED
        BY <2>3, <2>4, <4>2
    <3> QED
      BY <3>2, <3>3
  <2> QED
    BY <2>2, <2>3, <2>4, <2>5
<1>5. ASSUME NEW m \in outbox, BroadcastResponse(m)
      PROVE  /\ UnderWay(e)' => Told(c, e)'
             /\ Listed(e)' => Told(c, e)' \/ Asking(c, e)'
  <2>1. /\ UNCHANGED <<queue, work, conn, clash, failed, made, spoiled, everywhere>>
        /\ outbox' = outbox \ {m}
        /\ \A d \in Client : got'[d] = IF d \in Addressees(m) THEN got[d] \cup m.msgs
                                       ELSE got[d]
    BY <1>5 DEF BroadcastResponse
  <2>2. c \in conn \ clash /\ e \notin failed /\ Near(c, e) /\ c \in Client
    BY <1>0, <2>1 DEF Near
  <2>3. ASSUME Told(c, e) PROVE Told(c, e)'
    <3>1. CASE e \in got[c]
      BY <2>1, <2>2, <3>1 DEF Told
    <3>2. ASSUME NEW n \in outbox, e \in n.msgs, Home[c] \in n.to, n.rcpt = {} \/ c \in n.rcpt
          PROVE  Told(c, e)'
      <4>1. CASE n = m
        <5>1. c \in Addressees(m)
          BY <2>2, <3>2, <4>1 DEF Addressees
        <5> QED
          BY <2>1, <2>2, <3>2, <4>1, <5>1 DEF Told
      <4>2. CASE n # m
        BY <2>1, <3>2, <4>2 DEF Told
      <4> QED
        BY <4>1, <4>2
    <3>3. CASE \/ \E r \in queue : AlertOf(r, e) /\ Home[c] \in r.to
               \/ \E w \in Worker :
                    /\ work[w].pc # "idle" /\ AlertOf(work[w].req, e)
                    /\ Home[c] \in work[w].req.to
                    /\ work[w].pc \in Addressed => work[w].rcpt = {} \/ c \in work[w].rcpt
      BY <2>1, <3>3 DEF Told, AlertOf
    <3> QED
      BY <2>3, <3>1, <3>2, <3>3 DEF Told
  <2>4. Asking(c, e) => Asking(c, e)'
    BY <2>1 DEF Asking
  <2>5. UnderWay(e)' => UnderWay(e)
    BY <2>1 DEF UnderWay, AlertOf
  <2> QED
    BY <2>1, <2>2, <2>3, <2>4, <2>5 DEF TellInv
<1>6. ~Crash
  BY DEF Crash
<1> QED
  BY <1>1, <1>2, <1>3, <1>4, <1>5, <1>6, OutsideFrame DEF Next

-----------------------------------------------------------------------------
(* Clients are served, or are going to be, in every state.                 *)
THEOREM ServedInductive == Spec => []ServedInv
<1>1. Init => ServedInv
  <2> SUFFICES ASSUME Init PROVE ServedInv
    OBVIOUS
  <2>1. conn = {} /\ queue = {} /\ \A w \in Worker : work[w] = Idle
    BY DEF Init
  <2>2. \A c \in Client : ~Waiting(Asked("emergencies", c))
    BY <2>1, AskedType DEF Waiting
  <2>3. ClientInv
    BY <2>1, <2>2 DEF ClientInv, Waiting
  <2>4. AloneInv /\ TellInv
    BY <2>1 DEF AloneInv, TellInv
  <2> QED
    BY <2>3, <2>4 DEF ServedInv
<1>2. IInv /\ IInv' /\ ServedInv /\ [Next]_vars => ServedInv'
  <2> SUFFICES ASSUME IInv, IInv', ServedInv, [Next]_vars PROVE ServedInv'
    OBVIOUS
  <2>1. CASE Next
    BY <2>1, ClientStep, AloneStep, TellStep DEF IInv, ServedInv
  <2>2. CASE UNCHANGED vars
    <3> USE <2>2 DEF vars, env, net, history
    <3>1. ClientInv => ClientInv'
      BY DEF ClientInv, Waiting
    <3>2. AloneInv => AloneInv'
      BY DEF AloneInv, Pending, Altering, Creating
    <3>3. TellInv => TellInv'
      <4>1. \A e : UnderWay(e)' => UnderWay(e)
        BY DEF UnderWay, AlertOf
      <4>2. \A c, e : (Near(c, e)' => Near(c, e)) /\ (Told(c, e) => Told(c, e)')
        BY DEF Near, Told, AlertOf
      <4>3. \A c, e : Asking(c, e) => Asking(c, e)'
        BY DEF Asking
      <4> QED
        BY <4>1, <4>2, <4>3 DEF TellInv
    <3> QED
      BY <3>1, <3>2, <3>3 DEF ServedInv
  <2> QED
    BY <2>1, <2>2
<1> QED
  BY <1>1, <1>2, Inductive, PTL DEF Spec

(* When nothing is left to be handled, every connected client has its      *)
(* answer from the repeater, and knows the emergencies near it: for any    *)
(* number of workers, services, clients, alerts, deletions and crashes.    *)
THEOREM Served == Spec => []ConnectedIsServed
<1>1. IInv /\ ServedInv => ConnectedIsServed
  <2> SUFFICES ASSUME IInv, ServedInv, Quiet PROVE
          /\ conn \subseteq answered
          /\ "emergencies" \notin spoiled =>
                \A c \in conn \ clash, e \in file["emergencies"].dict \ failed :
                    everywhere \/ c \in Reach[e] => e \in got[c]
    BY DEF ConnectedIsServed
  <2>0. conn \subseteq Client /\ "emergencies" \in Store /\ TypeOK
    BY DEF IInv, TypeOK, Store
  <2>1. \A r \in Request : ~Waiting(r)
    BY <2>0, WorkKinds DEF Quiet, Waiting
  <2>2. conn \subseteq answered
    BY <2>0, <2>1, AskedType DEF ServedInv, ClientInv
  <2>3. ASSUME "emergencies" \notin spoiled, NEW c \in conn \ clash,
               NEW e \in file["emergencies"].dict \ failed, everywhere \/ c \in Reach[e]
        PROVE  e \in got[c]
    <3>1. \A w \in Worker : ~Writing(w, "emergencies")
      BY DEF Quiet, Writing
    <3>2. \/ file["emergencies"] = Data(made["emergencies"])
          \/ file["emergencies"] = Absent /\ made["emergencies"] = {}
      BY <2>0, <2>3, <3>1 DEF IInv, WriterInv
    <3>3. e \in made["emergencies"]
      BY <3>2 DEF Data, Absent
    <3>4. e \in Uid \ failed
      BY <2>0, <3>3 DEF TypeOK
    <3>5. Told(c, e) \/ Asking(c, e)
      BY <2>3, <3>3, <3>4 DEF ServedInv, TellInv, Near
    <3>6. ~Asking(c, e)
      BY <2>0, <2>1, AskedType DEF Asking, Waiting
    <3> QED
      BY <3>5, <3>6 DEF Told, Quiet
  <2> QED
    BY <2>2, <2>3
<1> QED
  BY <1>1, Inductive, ServedInductive, PTL
=============================================================================
