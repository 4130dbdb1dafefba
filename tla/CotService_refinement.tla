----------------------- MODULE CotService_refinement -----------------------
(***************************************************************************)
(* The CoT service implements Sessions.  The inductive invariant IInv says *)
(* which socket a listen job, the queue and the controller hold, BatchInv  *)
(* that what lies on the data pipe was read from a connection that is or   *)
(* was registered.                                                         *)
(***************************************************************************)
EXTENDS CotService_proofs

-----------------------------------------------------------------------------
Served == {s \in Sock : handled[s] # <<>>}
mapped == <<queue, ConnState, Served>>

(* A step that only changes sockets outside the queue, and closes but does *)
(* not reopen them, refuses the ones it closes.                            *)
LEMMA RefuseStep ==
    ASSUME UNCHANGED <<queue, handled>>,
           \A s \in Sock \ Live : srv[s] = "closed" => srv'[s] = "closed"
    PROVE  Abs!Refuse
<1>1. Live' = Live /\ Served' = Served
  BY DEF Live, Registered, Served
<1>2. ConnState' \in [Sock -> Abs!Status]
  BY DEF ConnState, Abs!Status
<1>3. ASSUME NEW s \in Sock PROVE Abs!Kept(s)
  BY <1>1 DEF Abs!Kept, ConnState
<1> QED
  BY <1>1, <1>2, <1>3 DEF Abs!Refuse, Served

(* A sequence that something was appended to is not empty.                 *)
LEMMA AppendNotEmpty ==
    ASSUME NEW T, NEW q \in Seq(T), NEW e \in T
    PROVE  Append(q, e) # <<>>
<1>1. Len(Append(q, e)) = Len(q) + 1 /\ Len(q) \in Nat
  OBVIOUS
<1> QED
  BY <1>1

(* Every step of the service is a step of Sessions or leaves it unchanged. *)
LEMMA RefinementStep == RInv /\ [Next]_vars => [Abs!Next]_mapped
<1> SUFFICES ASSUME IInv, BatchInv, [Next]_vars PROVE Abs!Next
  BY DEF RInv
<1> USE SockTypes DEF SockType, netVars, posVars, lstVars, rxVars, regVars, coreVars, shareVars
<1>0. ListenInv /\ RegisteredIsLive
  BY DEF IInv
<1>1. CASE Quiet
  <2>1. UNCHANGED <<queue, handled, srv>>
    BY <1>1 DEF Quiet, Arrive, Leave, ShareFromOther, RestartReceive, Reception, StartPass,
       VisitIdle, VisitEvents, VisitFragment, VisitGone, Visit, PassReturns,
       PollConnectionTimeout, PollDataTimeout, PollData, AskCore, ResubmitPass, TakeShared,
       SendShared, ShareDone, BroadcastComponentResponses, CoreAnswer, vars
  <2> QED
    BY <2>1, RefuseStep DEF Abs!Next
<1>2. CASE \E x \in Sock, u \in Uid \cup {NoUid} : Connect(x, u)
  <2>1. /\ UNCHANGED <<queue, handled>>
        /\ \A s \in Sock : srv[s] = "closed" => srv'[s] = "closed"
    BY <1>2 DEF Connect, IInv, NetInv
  <2> QED
    BY <2>1, RefuseStep DEF Abs!Next
<1>3. CASE Listener
  <2>1. /\ UNCHANGED <<queue, handled>>
        /\ \A s \in Sock : srv[s] = "closed" => srv'[s] = "closed"
    BY <1>3 DEF Listener, StartListen, Accept, AcceptTimeout, ReadConnectionData,
       ReadConnectionFails
  <2> QED
    BY <2>1, RefuseStep DEF Abs!Next
<1>4. CASE \E i \in Slot : ResetListen(i)
  <2>1. /\ UNCHANGED <<queue, handled>>
        /\ \A s \in Sock : srv[s] = "closed" => srv'[s] = "closed"
    BY <1>4 DEF ResetListen
  <2> QED
    BY <2>1, RefuseStep DEF Abs!Next
<1>5. CASE PollConnection
  <2> DEFINE s == lsock[cur]
             u == owner[s]
  <2>1. CASE s = NoSock \/ u = NoUid
    <3>1. /\ UNCHANGED <<queue, handled>>
          /\ \A x \in Sock : srv[x] = "closed" => srv'[x] = "closed"
      BY <1>5, <2>1 DEF PollConnection, HandleConnection
    <3> QED
      BY <3>1, RefuseStep DEF Abs!Next
  <2>2. CASE s # NoSock /\ u # NoUid
    <3>1. s \in Sock /\ u \in Uid /\ s \notin Live /\ srv[s] = "open" /\ s # lastSock
      BY <1>0, <2>2 DEF ListenInv, Live, Registered
    <3>2. /\ queue' = [queue EXCEPT ![u] = s] /\ handled' = handled
          /\ \A x \in Sock : srv'[x] = IF x \in ({lastSock} \ Live) \cup {queue[u]}
                                      THEN "closed" ELSE srv[x]
      BY <1>5, <2>2 DEF PollConnection, HandleConnection
    <3> HIDE DEF s, u
    <3>3. \A v \in Uid : v # u /\ queue[v] # NoSock => queue[v] # queue[u]
      BY <1>0, <3>1 DEF RegisteredIsLive, Registered
    <3>4. \A x \in Sock : x \in Live' <=> x = s \/ (x \in Live /\ x # queue[u])
      BY <3>1, <3>2, <3>3 DEF Live, Registered
    <3>5. ConnState[s] = "new" /\ ConnState'[s] = "live"
      BY <3>1, <3>4 DEF ConnState
    <3>6. ASSUME NEW x \in Sock \ {s}
          PROVE  IF x = queue[u] THEN ConnState'[x] = "over" ELSE Abs!Kept(x)
      BY <3>1, <3>2, <3>4 DEF ConnState, Abs!Kept
    <3>7. ConnState' \in [Sock -> Abs!Status]
      BY DEF ConnState, Abs!Status
    <3>8. Abs!Begin(u, s)
      BY <3>2, <3>5, <3>6, <3>7 DEF Abs!Begin
    <3> QED
      BY <3>1, <3>8 DEF Abs!Next
  <2> QED
    BY <2>1, <2>2
<1>6. CASE HandleItem
  <2> DEFINE item == Head(batch)
  <2>1. item \in Item /\ Known(item.sock)
    <3>1. item \in Item /\ batch \in Seq(Item) /\ batch # <<>>
      BY <1>6, HeadIsItem DEF HandleItem, IInv, TypeOK
    <3>2. 1 \in DOMAIN batch /\ item = batch[1]
      BY <3>1
    <3> QED
      BY <3>1, <3>2 DEF BatchInv
  <2>2. item.uid \in Uid /\ item.sock \in Sock
    BY <2>1 DEF Item
  <2>3. CASE item.ev # Eof
    <3>1. /\ UNCHANGED <<queue, srv>>
          /\ handled' = [handled EXCEPT ![item.sock] = Append(@, item.ev)]
      BY <1>6, <2>3 DEF HandleItem
    <3>2. handled \in [Sock -> Seq(Events)] /\ item.ev \in Events
      BY <2>1, <2>3 DEF IInv, TypeOK, Item
    <3>3. ConnState[item.sock] # "new" /\ ConnState' = ConnState
      BY <2>1, <2>2, <3>1 DEF Known, ConnState, Live, Registered
    <3>4. Append(handled[item.sock], item.ev) # <<>>
      <4>1. handled[item.sock] \in Seq(Events)
        BY <2>2, <3>2
      <4> QED
        BY <3>2, <4>1, AppendNotEmpty
    <3> HIDE DEF item
    <3>5. Served' = Served \cup {item.sock}
      BY <2>2, <3>1, <3>2, <3>4 DEF Served
    <3>6. Abs!Serve(item.sock)
      BY <3>1, <3>3, <3>5 DEF Abs!Serve, Served
    <3> QED
      BY <2>2, <3>6 DEF Abs!Next, Abs!Serve
  <2>4. CASE queue[item.uid] # NoSock /\ HandleDisconnection(item.uid)
    <3> DEFINE u == item.uid
    <3>1. /\ u \in Uid /\ queue[u] # NoSock /\ handled' = handled
          /\ queue' = [queue EXCEPT ![u] = NoSock]
          /\ srv' = [srv EXCEPT ![queue[u]] = "closed"]
      BY <2>2, <2>4 DEF HandleDisconnection
    <3> HIDE DEF u
    <3>2. \A v \in Uid : v # u /\ queue[v] # NoSock => queue[v] # queue[u]
      BY <1>0, <3>1 DEF RegisteredIsLive, Registered
    <3>3. \A x \in Sock : x \in Live' <=> x \in Live /\ x # queue[u]
      BY <3>1, <3>2 DEF Live, Registered
    <3>4. ConnState' = [ConnState EXCEPT ![queue[u]] = "over"]
      BY <3>1, <3>3 DEF ConnState
    <3>5. Abs!End(u)
      BY <3>1, <3>4 DEF Abs!End
    <3> QED
      BY <3>1, <3>5 DEF Abs!Next
  <2>5. CASE UNCHANGED <<srv, regVars>>
    BY <2>5, RefuseStep DEF Abs!Next
  <2> QED
    BY <1>6, <2>3, <2>4, <2>5 DEF HandleItem
<1>7. CASE Stop
  <2>1. Live' = {} /\ queue' = [u \in Uid |-> NoSock] /\ handled' = handled
    BY <1>7 DEF Stop, Live, Registered
  <2>2. \A s \in Sock : srv'[s] = IF srv[s] = "none" THEN "none" ELSE "closed"
    BY <1>7 DEF Stop
  <2>3. \A s \in Live : srv[s] = "open"
    BY <1>0 DEF Live, RegisteredIsLive
  <2>4. ASSUME NEW s \in Sock
        PROVE  IF ConnState[s] = "live" THEN ConnState'[s] = "over" ELSE Abs!Kept(s)
    BY <2>1, <2>2, <2>3 DEF ConnState, Abs!Kept
  <2>5. ConnState' \in [Sock -> Abs!Status]
    BY DEF ConnState, Abs!Status
  <2>6. Abs!Shutdown
    BY <2>1, <2>4, <2>5 DEF Abs!Shutdown
  <2> QED
    BY <2>6 DEF Abs!Next
<1> QED
  BY <1>1, <1>2, <1>3, <1>4, <1>5, <1>6, <1>7 DEF Next, Environment, MainLoop, Quiet

(* The CoT service implements Sessions.                                    *)
THEOREM Refinement == Spec => ImplementsSessions
<1>1. Init => RInv
  BY InitInv DEF RInv, BatchInv, Init
<1>2. RInv /\ [Next]_vars => RInv'
  <2>1. IInv /\ [Next]_vars => IInv'
    BY TypeStep, PhaseStep, PassStep, SocketStep, NetStep DEF IInv, SockInv
  <2> QED
    BY <2>1, BatchStep DEF RInv
<1>3. Init => Abs!Init
  BY CotAssumption DEF Init, Abs!Init, ConnState, Live, Registered
<1>4. RInv /\ [Next]_vars => [Abs!Next]_mapped
  BY RefinementStep
<1> QED
  BY <1>1, <1>2, <1>3, <1>4, PTL DEF Spec, ImplementsSessions, Abs!Spec, mapped, Served
=============================================================================
