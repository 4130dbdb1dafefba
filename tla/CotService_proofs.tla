------------------------- MODULE CotService_proofs -------------------------
(***************************************************************************)
(* Proofs about the CoT service.  The safety invariants of CotService are  *)
(* not inductive by themselves; the strengthening IInv adds who may hold a *)
(* socket (ListenInv), how far a stream has been read (NetInv) and in which*)
(* phase of the main loop a reception job is outstanding (PhaseInv).       *)
(***************************************************************************)
EXTENDS CotService, SequenceTheorems, TLAPS

NetInv ==
    \A s \in Sock :
        /\ pos[s] <= avail[s]
        /\ peer[s] = "unused" => srv[s] = "none"

\* No reception job is outstanding exactly while its data is being handled.
PhaseInv == rx = "taken" <=> pc \in {"items", "info", "stopped"}

\* A listen job holds a socket only while it reads from it or has returned
\* it; the socket is open, and nothing else refers to it.
ListenInv ==
    /\ \A i \in Slot :
        /\ lst[i] \in {"free", "queued", "accept"} => lsock[i] = NoSock
        /\ lst[i] = "read" => lsock[i] # NoSock
        /\ lst[i] = "done" => i = cur
    /\ \A i \in Slot : lsock[i] # NoSock =>
        /\ srv[lsock[i]] = "open"
        /\ lsock[i] # lastSock
        /\ \A u \in Uid : queue[u] # lsock[i]
    /\ \A i, j \in Slot : lsock[i] # NoSock /\ lsock[i] = lsock[j] => i = j
    /\ lastSock # NoSock => srv[lastSock] \in {"open", "closed"}

IInv ==
    /\ TypeOK
    /\ OneQuestion
    /\ NetInv
    /\ PhaseInv
    /\ ListenInv
    /\ RegisteredIsLive
    /\ OpenIsAccounted
    /\ PassFindsItsClients

(* start() establishes the inductive invariant.                            *)
LEMMA InitInv == Init => IInv
<1> SUFFICES ASSUME Init PROVE IInv
  OBVIOUS
<1> USE CotAssumption DEF Init
<1>1. TypeOK
  BY DEF TypeOK, Halves, Item
<1>2. OneQuestion /\ PhaseInv /\ PassFindsItsClients
  BY DEF OneQuestion, PhaseInv, PassFindsItsClients
<1>3. NetInv /\ ListenInv
  BY DEF NetInv, ListenInv
<1>4. RegisteredIsLive /\ OpenIsAccounted
  BY DEF RegisteredIsLive, OpenIsAccounted, Registered
<1> QED
  BY <1>1, <1>2, <1>3, <1>4 DEF IInv

-----------------------------------------------------------------------------
(* The bounds on streams and queues are natural numbers.                   *)
LEMMA ConstantTypes == MaxEvents \in Nat /\ MaxShared \in Nat /\ ShareLimit \in Nat
  BY CotAssumption

(* The last event of a read that stays within the stream is an event.      *)
LEMMA EventBound ==
    ASSUME NEW p \in Int, NEW k \in Int, NEW m \in Int, p >= 0, k >= 0,
           p + k <= 2 * m, NEW i \in Int, i <= k \div 2
    PROVE  p \div 2 + i <= m
  OBVIOUS

(* Handing one more event of a socket on keeps the type of handled.        *)
LEMMA AppendType ==
    ASSUME NEW s \in Sock, NEW e \in Events, NEW h \in [Sock -> Seq(Events)]
    PROVE  [h EXCEPT ![s] = Append(@, e)] \in [Sock -> Seq(Events)]
  OBVIOUS

(* A function on 1 .. n with values in S is a sequence over S.             *)
LEMMA FunctionIsSeq ==
    ASSUME NEW S, NEW n \in Nat, NEW f, DOMAIN f = 1 .. n, f = [i \in 1 .. n |-> f[i]],
           \A i \in 1 .. n : f[i] \in S
    PROVE  f \in Seq(S)
  OBVIOUS

(* The items of a read that ends between two events are well formed.       *)
LEMMA EventItems ==
    ASSUME IInv, NEW u \in Uid, NEW k \in Halves, VisitEvents(u, k)
    PROVE  /\ queue[u] \in Sock /\ k \in Nat /\ pos[queue[u]] + k <= avail[queue[u]]
           /\ [i \in 1 .. k \div 2 |->
                [uid |-> u, sock |-> queue[u], ev |-> pos[queue[u]] \div 2 + i]] \in Seq(Item)
<1> DEFINE s == queue[u]
           items == [i \in 1 .. k \div 2 |-> [uid |-> u, sock |-> s, ev |-> pos[s] \div 2 + i]]
<1>1. s \in Sock /\ k \in Nat /\ pos[s] + k <= avail[s] /\ (pos[s] + k) % 2 = 0
  BY CotAssumption DEF IInv, TypeOK, VisitEvents, Scanning, Unread, Halves
<1>2. ASSUME NEW i \in 1 .. k \div 2 PROVE pos[s] \div 2 + i \in Events
  <2>1. avail[s] <= 2 * MaxEvents /\ pos[s] \in Nat
    BY <1>1, ConstantTypes DEF IInv, TypeOK, Halves
  <2>2. pos[s] + k <= 2 * MaxEvents
    BY <1>1, <2>1, ConstantTypes DEF IInv, TypeOK, Halves
  <2>3. pos[s] \div 2 + i <= MaxEvents
    BY <1>1, <2>1, <2>2, ConstantTypes, EventBound
  <2> QED
    BY <2>1, <2>3, ConstantTypes DEF Events
<1>3. items \in Seq(Item)
  <2>1. k \div 2 \in Nat
    BY <1>1
  <2>2. \A i \in 1 .. k \div 2 : items[i] \in Item
    BY <1>1, <1>2 DEF Item
  <2> DEFINE n == k \div 2
  <2>3. DOMAIN items = 1 .. n /\ items = [i \in 1 .. n |-> items[i]]
    OBVIOUS
  <2>4. n \in Nat /\ \A i \in 1 .. n : items[i] \in Item
    BY <2>1, <2>2
  <2> HIDE DEF items, n
  <2> QED
    BY <2>3, <2>4, FunctionIsSeq
<1> QED
  BY <1>1, <1>3

(* A visit that puts well-formed items on the data pipe keeps the types.   *)
LEMMA VisitType ==
    ASSUME IInv, NEW u \in Uid, NEW s \in Sock, NEW k \in Nat, NEW items \in Seq(Item),
           pos[s] + k <= avail[s], Visit(u, s, items, k)
    PROVE  TypeOK'
<1>1. pos' \in [Sock -> Halves]
  <2>1. pos[s] + k \in Halves
    <3>1. pos[s] \in 0 .. 2 * MaxEvents /\ avail[s] \in 0 .. 2 * MaxEvents
      BY DEF IInv, TypeOK, Halves
    <3> QED
      BY <3>1, ConstantTypes DEF Halves
  <2> QED
    BY <2>1 DEF IInv, TypeOK, Visit
<1>2. batch' \in Seq(Item)
  BY DEF IInv, TypeOK, Visit
<1> QED
  BY <1>1, <1>2 DEF IInv, TypeOK, Visit, netVars, lstVars, regVars, coreVars, shareVars

(* Type correctness is preserved, one step per action.                     *)
LEMMA TypeStep == IInv /\ [Next]_vars => TypeOK'
<1> SUFFICES ASSUME IInv, [Next]_vars PROVE TypeOK'
  OBVIOUS
<1> USE CotAssumption DEF IInv, TypeOK, netVars, posVars, lstVars, rxVars, regVars, coreVars, shareVars
<1>1. ASSUME NEW s \in Sock, NEW u \in Uid \cup {NoUid}, Connect(s, u) PROVE TypeOK'
  BY <1>1 DEF Connect
<1>2. ASSUME NEW s \in Sock, Arrive(s) PROVE TypeOK'
  <2>1. avail[s] + 1 \in Halves
    BY <1>2, ConstantTypes DEF Arrive, Halves
  <2> QED
    BY <1>2, <2>1 DEF Arrive
<1>3. ASSUME NEW s \in Sock, Leave(s) PROVE TypeOK'
  BY <1>3 DEF Leave
<1>4. CASE ShareFromOther
  BY <1>4 DEF ShareFromOther
<1>5. CASE RestartReceive
  BY <1>5 DEF RestartReceive
<1>6. ASSUME NEW i \in Slot, StartListen(i) PROVE TypeOK'
  BY <1>6 DEF StartListen
<1>7. ASSUME NEW i \in Slot, NEW s \in Sock, Accept(i, s) PROVE TypeOK'
  BY <1>7 DEF Accept
<1>8. ASSUME NEW i \in Slot, AcceptTimeout(i) PROVE TypeOK'
  BY <1>8 DEF AcceptTimeout, Return
<1>9. ASSUME NEW i \in Slot, NEW k \in Halves, ReadConnectionData(i, k) PROVE TypeOK'
  <2>1. lsock[i] \in Sock /\ k \div 2 \in 0 .. MaxEvents
    BY <1>9 DEF ReadConnectionData, ListenInv, Halves
  <2> QED
    BY <1>9, <2>1 DEF ReadConnectionData, Return
<1>10. ASSUME NEW i \in Slot, ReadConnectionFails(i) PROVE TypeOK'
  BY <1>10 DEF ReadConnectionFails, Return, ListenInv
<1>11. CASE StartPass
  BY <1>11 DEF StartPass, Registered
<1>12. ASSUME NEW u \in Uid, VisitIdle(u) PROVE TypeOK'
  <2>1. queue[u] \in Sock /\ pos[queue[u]] + 0 <= avail[queue[u]]
    BY <1>12 DEF VisitIdle, Scanning, NetInv, Halves
  <2>2. Visit(u, queue[u], <<>>, 0) /\ <<>> \in Seq(Item)
    BY <1>12 DEF VisitIdle
  <2> QED
    BY <2>1, <2>2, VisitType
<1>13. ASSUME NEW u \in Uid, NEW k \in Halves, VisitEvents(u, k) PROVE TypeOK'
  <2> DEFINE s == queue[u]
             items == [i \in 1 .. k \div 2 |-> [uid |-> u, sock |-> s, ev |-> pos[s] \div 2 + i]]
  <2>1. s \in Sock /\ k \in Nat /\ pos[s] + k <= avail[s] /\ items \in Seq(Item)
    BY <1>13, EventItems
  <2>2. Visit(u, s, items, k)
    BY <1>13 DEF VisitEvents
  <2> QED
    BY <2>1, <2>2, VisitType
<1>14. ASSUME NEW u \in Uid, NEW k \in Halves, VisitFragment(u, k) PROVE TypeOK'
  <2> DEFINE s == queue[u]
             items == <<[uid |-> u, sock |-> s, ev |-> Eof]>>
  <2>1. s \in Sock /\ k \in Nat /\ pos[s] + k <= avail[s]
    BY <1>14 DEF VisitFragment, Scanning, Unread, Halves, NetInv
  <2>2. items \in Seq(Item)
    BY <2>1 DEF Item
  <2>3. Visit(u, s, items, k)
    BY <1>14 DEF VisitFragment
  <2> QED
    BY <2>1, <2>2, <2>3, VisitType
<1>15. ASSUME NEW u \in Uid, VisitGone(u) PROVE TypeOK'
  <2> DEFINE s == queue[u]
             items == <<[uid |-> u, sock |-> s, ev |-> Eof]>>
  <2>1. s \in Sock /\ 0 \in Nat /\ pos[s] + 0 <= avail[s]
    BY <1>15 DEF VisitGone, Scanning, Unread, Halves, NetInv
  <2>2. items \in Seq(Item)
    BY <2>1 DEF Item
  <2>3. Visit(u, s, items, 0)
    BY <1>15 DEF VisitGone
  <2> QED
    BY <2>1, <2>2, <2>3, VisitType
<1>16. CASE PassReturns
  BY <1>16 DEF PassReturns
<1>17. CASE PollConnection
  <2>1. CASE lsock[cur] = NoSock
    BY <1>17, <2>1 DEF PollConnection
  <2>2. CASE lsock[cur] # NoSock
    <3> DEFINE s == lsock[cur]
    <3>1. s \in Sock /\ owner[s] \in Uid \cup {NoUid}
      BY <2>2
    <3>2. CASE owner[s] = NoUid
      BY <1>17, <2>2, <3>1, <3>2 DEF PollConnection, HandleConnection
    <3>3. CASE owner[s] # NoUid
      <4>1. srv' \in [Sock -> {"none", "backlog", "open", "closed"}]
        BY <1>17, <2>2, <3>3 DEF PollConnection, HandleConnection
      <4>2. /\ queue' \in [Uid -> Sock \cup {NoSock}]
            /\ connections' \in [Uid -> Sock \cup {NoSock}]
            /\ iam' \in [Uid -> {"none", "connection", "disconnection"}]
            /\ lastSock' \in Sock \cup {NoSock}
        BY <1>17, <2>2, <3>1, <3>3 DEF PollConnection, HandleConnection
      <4>3. lst' \in [Slot -> {"free", "queued", "accept", "read", "done"}]
            /\ lsock' \in [Slot -> Sock \cup {NoSock}]
        BY <1>17 DEF PollConnection
      <4> QED
        BY <1>17, <2>2, <3>3, <4>1, <4>2, <4>3 DEF PollConnection, HandleConnection
    <3> QED
      BY <3>2, <3>3
  <2> QED
    BY <2>1, <2>2
<1>18. CASE PollConnectionTimeout
  BY <1>18 DEF PollConnectionTimeout
<1>19. ASSUME NEW i \in Slot, ResetListen(i) PROVE TypeOK'
  <2>1. CASE lst[cur] = "done"
    <3>1. srv' \in [Sock -> {"none", "backlog", "open", "closed"}]
      BY <1>19, <2>1 DEF ResetListen
    <3> QED
      BY <1>19, <2>1, <3>1 DEF ResetListen
  <2>2. CASE lst[cur] # "done"
    BY <1>19, <2>2 DEF ResetListen
  <2> QED
    BY <2>1, <2>2
<1>20. CASE PollDataTimeout
  BY <1>20 DEF PollDataTimeout
<1>21. CASE PollData
  BY <1>21 DEF PollData
<1>22. CASE HandleItem
  <2>1. Head(batch) \in Item /\ Tail(batch) \in Seq(Item)
    BY <1>22 DEF HandleItem
  <2>2. CASE Head(batch).ev # Eof
    <3>1. Head(batch).ev \in Events /\ Head(batch).sock \in Sock
      BY <2>1, <2>2 DEF Item
    <3>2. handled' \in [Sock -> Seq(Events)]
      <4>1. handled' = [handled EXCEPT ![Head(batch).sock] = Append(@, Head(batch).ev)]
        BY <1>22, <2>2 DEF HandleItem
      <4> QED
        BY <3>1, <4>1, AppendType
    <3> QED
      BY <1>22, <2>1, <2>2, <3>2 DEF HandleItem
  <2>3. CASE Head(batch).ev = Eof /\ queue[Head(batch).uid] # NoSock
    <3>1. Head(batch).uid \in Uid
      BY <2>1 DEF Item
    <3> QED
      BY <1>22, <2>1, <2>3, <3>1 DEF HandleItem, HandleDisconnection
  <2>4. CASE Head(batch).ev = Eof /\ queue[Head(batch).uid] = NoSock
    BY <1>22, <2>1, <2>4 DEF HandleItem
  <2> QED
    BY <2>2, <2>3, <2>4
<1>23. CASE AskCore
  BY <1>23 DEF AskCore, OneQuestion
<1>24. CASE ResubmitPass
  BY <1>24 DEF ResubmitPass
<1>25. CASE TakeShared
  BY <1>25 DEF TakeShared, OneQuestion
<1>26. CASE SendShared
  BY <1>26 DEF SendShared
<1>27. CASE ShareDone
  BY <1>27 DEF ShareDone
<1>28. CASE BroadcastComponentResponses
  BY <1>28 DEF BroadcastComponentResponses
<1>29. CASE CoreAnswer
  BY <1>29 DEF CoreAnswer, OneQuestion
<1>30. CASE Stop
  BY <1>30 DEF Stop
<1>31. CASE UNCHANGED vars
  BY <1>31 DEF vars
<1> QED
  BY <1>1, <1>2, <1>3, <1>4, <1>5, <1>6, <1>7, <1>8, <1>9, <1>10, <1>11, <1>12, <1>13, <1>14, <1>15, <1>16, <1>17, <1>18, <1>19, <1>20, <1>21, <1>22, <1>23, <1>24, <1>25, <1>26, <1>27, <1>28, <1>29, <1>30, <1>31 DEF Next, Environment, Listener, Reception, MainLoop

-----------------------------------------------------------------------------
(* The question to the core, and the phases of the reception job.          *)
LEMMA PhaseStep == IInv /\ [Next]_vars => OneQuestion' /\ PhaseInv'
<1> SUFFICES ASSUME IInv, [Next]_vars PROVE OneQuestion' /\ PhaseInv'
  OBVIOUS
<1> USE DEF IInv, TypeOK, OneQuestion, PhaseInv, netVars, posVars, lstVars, rxVars, regVars,
            coreVars, shareVars
<1>1. CASE Environment
  BY <1>1 DEF Environment, Connect, Arrive, Leave, ShareFromOther, RestartReceive
<1>2. CASE Listener
  BY <1>2 DEF Listener, StartListen, Accept, AcceptTimeout, ReadConnectionData, ReadConnectionFails
<1>3. CASE Reception
  BY <1>3 DEF Reception, StartPass, VisitIdle, VisitEvents, VisitFragment, VisitGone, Scanning,
              Visit, PassReturns
<1>4. CASE PollConnection \/ PollConnectionTimeout \/ \E i \in Slot : ResetListen(i)
  BY <1>4 DEF PollConnection, PollConnectionTimeout, ResetListen
<1>5. CASE PollDataTimeout \/ PollData
  BY <1>5 DEF PollDataTimeout, PollData
<1>6. CASE HandleItem \/ AskCore \/ ResubmitPass
  BY <1>6 DEF HandleItem, AskCore, ResubmitPass
<1>7. CASE TakeShared \/ SendShared \/ ShareDone \/ BroadcastComponentResponses
  <2>1. CASE TakeShared
    BY <2>1 DEF TakeShared
  <2>2. CASE SendShared
    BY <2>2 DEF SendShared
  <2>3. CASE ShareDone \/ BroadcastComponentResponses
    BY <2>3 DEF ShareDone, BroadcastComponentResponses
  <2> QED
    BY <1>7, <2>1, <2>2, <2>3
<1>8. CASE CoreAnswer \/ Stop
  BY <1>8 DEF CoreAnswer, Stop
<1>9. CASE UNCHANGED vars
  BY <1>9 DEF vars
<1> QED
  BY <1>1, <1>2, <1>3, <1>4, <1>5, <1>6, <1>7, <1>8, <1>9 DEF Next, MainLoop

(* A running pass keeps finding its clients: while it runs, the main loop  *)
(* adds and replaces entries of the queue but deletes none.                *)
LEMMA PassStep == IInv /\ [Next]_vars => PassFindsItsClients'
<1> SUFFICES ASSUME IInv, [Next]_vars PROVE PassFindsItsClients'
  OBVIOUS
<1> USE DEF IInv, TypeOK, PassFindsItsClients, Registered, netVars, posVars, lstVars, rxVars,
            regVars, coreVars, shareVars
<1>1. CASE Environment \/ CoreAnswer
  BY <1>1 DEF Environment, Connect, Arrive, Leave, ShareFromOther, RestartReceive, CoreAnswer
<1>2. CASE Listener
  BY <1>2 DEF Listener, StartListen, Accept, AcceptTimeout, ReadConnectionData, ReadConnectionFails
<1>3. CASE Reception
  BY <1>3 DEF Reception, StartPass, VisitIdle, VisitEvents, VisitFragment, VisitGone, Scanning,
              Visit, PassReturns
<1>4. CASE PollConnection
  <2>1. CASE lsock[cur] = NoSock
    BY <1>4, <2>1 DEF PollConnection
  <2>2. CASE lsock[cur] # NoSock
    <3>1. lsock[cur] \in Sock
      BY <2>2
    <3>2. \A u \in Uid : queue[u] # NoSock => queue'[u] # NoSock
      BY <1>4, <2>2, <3>1, CotAssumption DEF PollConnection, HandleConnection
    <3>3. rx' = rx /\ todo' = todo
      BY <1>4 DEF PollConnection
    <3> QED
      BY <3>2, <3>3
  <2> QED
    BY <2>1, <2>2
<1>5. CASE PollConnectionTimeout \/ \E i \in Slot : ResetListen(i)
  BY <1>5 DEF PollConnectionTimeout, ResetListen
<1>6. CASE PollDataTimeout \/ PollData
  BY <1>6 DEF PollDataTimeout, PollData
<1>7. CASE HandleItem
  BY <1>7 DEF HandleItem, PhaseInv
<1>8. CASE AskCore \/ ResubmitPass
  BY <1>8 DEF AskCore, ResubmitPass
<1>9. CASE TakeShared \/ SendShared \/ ShareDone \/ BroadcastComponentResponses
  BY <1>9 DEF TakeShared, SendShared, ShareDone, BroadcastComponentResponses
<1>10. CASE Stop
  BY <1>10 DEF Stop
<1>11. CASE UNCHANGED vars
  BY <1>11 DEF vars
<1> QED
  BY <1>1, <1>2, <1>3, <1>4, <1>5, <1>6, <1>7, <1>8, <1>9, <1>10, <1>11 DEF Next, MainLoop

-----------------------------------------------------------------------------
(* Who holds a socket.                                                     *)

\* What the invariants about sockets depend on.
sockVars == <<owner, srv, lst, lsock, cur, queue, connections, lastSock>>

(* A step that touches none of sockVars keeps what they satisfy.           *)
LEMMA QuietStep ==
    ASSUME IInv, UNCHANGED sockVars
    PROVE  ListenInv' /\ RegisteredIsLive' /\ OpenIsAccounted'
  BY DEF IInv, sockVars, ListenInv, RegisteredIsLive, OpenIsAccounted, Registered, Live

\* The actions that leave all of that alone.
Quiet ==
    \/ \E s \in Sock : Arrive(s) \/ Leave(s)
    \/ ShareFromOther \/ RestartReceive \/ Reception
    \/ PollConnectionTimeout \/ PollDataTimeout \/ PollData
    \/ AskCore \/ ResubmitPass \/ TakeShared \/ SendShared \/ ShareDone
    \/ BroadcastComponentResponses \/ CoreAnswer \/ UNCHANGED vars

(* Reading, polling without a result and the share pipe leave them alone.  *)
LEMMA QuietIsQuiet == Quiet => UNCHANGED sockVars
  BY DEF Quiet, sockVars, Arrive, Leave, ShareFromOther, RestartReceive, Reception, StartPass,
         VisitIdle, VisitEvents, VisitFragment, VisitGone, Visit, PassReturns,
         PollConnectionTimeout, PollDataTimeout, PollData, AskCore, ResubmitPass, TakeShared,
         SendShared, ShareDone, BroadcastComponentResponses, CoreAnswer, vars, netVars, posVars,
         lstVars, rxVars, regVars, coreVars, shareVars

\* The part of the types these proofs use.
SockType ==
    /\ owner \in [Sock -> Uid \cup {NoUid}]
    /\ srv \in [Sock -> {"none", "backlog", "open", "closed"}]
    /\ lst \in [Slot -> {"free", "queued", "accept", "read", "done"}]
    /\ lsock \in [Slot -> Sock \cup {NoSock}]
    /\ cur \in Slot
    /\ queue \in [Uid -> Sock \cup {NoSock}]
    /\ connections \in [Uid -> Sock \cup {NoSock}]
    /\ lastSock \in Sock \cup {NoSock}
    /\ NoSock \notin Sock /\ NoUid \notin Uid

(* The part of the types that the proofs about sockets use.                *)
LEMMA SockTypes == IInv => SockType
  BY CotAssumption DEF IInv, TypeOK, SockType

SockInv == ListenInv /\ RegisteredIsLive /\ OpenIsAccounted

(* What handle_regular_data takes from the data pipe is one of its items.  *)
LEMMA HeadIsItem == ASSUME IInv, batch # <<>> PROVE Head(batch) \in Item
  BY DEF IInv, TypeOK

(* Every accepted socket keeps its one holder: a listen job, a registered  *)
(* client or the controller, one step per action that moves a socket.      *)
LEMMA SocketStep == IInv /\ [Next]_vars => SockInv'
<1> SUFFICES ASSUME IInv, [Next]_vars PROVE SockInv'
  OBVIOUS
<1> SUFFICES ListenInv' /\ RegisteredIsLive' /\ OpenIsAccounted'
  BY DEF SockInv
<1> USE SockTypes DEF SockType, netVars, posVars, lstVars, rxVars, regVars, coreVars, shareVars
<1>0. ListenInv /\ RegisteredIsLive /\ OpenIsAccounted /\ NetInv
  BY DEF IInv
<1>1. CASE Quiet
  BY <1>1, QuietIsQuiet, QuietStep
<1>2. ASSUME NEW s \in Sock, NEW u \in Uid \cup {NoUid}, Connect(s, u)
      PROVE  ListenInv' /\ RegisteredIsLive' /\ OpenIsAccounted'
  <2>1. ListenInv'
    BY <1>0, <1>2 DEF Connect, NetInv, ListenInv, RegisteredIsLive, Registered
  <2>2. RegisteredIsLive'
    BY <1>0, <1>2 DEF Connect, NetInv, ListenInv, RegisteredIsLive, Registered
  <2>3. OpenIsAccounted'
    BY <1>0, <1>2 DEF Connect, NetInv, ListenInv, RegisteredIsLive, Registered, OpenIsAccounted, Live
  <2> QED
    BY <2>1, <2>2, <2>3
<1>3. ASSUME NEW i \in Slot, StartListen(i)
      PROVE  ListenInv' /\ RegisteredIsLive' /\ OpenIsAccounted'
  <2>1. ListenInv'
    BY <1>0, <1>3 DEF StartListen, ListenInv, RegisteredIsLive, Registered
  <2>2. RegisteredIsLive'
    BY <1>0, <1>3 DEF StartListen, ListenInv, RegisteredIsLive, Registered
  <2>3. OpenIsAccounted'
    BY <1>0, <1>3 DEF StartListen, ListenInv, RegisteredIsLive, Registered, OpenIsAccounted, Live
  <2> QED
    BY <2>1, <2>2, <2>3
<1>4. ASSUME NEW i \in Slot, NEW s \in Sock, Accept(i, s)
      PROVE  ListenInv' /\ RegisteredIsLive' /\ OpenIsAccounted'
  <2>1. ListenInv'
    BY <1>0, <1>4 DEF Accept, ListenInv, RegisteredIsLive, Registered
  <2>2. RegisteredIsLive'
    BY <1>0, <1>4 DEF Accept, ListenInv, RegisteredIsLive, Registered
  <2>3. OpenIsAccounted'
    BY <1>0, <1>4 DEF Accept, ListenInv, RegisteredIsLive, Registered, OpenIsAccounted, Live
  <2> QED
    BY <2>1, <2>2, <2>3
<1>5. ASSUME NEW i \in Slot, AcceptTimeout(i)
      PROVE  ListenInv' /\ RegisteredIsLive' /\ OpenIsAccounted'
  <2>1. ListenInv'
    BY <1>0, <1>5 DEF AcceptTimeout, Return, ListenInv, RegisteredIsLive, Registered
  <2>2. RegisteredIsLive'
    BY <1>0, <1>5 DEF AcceptTimeout, Return, ListenInv, RegisteredIsLive, Registered
  <2>3. OpenIsAccounted'
    BY <1>0, <1>5 DEF AcceptTimeout, Return, ListenInv, RegisteredIsLive, Registered, OpenIsAccounted, Live
  <2> QED
    BY <2>1, <2>2, <2>3
<1>6. ASSUME NEW i \in Slot, NEW k \in Halves, ReadConnectionData(i, k)
      PROVE  ListenInv' /\ RegisteredIsLive' /\ OpenIsAccounted'
  <2>1. ListenInv'
    BY <1>0, <1>6 DEF ReadConnectionData, Return, ListenInv, RegisteredIsLive, Registered
  <2>2. RegisteredIsLive'
    BY <1>0, <1>6 DEF ReadConnectionData, Return, ListenInv, RegisteredIsLive, Registered
  <2>3. OpenIsAccounted'
    BY <1>0, <1>6 DEF ReadConnectionData, Return, ListenInv, RegisteredIsLive, Registered, OpenIsAccounted, Live
  <2> QED
    BY <2>1, <2>2, <2>3
<1>7. ASSUME NEW i \in Slot, ReadConnectionFails(i)
      PROVE  ListenInv' /\ RegisteredIsLive' /\ OpenIsAccounted'
  <2>1. ListenInv'
    BY <1>0, <1>7 DEF ReadConnectionFails, Return, ListenInv, RegisteredIsLive, Registered
  <2>2. RegisteredIsLive'
    BY <1>0, <1>7 DEF ReadConnectionFails, Return, ListenInv, RegisteredIsLive, Registered
  <2>3. OpenIsAccounted'
    BY <1>0, <1>7 DEF ReadConnectionFails, Return, ListenInv, RegisteredIsLive, Registered, OpenIsAccounted, Live
  <2> QED
    BY <2>1, <2>2, <2>3
<1>8. ASSUME NEW i \in Slot, ResetListen(i)
      PROVE  ListenInv' /\ RegisteredIsLive' /\ OpenIsAccounted'
  <2>1. ListenInv'
    BY <1>0, <1>8 DEF ResetListen, ListenInv, RegisteredIsLive, Registered
  <2>2. RegisteredIsLive'
    BY <1>0, <1>8 DEF ResetListen, ListenInv, RegisteredIsLive, Registered
  <2>3. OpenIsAccounted'
    BY <1>0, <1>8 DEF ResetListen, ListenInv, RegisteredIsLive, Registered, OpenIsAccounted, Live
  <2> QED
    BY <2>1, <2>2, <2>3
<1>9. CASE PollConnection
  <2>1. ListenInv'
    BY <1>0, <1>9 DEF PollConnection, HandleConnection, ListenInv, RegisteredIsLive, Registered
  <2>2. RegisteredIsLive'
    <3>1. CASE lsock[cur] = NoSock
      BY <1>0, <1>9, <3>1 DEF PollConnection, RegisteredIsLive, Registered
    <3>2. CASE lsock[cur] # NoSock /\ owner[lsock[cur]] = NoUid
      BY <1>0, <1>9, <3>2 DEF PollConnection, HandleConnection, RegisteredIsLive, Registered, Live
    <3>3. CASE lsock[cur] # NoSock /\ owner[lsock[cur]] # NoUid
      BY <1>0, <1>9, <3>3 DEF PollConnection, HandleConnection, ListenInv, RegisteredIsLive,
         Registered, Live
    <3> QED
      BY <3>1, <3>2, <3>3
  <2>3. OpenIsAccounted'
    BY <1>0, <1>9 DEF PollConnection, HandleConnection, ListenInv, RegisteredIsLive, Registered, OpenIsAccounted, Live
  <2> QED
    BY <2>1, <2>2, <2>3
<1>10. CASE HandleItem
  <2> DEFINE u == Head(batch).uid
  <2>1. u \in Uid
    BY <1>10, HeadIsItem DEF HandleItem, Item
  <2>2. CASE UNCHANGED <<srv, queue>>
    BY <1>10, <2>2, QuietStep DEF HandleItem, sockVars, HandleDisconnection
  <2>3. CASE queue[u] # NoSock /\ HandleDisconnection(u)
    <3>1. UNCHANGED <<owner, lst, lsock, cur>>
      BY <1>10 DEF HandleItem
    <3> HIDE DEF u
    <3>2. ListenInv'
      BY <1>0, <2>1, <2>3, <3>1 DEF HandleDisconnection, ListenInv, RegisteredIsLive, Registered
    <3>3. RegisteredIsLive'
      BY <1>0, <2>1, <2>3, <3>1 DEF HandleDisconnection, RegisteredIsLive, Registered
    <3>4. OpenIsAccounted'
      BY <1>0, <2>1, <2>3, <3>1 DEF HandleDisconnection, OpenIsAccounted, Registered, Live
    <3> QED
      BY <3>2, <3>3, <3>4
  <2> QED
    BY <1>10, <2>2, <2>3 DEF HandleItem
<1>11. CASE Stop
  <2>1. ListenInv'
    BY <1>0, <1>11 DEF Stop, ListenInv, RegisteredIsLive, Registered
  <2>2. RegisteredIsLive'
    BY <1>0, <1>11 DEF Stop, ListenInv, RegisteredIsLive, Registered
  <2>3. OpenIsAccounted'
    BY <1>0, <1>11 DEF Stop, ListenInv, RegisteredIsLive, Registered, OpenIsAccounted, Live
  <2> QED
    BY <2>1, <2>2, <2>3
<1> QED
  BY <1>1, <1>2, <1>3, <1>4, <1>5, <1>6, <1>7, <1>8, <1>9, <1>10, <1>11
     DEF Next, Environment, Listener, MainLoop, Quiet

(* A position never passes what has arrived, and unused connections are    *)
(* untouched.                                                              *)
LEMMA NetStep == IInv /\ [Next]_vars => NetInv'
<1> SUFFICES ASSUME IInv, [Next]_vars PROVE NetInv'
  OBVIOUS
<1> USE DEF netVars, posVars, lstVars, rxVars, regVars, coreVars, shareVars
<1> DEFINE Types == /\ pos \in [Sock -> Int] /\ avail \in [Sock -> Int]
                    /\ peer \in [Sock -> {"unused", "up", "gone"}]
                    /\ srv \in [Sock -> {"none", "backlog", "open", "closed"}]
                    /\ queue \in [Uid -> Sock \cup {NoSock}]
                    /\ lsock \in [Slot -> Sock \cup {NoSock}]
<1>0. Types /\ NetInv /\ ListenInv /\ RegisteredIsLive
  BY ConstantTypes DEF IInv, TypeOK, Halves
<1>1. CASE Environment
  BY <1>0, <1>1 DEF Environment, Connect, Arrive, Leave, ShareFromOther, RestartReceive, NetInv
<1>2. CASE Listener
  BY <1>0, <1>2 DEF Listener, StartListen, Accept, AcceptTimeout, ReadConnectionData,
                    ReadConnectionFails, NetInv, ListenInv, Halves
<1>3. CASE Reception
  <2>1. CASE StartPass \/ PassReturns
    BY <1>0, <2>1 DEF StartPass, PassReturns, NetInv
  <2>2. ASSUME NEW u \in Uid, NEW k \in Halves, VisitEvents(u, k) \/ VisitFragment(u, k)
        PROVE  NetInv'
    <3> DEFINE s == queue[u]
    <3>1. s \in Sock /\ k \in Int /\ pos[s] + k <= avail[s]
      BY <1>0, <2>2, ConstantTypes DEF VisitEvents, VisitFragment, Scanning, Unread, Halves
    <3>2. pos' = [pos EXCEPT ![s] = @ + k] /\ UNCHANGED <<avail, peer, srv>>
      BY <2>2 DEF VisitEvents, VisitFragment, Visit
    <3> HIDE DEF s
    <3> QED
      BY <1>0, <3>1, <3>2 DEF NetInv
  <2>3. ASSUME NEW u \in Uid, VisitIdle(u) \/ VisitGone(u)
        PROVE  NetInv'
    BY <1>0, <2>3 DEF VisitIdle, VisitGone, Visit, Scanning, NetInv
  <2> QED
    BY <1>3, <2>1, <2>2, <2>3 DEF Reception
<1>4. CASE PollConnection
  <2>1. UNCHANGED <<pos, avail, peer>>
    BY <1>4 DEF PollConnection
  <2>2. \A s \in Sock : srv[s] = "none" => srv'[s] = "none"
    <3>1. CASE lsock[cur] = NoSock
      BY <1>4, <3>1 DEF PollConnection
    <3>2. CASE lsock[cur] # NoSock /\ owner[lsock[cur]] = NoUid
      BY <1>0, <1>4, <3>2, CotAssumption DEF PollConnection, HandleConnection, ListenInv
    <3>3. CASE lsock[cur] # NoSock /\ owner[lsock[cur]] # NoUid
      <4>1. owner[lsock[cur]] \in Uid
        BY <3>3, SockTypes DEF SockType
      <4> QED
        BY <1>0, <1>4, <3>3, <4>1, CotAssumption DEF PollConnection, HandleConnection, ListenInv,
           RegisteredIsLive, Registered
    <3> QED
      BY <3>1, <3>2, <3>3
  <2> QED
    BY <1>0, <2>1, <2>2 DEF NetInv
<1>5. CASE \E i \in Slot : ResetListen(i)
  <2>1. UNCHANGED <<pos, avail, peer>>
    BY <1>5 DEF ResetListen
  <2>2. \A s \in Sock : srv[s] = "none" => srv'[s] = "none"
    BY <1>0, <1>5, SockTypes DEF ResetListen, ListenInv, SockType
  <2> QED
    BY <1>0, <2>1, <2>2 DEF NetInv
<1>6. CASE HandleItem
  <2>1. Head(batch).uid \in Uid
    BY <1>6, HeadIsItem DEF HandleItem, Item
  <2> QED
    BY <1>0, <1>6, <2>1 DEF HandleItem, HandleDisconnection, NetInv, RegisteredIsLive, Registered
<1>7. CASE \/ PollConnectionTimeout \/ PollDataTimeout \/ PollData \/ AskCore \/ ResubmitPass
           \/ TakeShared \/ SendShared \/ ShareDone \/ BroadcastComponentResponses
           \/ CoreAnswer \/ UNCHANGED vars
  BY <1>0, <1>7 DEF PollConnectionTimeout, PollDataTimeout, PollData, AskCore, ResubmitPass,
     TakeShared, SendShared, ShareDone, BroadcastComponentResponses, CoreAnswer, vars, NetInv
<1>8. CASE Stop
  BY <1>0, <1>8 DEF Stop, NetInv
<1> QED
  BY <1>1, <1>2, <1>3, <1>4, <1>5, <1>6, <1>7, <1>8 DEF Next, MainLoop

-----------------------------------------------------------------------------
(* IInv is an inductive invariant of the service.                          *)
THEOREM Invariance == Spec => []IInv
<1>1. Init => IInv
  BY InitInv
<1>2. IInv /\ [Next]_vars => IInv'
  BY TypeStep, PhaseStep, PassStep, SocketStep, NetStep DEF IInv, SockInv
<1> QED
  BY <1>1, <1>2, PTL DEF Spec

(* Every variable keeps its type: in particular a pass reports no event    *)
(* number out of range, and neither queue to the core grows past one.      *)
THEOREM TypeCorrect == Spec => []TypeOK
<1>1. IInv => TypeOK
  BY DEF IInv
<1> QED
  BY <1>1, Invariance, PTL

(* No reception pass is ever cut short by a KeyError, whatever the clients *)
(* do and however often the listen job is restarted.                       *)
THEOREM PassesComplete == Spec => []PassFindsItsClients
<1>1. IInv => PassFindsItsClients
  BY DEF IInv
<1> QED
  BY <1>1, Invariance, PTL

(* client_information_queue and connections agree, on an open socket of    *)
(* that very client.                                                       *)
THEOREM QueueIsLive == Spec => []RegisteredIsLive
<1>1. IInv => RegisteredIsLive
  BY DEF IInv
<1> QED
  BY <1>1, Invariance, PTL

(* No accepted socket is left open without an owner.                       *)
THEOREM NoSocketLeaks == Spec => []OpenIsAccounted
<1>1. IInv => OpenIsAccounted
  BY DEF IInv
<1> QED
  BY <1>1, Invariance, PTL

(* Questions to the core and its answers stay paired.                      *)
THEOREM AnswersMatch == Spec => []OneQuestion
<1>1. IInv => OneQuestion
  BY DEF IInv
<1> QED
  BY <1>1, Invariance, PTL

-----------------------------------------------------------------------------
(* The IAM component.                                                      *)

\* As long as the service runs, not only at the top of the loop.
IamInv == pc # "stopped" => \A u \in Uid : queue[u] # NoSock <=> iam[u] = "connection"

(* Queue and IAM requests change together, one step per action.            *)
LEMMA IamStep == IInv /\ IamInv /\ [Next]_vars => IamInv'
<1> SUFFICES ASSUME IInv, IamInv, [Next]_vars PROVE IamInv'
  OBVIOUS
<1> USE SockTypes DEF SockType, netVars, posVars, lstVars, rxVars, regVars, coreVars, shareVars
<1>1. iam \in [Uid -> {"none", "connection", "disconnection"}]
  BY DEF IInv, TypeOK
<1>2. CASE Quiet
  <2>1. UNCHANGED <<queue, iam>> /\ (pc' # "stopped" => pc # "stopped")
    BY <1>2 DEF Quiet, Arrive, Leave, ShareFromOther, RestartReceive, Reception, StartPass,
       VisitIdle, VisitEvents, VisitFragment, VisitGone, Visit, PassReturns,
       PollConnectionTimeout, PollDataTimeout, PollData, AskCore, ResubmitPass, TakeShared,
       SendShared, ShareDone, BroadcastComponentResponses, CoreAnswer, vars
  <2> QED
    BY <2>1 DEF IamInv
<1>3. CASE \/ \E s \in Sock, u \in Uid \cup {NoUid} : Connect(s, u)
           \/ Listener \/ \E i \in Slot : ResetListen(i)
  BY <1>3 DEF Connect, Listener, StartListen, Accept, AcceptTimeout, ReadConnectionData,
     ReadConnectionFails, ResetListen, IamInv
<1>4. CASE PollConnection
  <2>1. CASE lsock[cur] = NoSock \/ owner[lsock[cur]] = NoUid
    BY <1>4, <2>1 DEF PollConnection, HandleConnection, IamInv
  <2>2. CASE lsock[cur] # NoSock /\ owner[lsock[cur]] # NoUid
    <3>1. owner[lsock[cur]] \in Uid
      BY <2>2
    <3> QED
      BY <1>1, <1>4, <2>2, <3>1 DEF PollConnection, HandleConnection, IamInv
  <2> QED
    BY <2>1, <2>2
<1>5. CASE HandleItem
  <2> DEFINE u == Head(batch).uid
  <2>1. u \in Uid
    BY <1>5, HeadIsItem DEF HandleItem, Item
  <2>2. CASE UNCHANGED <<queue, iam>>
    BY <1>5, <2>2 DEF HandleItem, IamInv
  <2>3. CASE HandleDisconnection(u)
    <3>1. pc = "items"
      BY <1>5 DEF HandleItem
    <3> HIDE DEF u
    <3> QED
      BY <1>1, <2>1, <2>3, <3>1 DEF HandleDisconnection, IamInv
  <2> QED
    BY <1>5, <2>2, <2>3 DEF HandleItem
<1>6. CASE Stop
  BY <1>6 DEF Stop, IamInv
<1> QED
  BY <1>2, <1>3, <1>4, <1>5, <1>6 DEF Next, Environment, MainLoop, Quiet

(* Whenever the main loop comes round, the last thing IAM was told about a *)
(* uid is whether it is registered.                                        *)
THEOREM IamIsTold == Spec => []IamAgrees
<1>1. Init => IamInv
  BY DEF Init, IamInv
<1>2. IInv /\ IamInv /\ [Next]_vars => IamInv'
  BY IamStep
<1>3. IamInv => IamAgrees
  BY DEF IamInv, IamAgrees, Registered
<1> QED
  BY <1>1, <1>2, <1>3, Invariance, PTL DEF Spec

-----------------------------------------------------------------------------
(* What a pass has read.                                                   *)

\* A connection that is or was registered, or was refused.
Known(s) == s \in Live \/ srv[s] = "closed"

BatchInv == \A i \in DOMAIN batch : Known(batch[i].sock)

RInv == IInv /\ BatchInv

(* The socket a pass reads from is a registered one.                       *)
LEMMA VisitIsLive ==
    ASSUME NEW u \in Uid, Scanning(u)
    PROVE  queue[u] \in Live
  BY DEF Scanning, Live, Registered

(* No socket that has been registered or closed becomes fresh again: an    *)
(* entry leaves the queue only together with its socket.                   *)
LEMMA KnownStep ==
    ASSUME IInv, [Next]_vars, NEW s \in Sock, Known(s)
    PROVE  Known(s)'
<1> USE SockTypes DEF SockType, netVars, posVars, lstVars, rxVars, regVars, coreVars, shareVars
<1>0. ListenInv /\ RegisteredIsLive
  BY DEF IInv
<1>1. CASE Quiet
  BY <1>1, QuietIsQuiet DEF sockVars, Known, Live, Registered
<1>2. ASSUME NEW x \in Sock, NEW u \in Uid \cup {NoUid}, Connect(x, u) PROVE Known(s)'
  <2>1. srv[x] = "none"
    BY <1>2 DEF Connect, IInv, NetInv
  <2> QED
    BY <1>0, <1>2, <2>1 DEF Connect, Known, Live, Registered, RegisteredIsLive
<1>3. CASE \E i \in Slot : StartListen(i) \/ AcceptTimeout(i)
  BY <1>3 DEF StartListen, AcceptTimeout, Known, Live, Registered
<1>4. ASSUME NEW i \in Slot, NEW x \in Sock, Accept(i, x) PROVE Known(s)'
  BY <1>4 DEF Accept, Known, Live, Registered
<1>5. ASSUME NEW i \in Slot, NEW k \in Halves, ReadConnectionData(i, k) PROVE Known(s)'
  BY <1>0, <1>5 DEF ReadConnectionData, Known, Live, Registered, ListenInv
<1>6. ASSUME NEW i \in Slot, ReadConnectionFails(i) PROVE Known(s)'
  BY <1>0, <1>6 DEF ReadConnectionFails, Known, Live, Registered, ListenInv
<1>7. ASSUME NEW i \in Slot, ResetListen(i) PROVE Known(s)'
  BY <1>0, <1>7 DEF ResetListen, Known, Live, Registered, ListenInv
<1>8. CASE PollConnection
  <2>1. CASE lsock[cur] = NoSock
    BY <1>8, <2>1 DEF PollConnection, Known, Live, Registered
  <2>2. CASE lsock[cur] # NoSock /\ owner[lsock[cur]] = NoUid
    BY <1>0, <1>8, <2>2 DEF PollConnection, HandleConnection, Known, Live, Registered
  <2>3. CASE lsock[cur] # NoSock /\ owner[lsock[cur]] # NoUid
    BY <1>0, <1>8, <2>3 DEF PollConnection, HandleConnection, Known, Live, Registered
  <2> QED
    BY <2>1, <2>2, <2>3
<1>9. CASE HandleItem
  <2> DEFINE u == Head(batch).uid
  <2>1. u \in Uid
    BY <1>9, HeadIsItem DEF HandleItem, Item
  <2>2. CASE UNCHANGED <<srv, queue>>
    BY <2>2 DEF Known, Live, Registered
  <2>3. CASE queue[u] # NoSock /\ HandleDisconnection(u)
    <3> HIDE DEF u
    <3> QED
      BY <2>1, <2>3 DEF HandleDisconnection, Known, Live, Registered
  <2> QED
    BY <1>9, <2>2, <2>3 DEF HandleItem
<1>10. CASE Stop
  BY <1>0, <1>10 DEF Stop, Known, Live, Registered, RegisteredIsLive
<1> QED
  BY <1>1, <1>2, <1>3, <1>4, <1>5, <1>6, <1>7, <1>8, <1>9, <1>10
     DEF Next, Environment, Listener, MainLoop, Quiet

(* What a pass adds to the data pipe was read from a registered socket.    *)
LEMMA VisitBatch ==
    ASSUME IInv, BatchInv, NEW u \in Uid, Scanning(u), NEW k, NEW items \in Seq(Item),
           \A i \in DOMAIN items : items[i].sock = queue[u],
           Visit(u, queue[u], items, k)
    PROVE  BatchInv'
<1>1. UNCHANGED <<queue, srv>> /\ batch' = batch \o items
  BY DEF Visit, regVars
<1>2. batch \in Seq(Item) /\ queue[u] \in Live
  BY VisitIsLive DEF IInv, TypeOK
<1>3. \A i \in DOMAIN batch' :
        \/ i \in DOMAIN batch /\ batch'[i] = batch[i]
        \/ \E j \in DOMAIN items : batch'[i] = items[j]
  <2> SUFFICES ASSUME NEW i \in 1 .. Len(batch) + Len(items)
               PROVE  \/ i \in 1 .. Len(batch) /\ (batch \o items)[i] = batch[i]
                      \/ \E j \in 1 .. Len(items) : (batch \o items)[i] = items[j]
    BY <1>1, <1>2
  <2>1. CASE i <= Len(batch)
    BY <1>2, <2>1
  <2>2. CASE i > Len(batch)
    <3>1. i - Len(batch) \in 1 .. Len(items) /\ (batch \o items)[i] = items[i - Len(batch)]
      BY <1>2, <2>2
    <3> QED
      BY <3>1
  <2> QED
    BY <1>2, <2>1, <2>2
<1>4. UNCHANGED <<Live, srv>>
  BY <1>1 DEF Live, Registered
<1>5. ASSUME NEW i \in DOMAIN batch' PROVE Known(batch[i].sock)'
  <2>1. batch'[i].sock \in Live \/ srv[batch'[i].sock] = "closed"
    BY <1>2, <1>3, <1>5 DEF BatchInv, Known
  <2> QED
    BY <1>4, <2>1 DEF Known
<1> QED
  BY <1>5 DEF BatchInv

(* Every step keeps BatchInv.                                              *)
LEMMA BatchStep == RInv /\ [Next]_vars => BatchInv'
<1> SUFFICES ASSUME IInv, BatchInv, [Next]_vars PROVE BatchInv'
  BY DEF RInv
<1> USE DEF netVars, posVars, lstVars, rxVars, regVars, coreVars, shareVars
<1>0. \A s \in Sock : Known(s) => Known(s)'
  BY KnownStep
<1>a. batch \in Seq(Item)
  BY DEF IInv, TypeOK
<1>b. \A i \in DOMAIN batch : batch[i].sock \in Sock
  <2>1. \A i \in DOMAIN batch : batch[i] \in Item
    BY <1>a
  <2> QED
    BY <2>1 DEF Item
<1>1. CASE batch' = batch
  <2>1. ASSUME NEW i \in DOMAIN batch' PROVE Known(batch[i].sock)'
    BY <1>0, <1>1, <1>b DEF BatchInv, Known
  <2> QED
    BY <2>1 DEF BatchInv
<1>2. CASE batch' = <<>>
  BY <1>2 DEF BatchInv
<1>3. CASE HandleItem
  <2>1. batch # <<>> /\ batch' = Tail(batch)
    BY <1>3 DEF HandleItem
  <2>2. ASSUME NEW i \in DOMAIN batch' PROVE Known(batch[i].sock)'
    <3>1. i + 1 \in DOMAIN batch /\ batch'[i] = batch[i + 1]
      BY <1>a, <2>1
    <3> QED
      BY <1>0, <1>b, <3>1 DEF BatchInv, Known
  <2> QED
    BY <2>2 DEF BatchInv
<1>4. ASSUME NEW u \in Uid, VisitIdle(u) PROVE BatchInv'
  <2>1. Scanning(u) /\ Visit(u, queue[u], <<>>, 0)
    BY <1>4 DEF VisitIdle
  <2>2. <<>> \in Seq(Item) /\ \A i \in DOMAIN <<>> : (<<>>)[i].sock = queue[u]
    OBVIOUS
  <2> QED
    BY <2>1, <2>2, VisitBatch
<1>5. ASSUME NEW u \in Uid, NEW k \in Halves, VisitFragment(u, k) PROVE BatchInv'
  <2> DEFINE items == <<[uid |-> u, sock |-> queue[u], ev |-> Eof]>>
  <2>1. Scanning(u) /\ Visit(u, queue[u], items, k)
    BY <1>5 DEF VisitFragment
  <2>2. queue[u] \in Sock
    BY <2>1 DEF Scanning, IInv, TypeOK
  <2>3. items \in Seq(Item) /\ \A i \in DOMAIN items : items[i].sock = queue[u]
    BY <2>2 DEF Item
  <2> QED
    BY <2>1, <2>3, VisitBatch
<1>6. ASSUME NEW u \in Uid, VisitGone(u) PROVE BatchInv'
  <2> DEFINE items == <<[uid |-> u, sock |-> queue[u], ev |-> Eof]>>
  <2>1. Scanning(u) /\ Visit(u, queue[u], items, 0)
    BY <1>6 DEF VisitGone
  <2>2. queue[u] \in Sock
    BY <2>1 DEF Scanning, IInv, TypeOK
  <2>3. items \in Seq(Item) /\ \A i \in DOMAIN items : items[i].sock = queue[u]
    BY <2>2 DEF Item
  <2> QED
    BY <2>1, <2>3, VisitBatch
<1>7. ASSUME NEW u \in Uid, NEW k \in Halves, VisitEvents(u, k) PROVE BatchInv'
  <2> DEFINE items == [i \in 1 .. k \div 2 |->
                         [uid |-> u, sock |-> queue[u], ev |-> pos[queue[u]] \div 2 + i]]
  <2>1. Scanning(u) /\ Visit(u, queue[u], items, k)
    BY <1>7 DEF VisitEvents
  <2>2. items \in Seq(Item)
    BY <1>7, EventItems
  <2>3. \A i \in DOMAIN items : items[i].sock = queue[u]
    OBVIOUS
  <2> QED
    BY <2>1, <2>2, <2>3, VisitBatch
<1>8. ASSUME Next \/ UNCHANGED vars,
             ~HandleItem,
             ~\E u \in Uid : VisitIdle(u) \/ VisitGone(u),
             ~\E u \in Uid, k \in Halves : VisitEvents(u, k) \/ VisitFragment(u, k)
      PROVE  batch' = batch \/ batch' = <<>>
  BY <1>8 DEF vars, Next, Environment, Connect, Arrive, Leave, ShareFromOther, RestartReceive,
     Listener, StartListen, Accept, AcceptTimeout, ReadConnectionData, ReadConnectionFails,
     Reception, StartPass, PassReturns, MainLoop, PollConnection, PollConnectionTimeout,
     ResetListen, PollDataTimeout, PollData, AskCore, ResubmitPass, TakeShared, SendShared,
     ShareDone, BroadcastComponentResponses, CoreAnswer, Stop
<1> QED
  BY <1>1, <1>2, <1>3, <1>4, <1>5, <1>6, <1>7, <1>8

-----------------------------------------------------------------------------
(* The order of events.                                                    *)

\* Nothing was handed on, and nothing is on the data pipe, of a connection
\* that was not registered yet; what it sent with its connection event has
\* been skipped; and the pass that is running reads every socket once.
StreamInv ==
    /\ \A s \in Sock : ~Known(s) => handled[s] = <<>>
    /\ \A i \in Slot : lst[i] = "done" /\ lsock[i] # NoSock =>
        pos[lsock[i]] = 2 * start[lsock[i]]
    /\ rx \in {"queued", "failed"} \/ pc = "info" => batch = <<>>
    /\ \A i \in DOMAIN batch :
        /\ batch[i].uid = owner[batch[i].sock]
        /\ rx = "scan" => \A u \in todo : queue[u] # batch[i].sock

EInv == RInv /\ StreamInv /\ EventsInOrder

(* The numbers and sequences these proofs speak of.                        *)
LEMMA StreamTypes ==
    ASSUME IInv
    PROVE  /\ batch \in Seq(Item) /\ Len(batch) \in Nat /\ DOMAIN batch = 1 .. Len(batch)
           /\ \A i \in DOMAIN batch : batch[i].uid \in Uid /\ batch[i].sock \in Sock
                                      /\ batch[i].ev \in Nat
           /\ \A s \in Sock : /\ handled[s] \in Seq(Events) /\ Len(handled[s]) \in Nat
                              /\ DOMAIN handled[s] = 1 .. Len(handled[s])
                              /\ start[s] \in 0 .. MaxEvents /\ LastHandled(s) \in Nat
                              /\ pos[s] \in Nat /\ pos[s] <= 2 * MaxEvents
           /\ handled \in [Sock -> Seq(Events)] /\ pos \in [Sock -> Halves]
           /\ start \in [Sock -> 0 .. MaxEvents] /\ MaxEvents \in Nat
<1>1. /\ batch \in Seq(Item) /\ handled \in [Sock -> Seq(Events)] /\ pos \in [Sock -> Halves]
      /\ start \in [Sock -> 0 .. MaxEvents] /\ MaxEvents \in Nat
  BY ConstantTypes DEF IInv, TypeOK
<1>2. Len(batch) \in Nat /\ DOMAIN batch = 1 .. Len(batch) /\ \A i \in DOMAIN batch : batch[i] \in Item
  BY <1>1
<1>3. \A x \in Item : x.uid \in Uid /\ x.sock \in Sock /\ x.ev \in Nat
  BY <1>1 DEF Item, Events, Eof
<1>4. ASSUME NEW s \in Sock
      PROVE  /\ handled[s] \in Seq(Events) /\ Len(handled[s]) \in Nat
             /\ DOMAIN handled[s] = 1 .. Len(handled[s])
             /\ start[s] \in 0 .. MaxEvents /\ LastHandled(s) \in Nat
             /\ pos[s] \in Nat /\ pos[s] <= 2 * MaxEvents
  BY <1>1 DEF LastHandled, Halves
<1> QED
  BY <1>1, <1>2, <1>3, <1>4

(* A connection nothing was handed on of yet, and that is not on the data  *)
(* pipe, is in order if what was read of it is what the listen job took.   *)
LEMMA FreshInOrder ==
    ASSUME TypeOK', NEW s \in Sock, handled'[s] = <<>>,
           \A i \in DOMAIN batch' : batch'[i].sock # s,
           s \in Live' => pos'[s] = 2 * start'[s]
    PROVE  InOrder(s)'
<1>1. OfSock(s)' = {} /\ LastHandled(s)' = start'[s] /\ start'[s] \in 0 .. MaxEvents
  BY DEF OfSock, LastHandled, TypeOK
<1>2. start'[s] + 1 .. start'[s] = {} /\ start'[s] \in start'[s] .. MaxEvents
  BY <1>1, ConstantTypes
<1>3. \A i \in DOMAIN handled'[s] : FALSE
  OBVIOUS
<1> QED
  BY <1>1, <1>2, <1>3 DEF InOrder

(* A connection stays in order when its events on the data pipe move by d  *)
(* places and it does not come back into the queue.                        *)
LEMMA ShiftInOrder ==
    ASSUME IInv, NEW s \in Sock, InOrder(s), NEW d \in 0 .. 1,
           \A i \in OfSock(s)' : i \in Nat /\ i + d \in OfSock(s) /\ batch'[i].ev = batch[i + d].ev,
           \A i \in OfSock(s) : i - d \in OfSock(s)',
           UNCHANGED <<handled[s], start[s]>>,
           s \in Live' /\ ~Reported(s)' => s \in Live /\ ~Reported(s) /\ pos'[s] = pos[s]
    PROVE  InOrder(s)'
<1>1. LastHandled(s)' = LastHandled(s)
  BY DEF LastHandled
<1>2. \A i \in OfSock(s) : i \in Nat /\ (i - d) + d = i
  BY StreamTypes DEF OfSock
<1>3. {batch'[i].ev : i \in OfSock(s)'} = {batch[i].ev : i \in OfSock(s)}
  BY <1>2
<1>4. \A i, j \in OfSock(s)' : i < j => batch'[i].ev < batch'[j].ev
  <2> SUFFICES ASSUME NEW i \in OfSock(s)', NEW j \in OfSock(s)', i < j
               PROVE  batch'[i].ev < batch'[j].ev
    OBVIOUS
  <2>1. i + d \in OfSock(s) /\ j + d \in OfSock(s) /\ i + d < j + d
    OBVIOUS
  <2> QED
    BY <2>1 DEF InOrder
<1> QED
  BY <1>1, <1>3, <1>4 DEF InOrder

(* So does one whose events on the data pipe stay where they are.          *)
LEMMA SameInOrder ==
    ASSUME IInv, NEW s \in Sock, InOrder(s), OfSock(s)' = OfSock(s),
           \A i \in OfSock(s) : batch'[i].ev = batch[i].ev,
           UNCHANGED <<handled[s], start[s]>>,
           s \in Live' /\ ~Reported(s)' => s \in Live /\ ~Reported(s) /\ pos'[s] = pos[s]
    PROVE  InOrder(s)'
<1>1. \A i \in OfSock(s) : i \in Nat /\ i + 0 = i /\ i - 0 = i
  BY StreamTypes DEF OfSock
<1> QED
  BY <1>1, ShiftInOrder

(* What is on the data pipe after a pass has added items to it.            *)
LEMMA VisitPipe ==
    ASSUME IInv, NEW items \in Seq(Item), batch' = batch \o items
    PROVE  /\ DOMAIN batch' = 1 .. Len(batch) + Len(items)
           /\ \A i \in DOMAIN batch : i \in DOMAIN batch' /\ batch'[i] = batch[i]
           /\ \A i \in DOMAIN batch' : i \in DOMAIN batch \/
                (i - Len(batch) \in DOMAIN items /\ batch'[i] = items[i - Len(batch)])
           /\ \A j \in DOMAIN items : /\ j + Len(batch) \in DOMAIN batch'
                                      /\ batch'[j + Len(batch)] = items[j]
<1>1. batch \in Seq(Item) /\ Len(batch) \in Nat /\ DOMAIN batch = 1 .. Len(batch)
  BY StreamTypes
<1>2. Len(items) \in Nat /\ DOMAIN items = 1 .. Len(items)
  OBVIOUS
<1>3. DOMAIN batch' = 1 .. Len(batch) + Len(items)
  BY <1>1
<1>4. ASSUME NEW i \in DOMAIN batch
      PROVE  i \in DOMAIN batch' /\ batch'[i] = batch[i]
  BY <1>1, <1>2, <1>3
<1>5. ASSUME NEW j \in DOMAIN items
      PROVE  j + Len(batch) \in DOMAIN batch' /\ batch'[j + Len(batch)] = items[j]
  BY <1>1, <1>2, <1>3
<1>6. ASSUME NEW i \in DOMAIN batch', i \notin DOMAIN batch
      PROVE  i - Len(batch) \in DOMAIN items /\ batch'[i] = items[i - Len(batch)]
  BY <1>1, <1>2, <1>3, <1>6
<1> QED
  BY <1>3, <1>4, <1>5, <1>6

(* A visit leaves the other connections in order.                          *)
LEMMA VisitOthers ==
    ASSUME IInv, NEW v \in Uid, NEW items \in Seq(Item), NEW k,
           \A i \in DOMAIN items : items[i].sock = queue[v],
           Visit(v, queue[v], items, k), NEW s \in Sock, s # queue[v], InOrder(s)
    PROVE  InOrder(s)'
<1>1. /\ batch' = batch \o items /\ UNCHANGED <<handled, start, queue>>
      /\ pos' = [pos EXCEPT ![queue[v]] = @ + k]
  BY DEF Visit, regVars
<1>2. pos'[s] = pos[s] /\ Live' = Live
  BY <1>1, StreamTypes DEF Live, Registered
<1>3. OfSock(s)' = OfSock(s) /\ \A i \in OfSock(s) : batch'[i].ev = batch[i].ev
  BY <1>1, VisitPipe DEF OfSock
<1>4. Reported(s) => Reported(s)'
  BY <1>1, VisitPipe DEF Reported
<1> QED
  BY <1>1, <1>2, <1>3, <1>4, SameInOrder

(* A client is visited before anything of its connection is on the data    *)
(* pipe, and has been read up to the last event that was handed on.        *)
LEMMA VisitedIsAhead ==
    ASSUME EInv, NEW v \in Uid, Scanning(v)
    PROVE  /\ queue[v] \in Sock /\ queue[v] \in Live
           /\ \A i \in DOMAIN batch : batch[i].sock # queue[v]
           /\ pos[queue[v]] = 2 * LastHandled(queue[v])
           /\ LastHandled(queue[v]) \in 0 .. MaxEvents
<1> DEFINE s == queue[v]
<1>1. s \in Sock /\ s \in Live
  BY VisitIsLive DEF Scanning, EInv, RInv, IInv, TypeOK
<1>2. \A i \in DOMAIN batch : batch[i].sock # s
  BY DEF EInv, StreamInv, Scanning
<1>3. OfSock(s) = {} /\ ~Reported(s)
  BY <1>2 DEF OfSock, Reported
<1>4. InOrder(s)
  BY <1>1 DEF EInv, EventsInOrder
<1> HIDE DEF s
<1>5. PICK last \in LastHandled(s) .. MaxEvents :
        {batch[i].ev : i \in OfSock(s)} = LastHandled(s) + 1 .. last /\ 2 * last = pos[s]
  BY <1>1, <1>3, <1>4 DEF InOrder
<1>6. LastHandled(s) + 1 .. last = {}
  BY <1>3, <1>5
<1>7. LastHandled(s) \in Nat /\ MaxEvents \in Nat
  BY <1>1, StreamTypes DEF EInv, RInv
<1>8. last = LastHandled(s)
  <2>1. last > LastHandled(s) => LastHandled(s) + 1 \in LastHandled(s) + 1 .. last
    BY <1>7
  <2> QED
    BY <1>6, <1>7, <2>1
<1> QED
  BY <1>1, <1>2, <1>5, <1>7, <1>8 DEF s

(* A read that ends between two events.                                    *)
LEMMA WholeRead ==
    ASSUME NEW n \in Nat, NEW k \in Nat, (2 * n + k) % 2 = 0
    PROVE  /\ k \div 2 \in Nat /\ 2 * (n + k \div 2) = 2 * n + k
           /\ (2 * n) \div 2 = n
  OBVIOUS

(* Whole events that a pass reads follow those that were handed on.        *)
LEMMA EventsVisitInOrder ==
    ASSUME EInv, NEW v \in Uid, NEW k \in Halves, VisitEvents(v, k),
           NEW s \in Sock, s = queue[v]
    PROVE  InOrder(s)'
<1> DEFINE n == LastHandled(s)
           m == k \div 2
           b == Len(batch)
           items == [i \in 1 .. m |-> [uid |-> v, sock |-> s, ev |-> pos[s] \div 2 + i]]
<1>0. IInv
  BY DEF EInv, RInv
<1>1. /\ s \in Sock /\ n \in 0 .. MaxEvents /\ pos[s] = 2 * n
      /\ \A i \in DOMAIN batch : batch[i].sock # s
  BY VisitedIsAhead DEF VisitEvents
<1>2. /\ k \in Nat /\ pos[s] + k <= avail[s] /\ items \in Seq(Item)
  BY <1>0, EventItems
<1>3. (pos[s] + k) % 2 = 0 /\ Visit(v, s, items, k)
  BY DEF VisitEvents
<1>4. /\ batch' = batch \o items /\ UNCHANGED <<handled, start, queue>>
      /\ pos' = [pos EXCEPT ![s] = @ + k]
  BY <1>3 DEF Visit, regVars
<1>5. MaxEvents \in Nat /\ avail[s] <= 2 * MaxEvents /\ avail[s] \in Nat
  BY <1>0, <1>1, ConstantTypes DEF IInv, TypeOK, Halves
<1>6. m \in Nat /\ 2 * (n + m) = pos[s] + k /\ pos[s] \div 2 = n
  BY <1>1, <1>2, <1>3, <1>5, WholeRead
<1>7. n + m \in n .. MaxEvents
  BY <1>1, <1>2, <1>5, <1>6
<1>8. DOMAIN items = 1 .. m /\ \A i \in 1 .. m : items[i].sock = s /\ items[i].ev = n + i
  BY <1>6
<1>9. b \in Nat /\ DOMAIN batch = 1 .. b
  BY <1>0, StreamTypes
<1>10. LastHandled(s)' = n /\ pos'[s] = 2 * (n + m)
  <2>1. pos'[s] = pos[s] + k
    BY <1>0, <1>1, <1>4, StreamTypes
  <2> QED
    BY <1>4, <1>6, <2>1 DEF LastHandled
<1> HIDE DEF n, m, b, items
<1>11. \A i \in OfSock(s)' : i - b \in 1 .. m /\ batch'[i].ev = n + (i - b)
  BY <1>0, <1>1, <1>2, <1>4, <1>8, VisitPipe DEF OfSock, b
<1>12. \A j \in 1 .. m : j + b \in OfSock(s)' /\ batch'[j + b].ev = n + j
  <2> SUFFICES ASSUME NEW j \in 1 .. m
               PROVE  j + b \in OfSock(s)' /\ batch'[j + b].ev = n + j
    OBVIOUS
  <2>1. j + b \in DOMAIN batch' /\ batch'[j + b] = items[j]
    BY <1>0, <1>2, <1>4, <1>8, VisitPipe DEF b
  <2>2. n + j # Eof
    BY <1>1, <1>6 DEF Eof
  <2> QED
    BY <1>8, <2>1, <2>2 DEF OfSock
<1>13. \A i, j \in OfSock(s)' : i < j => batch'[i].ev < batch'[j].ev
  <2>1. OfSock(s)' \subseteq Int
    BY <1>0, <1>2, <1>4, <1>9, VisitPipe DEF OfSock
  <2> QED
    BY <1>1, <1>9, <1>11, <2>1
<1>14. {batch'[i].ev : i \in OfSock(s)'} = n + 1 .. n + m
  <2>1. ASSUME NEW i \in OfSock(s)' PROVE batch'[i].ev \in n + 1 .. n + m
    BY <1>1, <1>6, <1>11
  <2>2. ASSUME NEW e \in n + 1 .. n + m
        PROVE  \E i \in OfSock(s)' : e = batch'[i].ev
    <3>1. e - n \in 1 .. m /\ n + (e - n) = e
      BY <1>1, <1>6
    <3> QED
      BY <1>12, <3>1
  <2> QED
    BY <2>1, <2>2
<1>15. \A i \in DOMAIN handled'[s] : handled'[s][i] = start'[s] + i
  BY <1>1, <1>4 DEF EInv, EventsInOrder, InOrder
<1> QED
  BY <1>7, <1>10, <1>13, <1>14, <1>15 DEF InOrder

(* A visit that reads no whole event reports the client or reads nothing.  *)
LEMMA ReportInOrder ==
    ASSUME EInv, NEW v \in Uid, Scanning(v), NEW k \in Nat, NEW s \in Sock, s = queue[v],
           \/ Visit(v, s, <<[uid |-> v, sock |-> s, ev |-> Eof]>>, k)
           \/ Visit(v, s, <<>>, 0)
    PROVE  InOrder(s)'
<1>0. IInv /\ InOrder(s)
  BY DEF EInv, RInv, EventsInOrder
<1>1. CASE Visit(v, s, <<[uid |-> v, sock |-> s, ev |-> Eof]>>, k)
  <2> DEFINE items == <<[uid |-> v, sock |-> s, ev |-> Eof]>>
  <2>1. /\ batch' = batch \o items /\ UNCHANGED <<handled, start>>
    BY <1>1 DEF Visit, regVars
  <2>2. items \in Seq(Item) /\ DOMAIN items = {1} /\ items[1].sock = s /\ items[1].ev = Eof
    BY DEF Item
  <2> HIDE DEF items
  <2>3. OfSock(s)' = OfSock(s) /\ \A i \in OfSock(s) : batch'[i].ev = batch[i].ev
    BY <1>0, <2>1, <2>2, VisitPipe DEF OfSock
  <2>4. 1 + Len(batch) \in DOMAIN batch' /\ batch'[1 + Len(batch)] = items[1]
    BY <1>0, <2>1, <2>2, VisitPipe
  <2>5. Reported(s)'
    BY <2>2, <2>4 DEF Reported
  <2> QED
    BY <1>0, <2>1, <2>3, <2>5, SameInOrder
<1>2. CASE Visit(v, s, <<>>, 0)
  <2>1. /\ batch' = batch \o <<>> /\ UNCHANGED <<handled, start, queue>>
        /\ pos' = [pos EXCEPT ![s] = @ + 0]
    BY <1>2 DEF Visit, regVars
  <2>2. batch' = batch
    BY <1>0, <2>1, StreamTypes
  <2>3. pos'[s] = pos[s]
    BY <1>0, <2>1, StreamTypes
  <2>4. OfSock(s)' = OfSock(s) /\ (Reported(s)' <=> Reported(s)) /\ Live' = Live
    BY <2>1, <2>2 DEF OfSock, Reported, Live, Registered
  <2> QED
    BY <1>0, <2>1, <2>2, <2>3, <2>4, SameInOrder
<1> QED
  BY <1>1, <1>2

(* The data pipe after its first item was taken.                           *)
LEMMA TailPipe ==
    ASSUME IInv, batch # <<>>, batch' = Tail(batch)
    PROVE  /\ 1 \in DOMAIN batch /\ Head(batch) = batch[1]
           /\ \A i \in DOMAIN batch' : i \in Nat /\ i + 1 \in DOMAIN batch /\ i + 1 # 1
                                       /\ batch'[i] = batch[i + 1]
           /\ \A i \in DOMAIN batch : i \in Nat /\ (i # 1 => /\ i > 1 /\ i - 1 \in DOMAIN batch'
                                                             /\ batch'[i - 1] = batch[i])
<1>1. batch \in Seq(Item) /\ Len(batch) \in Nat /\ DOMAIN batch = 1 .. Len(batch)
  BY StreamTypes
<1>2. /\ Len(batch) # 0 /\ Head(batch) = batch[1]
      /\ DOMAIN batch' = 1 .. Len(batch) - 1
      /\ \A i \in 1 .. Len(batch) - 1 : batch'[i] = batch[i + 1]
  BY <1>1, HeadTailProperties, EmptySeq
<1>3. ASSUME NEW i \in DOMAIN batch, i # 1
      PROVE  i > 1 /\ i - 1 \in DOMAIN batch' /\ batch'[i - 1] = batch[i]
  <2>1. i > 1 /\ i - 1 \in 1 .. Len(batch) - 1 /\ (i - 1) + 1 = i
    BY <1>1, <1>3
  <2> QED
    BY <1>2, <2>1
<1> QED
  BY <1>1, <1>2, <1>3

(* Taking an item that is no event of s leaves s in order.                 *)
LEMMA TailInOrder ==
    ASSUME IInv, batch # <<>>, batch' = Tail(batch), NEW s \in Sock, InOrder(s),
           1 \notin OfSock(s), UNCHANGED <<handled[s], start[s], pos>>,
           s \in Live' => s \in Live /\ (batch[1].sock # s \/ batch[1].ev # Eof)
    PROVE  InOrder(s)'
<1>1. \A i \in OfSock(s)' : i \in Nat /\ i + 1 \in OfSock(s) /\ batch'[i].ev = batch[i + 1].ev
  BY TailPipe DEF OfSock
<1>2. \A i \in OfSock(s) : i - 1 \in OfSock(s)'
  BY TailPipe DEF OfSock
<1>3. ASSUME s \in Live', Reported(s) PROVE Reported(s)'
  <2>1. PICK i \in DOMAIN batch : batch[i].sock = s /\ batch[i].ev = Eof
    BY <1>3 DEF Reported
  <2>2. i - 1 \in DOMAIN batch' /\ batch'[i - 1] = batch[i]
    BY <1>3, <2>1, TailPipe
  <2> QED
    BY <2>1, <2>2 DEF Reported
<1>4. 1 \in 0 .. 1
  OBVIOUS
<1> QED
  BY <1>1, <1>2, <1>3, <1>4, ShiftInOrder

(* The first event on the data pipe is the one that follows the last that  *)
(* was handed on.                                                          *)
LEMMA HandleInOrder ==
    ASSUME IInv, batch # <<>>, batch' = Tail(batch), NEW s \in Sock, InOrder(s),
           batch[1].sock = s, batch[1].ev # Eof, UNCHANGED <<start, pos>>,
           handled' = [handled EXCEPT ![s] = Append(@, batch[1].ev)],
           s \in Live' => s \in Live
    PROVE  InOrder(s)'
<1> DEFINE n == LastHandled(s)
           e == batch[1].ev
           P == OfSock(s)
<1>1. /\ n \in Nat /\ MaxEvents \in Nat /\ Len(handled[s]) \in Nat /\ start[s] \in Nat
      /\ DOMAIN handled[s] = 1 .. Len(handled[s]) /\ handled[s] \in Seq(Events)
      /\ \A i \in P : batch[i].ev \in Nat
      /\ handled \in [Sock -> Seq(Events)] /\ n = start[s] + Len(handled[s])
  BY StreamTypes DEF OfSock, LastHandled
<1>2. 1 \in P /\ \A i \in P : i \in Nat /\ (i # 1 => i > 1)
  BY TailPipe DEF OfSock
<1>3. \A i \in P : i # 1 => e < batch[i].ev
  BY <1>2 DEF InOrder
<1>4. PICK last \in n .. MaxEvents :
        /\ {batch[i].ev : i \in P} = n + 1 .. last
        /\ s \in Live /\ ~Reported(s) => 2 * last = pos[s]
  BY DEF InOrder
<1>5. P = OfSock(s)
  OBVIOUS
<1> HIDE DEF n, e, P
<1>6. e = n + 1 /\ last >= n + 1
  <2>1. e \in n + 1 .. last /\ e = batch[1].ev
    BY <1>2, <1>4 DEF e
  <2>2. n + 1 \in n + 1 .. last
    BY <1>1, <2>1
  <2>3. PICK j \in P : batch[j].ev = n + 1
    BY <1>4, <2>2
  <2>4. j # 1 => e < n + 1
    BY <1>3, <2>3
  <2>5. e >= n + 1 /\ last >= n + 1 /\ (j = 1 => e = n + 1)
    BY <1>1, <2>1, <2>3
  <2> QED
    BY <1>1, <2>1, <2>4, <2>5
<1>7. /\ handled'[s] = Append(handled[s], e) /\ e \in Events
  <2>1. batch[1] \in Item /\ batch[1].ev \in Events \cup {Eof}
    <3>1. batch[1] \in Item
      BY StreamTypes, TailPipe
    <3> QED
      BY <3>1 DEF Item
  <2> QED
    BY <1>1, <2>1 DEF e
<1>8. /\ DOMAIN handled'[s] = 1 .. Len(handled[s]) + 1 /\ Len(handled'[s]) = Len(handled[s]) + 1
      /\ handled'[s][Len(handled[s]) + 1] = e
      /\ \A i \in 1 .. Len(handled[s]) : handled'[s][i] = handled[s][i]
  BY <1>1, <1>7, AppendProperties
<1>9. LastHandled(s)' = n + 1
  <2>1. LastHandled(s)' = start[s] + Len(handled'[s])
    BY DEF LastHandled
  <2>2. Len(handled'[s]) = Len(handled[s]) + 1 /\ Len(handled[s]) \in Nat /\ start[s] \in Nat
    BY <1>1, <1>8
  <2>3. n = start[s] + Len(handled[s])
    BY <1>1
  <2>4. start[s] + (Len(handled[s]) + 1) = n + 1
    BY <2>2, <2>3
  <2> QED
    BY <2>1, <2>2, <2>4
<1>10. \A i \in DOMAIN handled'[s] : handled'[s][i] = start'[s] + i
  <2>1. \A i \in 1 .. Len(handled[s]) : handled'[s][i] = start[s] + i
    BY <1>1, <1>8 DEF InOrder
  <2>2. handled'[s][Len(handled[s]) + 1] = start[s] + (Len(handled[s]) + 1)
    BY <1>1, <1>6, <1>8
  <2> QED
    BY <1>1, <1>8, <2>1, <2>2
<1>11. \A i \in OfSock(s)' : i \in Nat /\ i + 1 \in P /\ i + 1 # 1 /\ batch'[i].ev = batch[i + 1].ev
  BY TailPipe, <1>5 DEF OfSock
<1>12. \A i \in P : i # 1 => i - 1 \in OfSock(s)' /\ batch'[i - 1].ev = batch[i].ev
  BY TailPipe, <1>5 DEF OfSock
<1>13. \A i, j \in OfSock(s)' : i < j => batch'[i].ev < batch'[j].ev
  <2> SUFFICES ASSUME NEW i \in OfSock(s)', NEW j \in OfSock(s)', i < j
               PROVE  batch'[i].ev < batch'[j].ev
    OBVIOUS
  <2>1. i + 1 \in P /\ j + 1 \in P /\ i + 1 < j + 1
    BY <1>11
  <2> QED
    BY <1>5, <1>11, <2>1 DEF InOrder
<1>14. {batch'[i].ev : i \in OfSock(s)'} = (n + 1) + 1 .. last
  <2>1. ASSUME NEW i \in OfSock(s)' PROVE batch'[i].ev \in (n + 1) + 1 .. last
    <3>1. batch'[i].ev \in n + 1 .. last /\ e < batch'[i].ev
      BY <1>3, <1>4, <1>11
    <3>2. n \in Int /\ last \in Int /\ e = n + 1
      BY <1>1, <1>6
    <3>3. ASSUME NEW x \in n + 1 .. last, e < x PROVE x \in (n + 1) + 1 .. last
      BY <3>2, <3>3
    <3> QED
      BY <3>1, <3>3
  <2>2. ASSUME NEW x \in (n + 1) + 1 .. last
        PROVE  \E i \in OfSock(s)' : x = batch'[i].ev
    <3>1. x \in n + 1 .. last /\ x # e
      BY <1>1, <1>6
    <3>2. PICK j \in P : batch[j].ev = x
      BY <1>4, <3>1
    <3>3. j # 1
      BY <3>1, <3>2 DEF e
    <3> QED
      BY <1>12, <3>2, <3>3
  <2> QED
    BY <2>1, <2>2
<1>15. ASSUME Reported(s) PROVE Reported(s)'
  <2>1. PICK i \in DOMAIN batch : batch[i].sock = s /\ batch[i].ev = Eof
    BY <1>15 DEF Reported
  <2>2. i - 1 \in DOMAIN batch' /\ batch'[i - 1] = batch[i]
    BY <2>1, TailPipe
  <2> QED
    BY <2>1, <2>2 DEF Reported
<1>16. last \in n + 1 .. MaxEvents
  BY <1>1, <1>6
<1> QED
  BY <1>4, <1>9, <1>10, <1>13, <1>14, <1>15, <1>16 DEF InOrder

\* The actions that neither read a stream, nor handle an item, nor register.
Aside ==
    \/ Environment \/ CoreAnswer
    \/ \E i \in Slot : StartListen(i) \/ AcceptTimeout(i) \/ ReadConnectionFails(i) \/ ResetListen(i)
    \/ \E i \in Slot, s \in Sock : Accept(i, s)
    \/ StartPass \/ PassReturns
    \/ PollConnectionTimeout \/ PollDataTimeout \/ PollData \/ AskCore \/ ResubmitPass
    \/ TakeShared \/ SendShared \/ ShareDone \/ BroadcastComponentResponses \/ UNCHANGED vars

(* They leave all streams alone.                                           *)
LEMMA AsideIsAside ==
    ASSUME EInv, Aside
    PROVE  UNCHANGED <<batch, handled, start, pos, queue>>
<1> USE DEF netVars, posVars, lstVars, rxVars, regVars, coreVars, shareVars
<1>1. CASE StartPass
  BY <1>1 DEF StartPass, EInv, StreamInv
<1>2. CASE PassReturns
  BY <1>2 DEF PassReturns, EInv, RInv, IInv, PassFindsItsClients
<1> QED
  BY <1>1, <1>2 DEF Aside, Environment, Connect, Arrive, Leave, ShareFromOther, RestartReceive,
     CoreAnswer, StartListen, AcceptTimeout, ReadConnectionFails, ResetListen, Accept,
     PollConnectionTimeout, PollDataTimeout, PollData, AskCore, ResubmitPass, TakeShared,
     SendShared, ShareDone, BroadcastComponentResponses, vars

(* A socket a listen job holds is one that no pass has read.               *)
LEMMA ListenIsFresh ==
    ASSUME EInv, NEW i \in Slot, lsock[i] # NoSock
    PROVE  /\ lsock[i] \in Sock /\ ~Known(lsock[i]) /\ handled[lsock[i]] = <<>>
           /\ \A j \in DOMAIN batch : batch[j].sock # lsock[i]
<1>1. lsock[i] \in Sock
  BY SockTypes DEF EInv, RInv, SockType
<1>2. ~Known(lsock[i])
  BY <1>1 DEF EInv, RInv, IInv, ListenInv, Known, Live, Registered
<1> QED
  BY <1>1, <1>2 DEF EInv, RInv, BatchInv, StreamInv

(* The items of a visit.                                                   *)
LEMMA VisitItems ==
    ASSUME IInv, NEW v \in Uid,
           \/ VisitIdle(v) \/ VisitGone(v)
           \/ \E k \in Halves : VisitEvents(v, k) \/ VisitFragment(v, k)
    PROVE  /\ Scanning(v) /\ queue[v] \in Sock
           /\ \E items \in Seq(Item), k \in Halves :
                /\ Visit(v, queue[v], items, k)
                /\ \A i \in DOMAIN items : items[i].uid = v /\ items[i].sock = queue[v]
<1>1. Scanning(v) /\ queue[v] \in Sock /\ 0 \in Halves
  <2>1. Scanning(v)
    BY DEF VisitIdle, VisitGone, VisitEvents, VisitFragment
  <2>2. queue[v] \in Sock
    BY <2>1 DEF Scanning, IInv, TypeOK
  <2>3. 0 \in Halves
    BY ConstantTypes DEF Halves
  <2> QED
    BY <2>1, <2>2, <2>3
<1>2. CASE VisitIdle(v)
  <2>1. <<>> \in Seq(Item) /\ \A i \in DOMAIN <<>> : FALSE
    OBVIOUS
  <2>2. Visit(v, queue[v], <<>>, 0)
    BY <1>2 DEF VisitIdle
  <2> QED
    BY <1>1, <2>1, <2>2
<1>3. CASE VisitGone(v) \/ \E k \in Halves : VisitFragment(v, k)
  <2> DEFINE items == <<[uid |-> v, sock |-> queue[v], ev |-> Eof]>>
  <2>1. items \in Seq(Item) /\ \A i \in DOMAIN items : items[i].uid = v /\ items[i].sock = queue[v]
    BY <1>1 DEF Item
  <2>2. \E k \in Halves : Visit(v, queue[v], items, k)
    BY <1>1, <1>3 DEF VisitGone, VisitFragment
  <2> HIDE DEF items
  <2> QED
    BY <1>1, <2>1, <2>2
<1>4. ASSUME NEW k \in Halves, VisitEvents(v, k)
      PROVE  \E items \in Seq(Item), j \in Halves :
                /\ Visit(v, queue[v], items, j)
                /\ \A i \in DOMAIN items : items[i].uid = v /\ items[i].sock = queue[v]
  <2> DEFINE items == [i \in 1 .. k \div 2 |->
                         [uid |-> v, sock |-> queue[v], ev |-> pos[queue[v]] \div 2 + i]]
  <2>1. items \in Seq(Item)
    BY <1>4, EventItems
  <2>2. \A i \in DOMAIN items : items[i].uid = v /\ items[i].sock = queue[v]
    OBVIOUS
  <2>3. Visit(v, queue[v], items, k)
    BY <1>4 DEF VisitEvents
  <2> HIDE DEF items
  <2> QED
    BY <2>1, <2>2, <2>3
<1> QED
  BY <1>1, <1>2, <1>3, <1>4

(* Every step keeps the events of every connection in order.               *)
LEMMA EventsStep == EInv /\ [Next]_vars => EventsInOrder'
<1> SUFFICES ASSUME EInv, [Next]_vars, NEW s \in Sock PROVE InOrder(s)'
  BY DEF EventsInOrder
<1> USE DEF netVars, posVars, lstVars, rxVars, regVars, coreVars, shareVars
<1>0. /\ IInv /\ InOrder(s) /\ TypeOK'
      /\ batch \in Seq(Item) /\ SockType
  BY TypeStep, SockTypes, StreamTypes DEF EInv, RInv, EventsInOrder
<1>1. ASSUME UNCHANGED <<batch, handled[s], start[s], pos[s]>>, s \in Live' => s \in Live
      PROVE  InOrder(s)'
  <2>1. OfSock(s)' = OfSock(s) /\ (Reported(s)' <=> Reported(s))
    BY <1>1 DEF OfSock, Reported
  <2> QED
    BY <1>0, <1>1, <2>1, SameInOrder
<1>2. CASE Aside
  <2>1. UNCHANGED <<batch, handled, start, pos, queue>>
    BY <1>2, AsideIsAside
  <2> QED
    BY <1>1, <2>1 DEF Live, Registered
<1>3. ASSUME NEW i \in Slot, NEW k \in Halves, ReadConnectionData(i, k) PROVE InOrder(s)'
  <2>1. /\ UNCHANGED <<batch, handled, queue>> /\ lst[i] = "read" /\ lsock[i] # NoSock
        /\ pos' = [pos EXCEPT ![lsock[i]] = k] /\ start' = [start EXCEPT ![lsock[i]] = k \div 2]
    BY <1>0, <1>3 DEF ReadConnectionData, IInv, ListenInv
  <2>2. CASE s = lsock[i]
    <3>1. s \notin Live' /\ handled'[s] = <<>> /\ \A j \in DOMAIN batch' : batch'[j].sock # s
      BY <2>1, <2>2, ListenIsFresh DEF Known, Live, Registered
    <3> QED
      BY <1>0, <3>1, FreshInOrder
  <2>3. CASE s # lsock[i]
    <3>1. pos'[s] = pos[s] /\ start'[s] = start[s]
      BY <1>0, <2>1, <2>3, StreamTypes
    <3> QED
      BY <1>1, <2>1, <3>1 DEF Live, Registered
  <2> QED
    BY <2>2, <2>3
<1>4. CASE PollConnection
  <2>1. UNCHANGED <<batch, handled, start, pos>> /\ lst[cur] = "done" /\ cur \in Slot
    BY <1>0, <1>4 DEF PollConnection, HandleConnection, SockType
  <2>2. CASE s = lsock[cur]
    <3>1. lsock[cur] # NoSock
      BY <1>0, <2>2 DEF SockType
    <3>2. pos[s] = 2 * start[s] /\ handled'[s] = <<>> /\ \A j \in DOMAIN batch' : batch'[j].sock # s
      BY <2>1, <2>2, <3>1, ListenIsFresh DEF EInv, StreamInv
    <3> QED
      BY <1>0, <2>1, <3>2, FreshInOrder
  <2>3. CASE s # lsock[cur]
    <3>1. s \in Live' => s \in Live
      BY <1>0, <1>4, <2>3 DEF PollConnection, HandleConnection, Live, Registered, SockType
    <3> QED
      BY <1>1, <2>1, <3>1
  <2> QED
    BY <2>2, <2>3
<1>5. ASSUME NEW v \in Uid,
             \/ VisitIdle(v) \/ VisitGone(v)
             \/ \E k \in Halves : VisitEvents(v, k) \/ VisitFragment(v, k)
      PROVE  InOrder(s)'
  <2>1. CASE s # queue[v]
    <3>1. PICK items \in Seq(Item), k \in Halves :
            /\ Visit(v, queue[v], items, k)
            /\ \A i \in DOMAIN items : items[i].uid = v /\ items[i].sock = queue[v]
      BY <1>0, <1>5, VisitItems
    <3> QED
      BY <1>0, <2>1, <3>1, VisitOthers
  <2>2. CASE s = queue[v] /\ \E k \in Halves : VisitEvents(v, k)
    BY <2>2, EventsVisitInOrder
  <2>3. CASE s = queue[v] /\ (VisitIdle(v) \/ VisitGone(v) \/ \E k \in Halves : VisitFragment(v, k))
    <3>1. Scanning(v) /\ 0 \in Nat /\ Halves \subseteq Nat
      BY <2>3, ConstantTypes DEF VisitIdle, VisitGone, VisitFragment, Halves
    <3>2. \/ Visit(v, s, <<>>, 0)
          \/ \E k \in Nat : Visit(v, s, <<[uid |-> v, sock |-> s, ev |-> Eof]>>, k)
      BY <2>3, <3>1 DEF VisitIdle, VisitGone, VisitFragment
    <3> QED
      BY <2>3, <3>1, <3>2, ReportInOrder
  <2> QED
    BY <1>5, <2>1, <2>2, <2>3
<1>6. CASE HandleItem
  <2>1. batch # <<>> /\ batch' = Tail(batch) /\ UNCHANGED <<start, pos>>
    BY <1>6 DEF HandleItem
  <2>2. 1 \in DOMAIN batch /\ Head(batch) = batch[1]
    BY <1>0, <2>1, TailPipe
  <2>3. batch[1].uid \in Uid /\ batch[1].sock \in Sock /\ batch[1].uid = owner[batch[1].sock]
    BY <1>0, <2>2, StreamTypes DEF EInv, StreamInv
  <2>4. CASE batch[1].ev # Eof
    <3>1. handled' = [handled EXCEPT ![batch[1].sock] = Append(@, batch[1].ev)] /\ queue' = queue
      BY <1>6, <2>2, <2>4 DEF HandleItem
    <3>2. Live' = Live
      BY <3>1 DEF Live, Registered
    <3>3. CASE s = batch[1].sock
      BY <1>0, <2>1, <2>4, <3>1, <3>2, <3>3, HandleInOrder
    <3>4. CASE s # batch[1].sock
      <4>1. handled'[s] = handled[s] /\ 1 \notin OfSock(s)
        BY <1>0, <3>1, <3>4, StreamTypes DEF OfSock
      <4> QED
        BY <1>0, <2>1, <3>2, <3>4, <4>1, TailInOrder
    <3> QED
      BY <3>3, <3>4
  <2>5. CASE batch[1].ev = Eof
    <3>1. handled' = handled
      BY <1>6, <2>2, <2>5 DEF HandleItem, HandleDisconnection
    <3>2. 1 \notin OfSock(s)
      BY <2>5 DEF OfSock
    <3>3. queue' = [queue EXCEPT ![batch[1].uid] = NoSock] \/ (queue[batch[1].uid] = NoSock /\ queue' = queue)
      BY <1>6, <2>2, <2>5 DEF HandleItem, HandleDisconnection
    <3>4. \A x \in Uid : queue[x] # NoSock => owner[queue[x]] = x
      BY <1>0 DEF IInv, RegisteredIsLive, Registered
    <3>5. s \in Live' => s \in Live /\ batch[1].sock # s
      BY <1>0, <2>3, <3>3, <3>4 DEF Live, Registered, SockType
    <3> QED
      BY <1>0, <2>1, <3>1, <3>2, <3>5, TailInOrder
  <2> QED
    BY <2>4, <2>5
<1>7. CASE Stop
  <2>1. /\ batch' = <<>> /\ UNCHANGED <<handled, start, pos>>
        /\ queue' = [u \in Uid |-> NoSock]
    BY <1>7 DEF Stop
  <2>2. OfSock(s)' = {} /\ s \notin Live' /\ LastHandled(s)' = LastHandled(s)
    BY <2>1 DEF OfSock, Live, Registered, LastHandled
  <2>3. /\ LastHandled(s) \in LastHandled(s) .. MaxEvents
        /\ LastHandled(s) + 1 .. LastHandled(s) = {}
    <3>1. \E last \in LastHandled(s) .. MaxEvents : TRUE
      BY <1>0 DEF InOrder
    <3>2. LastHandled(s) \in Nat /\ MaxEvents \in Nat
      BY <1>0, StreamTypes
    <3> QED
      BY <3>1, <3>2
  <2> QED
    BY <1>0, <2>1, <2>2, <2>3 DEF InOrder
<1> QED
  BY <1>2, <1>3, <1>4, <1>5, <1>6, <1>7 DEF Next, Listener, Reception, MainLoop, Aside

(* What a connection was registered with, and what a pass has read of it.  *)
LEMMA StreamStep == EInv /\ [Next]_vars => StreamInv'
<1> SUFFICES ASSUME EInv, [Next]_vars PROVE StreamInv'
  OBVIOUS
<1> USE DEF netVars, posVars, lstVars, rxVars, regVars, coreVars, shareVars
<1>0. /\ IInv /\ BatchInv /\ StreamInv /\ SockType /\ ListenInv /\ RegisteredIsLive /\ PhaseInv
      /\ NoSock \notin Sock
      /\ \A s \in Sock : Known(s) => Known(s)'
  BY SockTypes, KnownStep, CotAssumption DEF EInv, RInv, IInv
<1>1. ASSUME NEW s \in Sock, ~Known(s)' PROVE handled'[s] = <<>>
  <2>1. ~Known(s) /\ handled[s] = <<>>
    BY <1>0, <1>1 DEF StreamInv
  <2>2. CASE HandleItem
    <3>1. batch # <<>> /\ batch' = Tail(batch)
      BY <2>2 DEF HandleItem
    <3>2. 1 \in DOMAIN batch /\ Head(batch) = batch[1] /\ batch[1].sock \in Sock
      BY <1>0, <3>1, TailPipe, StreamTypes
    <3>3. batch[1].sock # s
      BY <1>0, <2>1, <3>2 DEF BatchInv
    <3>4. \/ handled' = handled
          \/ handled' = [handled EXCEPT ![batch[1].sock] = Append(@, batch[1].ev)]
      BY <2>2, <3>2 DEF HandleItem, HandleDisconnection
    <3> QED
      BY <1>0, <2>1, <3>2, <3>3, <3>4, StreamTypes
  <2>3. CASE ~HandleItem
    <3>1. handled' = handled
      BY <2>3 DEF Next, vars, Environment, Connect, Arrive, Leave, ShareFromOther, RestartReceive,
         Listener, StartListen, Accept, AcceptTimeout, ReadConnectionData, ReadConnectionFails,
         Reception, StartPass, VisitIdle, VisitEvents, VisitFragment, VisitGone, Visit,
         PassReturns, MainLoop, PollConnection, HandleConnection, PollConnectionTimeout,
         ResetListen, PollDataTimeout, PollData, AskCore, ResubmitPass, TakeShared, SendShared,
         ShareDone, BroadcastComponentResponses, CoreAnswer, Stop
    <3> QED
      BY <2>1, <3>1
  <2> QED
    BY <2>2, <2>3
<1>2. ASSUME NEW i \in Slot, lst'[i] = "done", lsock'[i] # NoSock
      PROVE  pos'[lsock'[i]] = 2 * start'[lsock'[i]]
  <2>1. ASSUME lst'[i] = lst[i], lsock'[i] = lsock[i], UNCHANGED <<pos, start>>
        PROVE  pos'[lsock'[i]] = 2 * start'[lsock'[i]]
    BY <1>0, <1>2, <2>1 DEF StreamInv
  <2>2. ASSUME NEW j \in Slot, NEW k \in Halves, ReadConnectionData(j, k)
        PROVE  pos'[lsock'[i]] = 2 * start'[lsock'[i]]
    <3>1. /\ lst[j] = "read" /\ lsock[j] # NoSock /\ lsock[j] \in Sock /\ k \in Nat /\ k % 2 = 0
          /\ pos' = [pos EXCEPT ![lsock[j]] = k] /\ start' = [start EXCEPT ![lsock[j]] = k \div 2]
      BY <1>0, <2>2, ConstantTypes DEF ReadConnectionData, ListenInv, SockType, Halves
    <3>2. k = 2 * (k \div 2)
      BY <3>1
    <3>3. CASE i = j
      <4>1. lsock'[i] = lsock[j]
        BY <1>0, <1>2, <2>2, <3>3 DEF ReadConnectionData, Return, SockType
      <4>2. pos'[lsock[j]] = k /\ start'[lsock[j]] = k \div 2
        BY <1>0, <3>1, StreamTypes
      <4> QED
        BY <3>2, <4>1, <4>2
    <3>4. CASE i # j
      <4>1. lsock'[i] = lsock[i] /\ lst'[i] = lst[i]
        BY <1>0, <2>2, <3>4 DEF ReadConnectionData, Return, SockType
      <4>2. lsock[i] # lsock[j] /\ lsock[i] \in Sock
        BY <1>0, <1>2, <3>1, <3>4, <4>1 DEF ListenInv, SockType
      <4>3. pos'[lsock[i]] = pos[lsock[i]] /\ start'[lsock[i]] = start[lsock[i]]
        BY <1>0, <3>1, <4>2, StreamTypes
      <4> QED
        BY <1>0, <1>2, <4>1, <4>3 DEF StreamInv
    <3> QED
      BY <3>3, <3>4
  <2>3. ASSUME NEW v \in Uid,
               \/ VisitIdle(v) \/ VisitGone(v)
               \/ \E k \in Halves : VisitEvents(v, k) \/ VisitFragment(v, k)
        PROVE  pos'[lsock'[i]] = 2 * start'[lsock'[i]]
    <3>1. PICK items \in Seq(Item), k \in Halves :
            /\ Visit(v, queue[v], items, k)
            /\ \A x \in DOMAIN items : items[x].uid = v /\ items[x].sock = queue[v]
      BY <1>0, <2>3, VisitItems
    <3>2. UNCHANGED <<lst, lsock, start>> /\ pos' = [pos EXCEPT ![queue[v]] = @ + k]
      BY <3>1 DEF Visit
    <3>3. queue[v] # lsock[i] /\ lsock[i] \in Sock
      BY <1>0, <1>2, <3>2 DEF ListenInv, SockType
    <3>4. pos'[lsock[i]] = pos[lsock[i]]
      BY <1>0, <3>2, <3>3, StreamTypes
    <3> QED
      BY <1>0, <1>2, <3>2, <3>4 DEF StreamInv
  <2>4. ASSUME NEW j \in Slot,
               StartListen(j) \/ AcceptTimeout(j) \/ ReadConnectionFails(j) \/ ResetListen(j)
        PROVE  pos'[lsock'[i]] = 2 * start'[lsock'[i]]
    <3>1. CASE i = j
      BY <1>0, <1>2, <2>4, <3>1 DEF StartListen, AcceptTimeout, ReadConnectionFails, ResetListen,
         Return, SockType
    <3>2. CASE i # j
      BY <1>0, <2>1, <2>4, <3>2 DEF StartListen, AcceptTimeout, ReadConnectionFails, ResetListen,
         Return, SockType
    <3> QED
      BY <3>1, <3>2
  <2>5. ASSUME NEW j \in Slot, NEW s \in Sock, Accept(j, s)
        PROVE  pos'[lsock'[i]] = 2 * start'[lsock'[i]]
    BY <1>0, <1>2, <2>1, <2>5 DEF Accept, SockType
  <2>6. CASE PollConnection
    BY <1>0, <1>2, <2>1, <2>6 DEF PollConnection, SockType
  <2>7. CASE Stop
    BY <1>2, <2>7 DEF Stop
  <2>8. CASE \/ Environment \/ CoreAnswer \/ StartPass \/ PassReturns \/ HandleItem
             \/ PollConnectionTimeout \/ PollDataTimeout \/ PollData \/ AskCore \/ ResubmitPass
             \/ TakeShared \/ SendShared \/ ShareDone \/ BroadcastComponentResponses
             \/ UNCHANGED vars
    <3>1. UNCHANGED <<lst, lsock, pos, start>>
      BY <2>8 DEF Environment, Connect, Arrive, Leave, ShareFromOther, RestartReceive, CoreAnswer,
         StartPass, PassReturns, HandleItem, PollConnectionTimeout, PollDataTimeout, PollData,
         AskCore, ResubmitPass, TakeShared, SendShared, ShareDone, BroadcastComponentResponses, vars
    <3> QED
      BY <2>1, <3>1
  <2> QED
    BY <2>2, <2>3, <2>4, <2>5, <2>6, <2>7, <2>8 DEF Next, Listener, Reception, MainLoop
<1>3. ASSUME rx' \in {"queued", "failed"} \/ pc' = "info" PROVE batch' = <<>>
  <2>1. CASE HandleItem
    BY <1>0, <1>3, <2>1 DEF HandleItem, PhaseInv
  <2>2. ASSUME NEW v \in Uid,
               \/ VisitIdle(v) \/ VisitGone(v)
               \/ \E k \in Halves : VisitEvents(v, k) \/ VisitFragment(v, k)
        PROVE  FALSE
    <3>1. rx = "scan" /\ rx' = rx /\ pc' = pc
      BY <2>2 DEF VisitIdle, VisitGone, VisitEvents, VisitFragment, Visit, Scanning
    <3> QED
      BY <1>0, <1>3, <3>1 DEF PhaseInv
  <2>3. CASE PassReturns
    BY <1>0, <1>3, <2>3 DEF PassReturns, PhaseInv
  <2>4. CASE StartPass \/ Stop
    BY <2>4 DEF StartPass, Stop
  <2>5. CASE PollData \/ AskCore \/ ResubmitPass
    BY <1>0, <1>3, <2>5 DEF PollData, AskCore, ResubmitPass, StreamInv
  <2>6. CASE \/ Environment \/ CoreAnswer \/ Listener \/ \E i \in Slot : ResetListen(i)
             \/ PollConnection \/ PollConnectionTimeout \/ PollDataTimeout
             \/ TakeShared \/ SendShared \/ ShareDone \/ BroadcastComponentResponses
             \/ UNCHANGED vars
    <3>1. UNCHANGED <<rx, batch>> /\ (pc' = "info" => pc = "info")
      BY <2>6 DEF Environment, Connect, Arrive, Leave, ShareFromOther, RestartReceive, CoreAnswer,
         Listener, StartListen, Accept, AcceptTimeout, ReadConnectionData, ReadConnectionFails,
         ResetListen, PollConnection, PollConnectionTimeout, PollDataTimeout, TakeShared,
         SendShared, ShareDone, BroadcastComponentResponses, vars
    <3> QED
      BY <1>0, <1>3, <3>1 DEF StreamInv
  <2> QED
    BY <2>1, <2>2, <2>3, <2>4, <2>5, <2>6 DEF Next, Reception, MainLoop
<1>4. ASSUME NEW i \in DOMAIN batch'
      PROVE  /\ batch'[i].uid = owner'[batch'[i].sock]
             /\ rx' = "scan" => \A u \in todo' : queue'[u] # batch'[i].sock
  <2>0. /\ batch \in Seq(Item)
        /\ \A j \in DOMAIN batch : /\ batch[j].sock \in Sock /\ batch[j].uid \in Uid
                                   /\ Known(batch[j].sock)
                                   /\ batch[j].uid = owner[batch[j].sock]
                                   /\ rx = "scan" => \A u \in todo : queue[u] # batch[j].sock
    BY <1>0, StreamTypes DEF BatchInv, StreamInv
  <2>1. ASSUME NEW s \in Sock, NEW u \in Uid \cup {NoUid}, Connect(s, u)
        PROVE  /\ batch'[i].uid = owner'[batch'[i].sock]
               /\ rx' = "scan" => \A x \in todo' : queue'[x] # batch'[i].sock
    <3>1. srv[s] = "none" /\ UNCHANGED <<batch, rx, todo, queue>> /\ owner' = [owner EXCEPT ![s] = u]
      BY <1>0, <2>1 DEF Connect, IInv, NetInv
    <3>2. ~Known(s)
      BY <1>0, <3>1 DEF Known, RegisteredIsLive, Live
    <3>3. batch[i].sock # s
      BY <2>0, <3>1, <3>2
    <3> QED
      BY <1>0, <2>0, <3>1, <3>3 DEF SockType
  <2>2. CASE PollConnection
    <3>1. UNCHANGED <<batch, rx, todo, owner>> /\ cur \in Slot
      BY <1>0, <2>2 DEF PollConnection, SockType
    <3>2. CASE lsock[cur] = NoSock
      BY <2>0, <2>2, <3>1, <3>2 DEF PollConnection
    <3>3. CASE lsock[cur] # NoSock
      <4>1. batch[i].sock # lsock[cur]
        BY <3>1, <3>3, ListenIsFresh
      <4>2. queue' = queue \/ queue' = [queue EXCEPT ![owner[lsock[cur]]] = lsock[cur]]
        BY <2>2, <3>3 DEF PollConnection, HandleConnection
      <4>3. \A u \in Uid : queue'[u] = queue[u] \/ queue'[u] = lsock[cur]
        BY <1>0, <4>2 DEF SockType
      <4>4. todo \subseteq Uid
        BY <1>0 DEF IInv, TypeOK
      <4> QED
        BY <2>0, <3>1, <4>1, <4>3, <4>4
    <3> QED
      BY <3>2, <3>3
  <2>3. ASSUME NEW v \in Uid,
               \/ VisitIdle(v) \/ VisitGone(v)
               \/ \E k \in Halves : VisitEvents(v, k) \/ VisitFragment(v, k)
        PROVE  /\ batch'[i].uid = owner'[batch'[i].sock]
               /\ rx' = "scan" => \A u \in todo' : queue'[u] # batch'[i].sock
    <3>1. PICK items \in Seq(Item), k \in Halves :
            /\ Visit(v, queue[v], items, k)
            /\ \A x \in DOMAIN items : items[x].uid = v /\ items[x].sock = queue[v]
      BY <1>0, <2>3, VisitItems
    <3>2. Scanning(v) /\ queue[v] \in Sock
      BY <1>0, <2>3, VisitItems
    <3>3. /\ UNCHANGED <<owner, queue, rx>> /\ todo' = todo \ {v} /\ batch' = batch \o items
          /\ rx = "scan" /\ todo \subseteq Uid
      BY <1>0, <3>1, <3>2 DEF Visit, Scanning, IInv, TypeOK
    <3>4. \/ i \in DOMAIN batch /\ batch'[i] = batch[i]
          \/ batch'[i].uid = v /\ batch'[i].sock = queue[v]
      BY <1>0, <3>1, <3>3, VisitPipe
    <3>5. CASE i \in DOMAIN batch /\ batch'[i] = batch[i]
      BY <2>0, <3>3, <3>5
    <3>6. CASE batch'[i].uid = v /\ batch'[i].sock = queue[v]
      <4>1. owner[queue[v]] = v /\ \A u \in Uid : queue[u] = queue[v] => u = v
        BY <1>0, <3>2 DEF RegisteredIsLive, Registered
      <4> QED
        BY <3>3, <3>6, <4>1
    <3> QED
      BY <3>4, <3>5, <3>6
  <2>4. CASE HandleItem
    <3>1. /\ pc = "items" /\ batch # <<>> /\ batch' = Tail(batch) /\ UNCHANGED <<owner, rx>>
      BY <2>4 DEF HandleItem
    <3>2. i + 1 \in DOMAIN batch /\ batch'[i] = batch[i + 1]
      BY <1>0, <3>1, TailPipe
    <3>3. rx' # "scan"
      BY <1>0, <3>1 DEF PhaseInv
    <3> QED
      BY <2>0, <3>1, <3>2, <3>3
  <2>5. CASE StartPass \/ Stop
    BY <2>5 DEF StartPass, Stop
  <2>6. CASE PassReturns
    BY <2>0, <2>6 DEF PassReturns
  <2>7. CASE \/ \E s \in Sock : Arrive(s) \/ Leave(s)
             \/ ShareFromOther \/ RestartReceive \/ CoreAnswer \/ Listener
             \/ \E j \in Slot : ResetListen(j)
             \/ PollConnectionTimeout \/ PollDataTimeout \/ PollData \/ AskCore \/ ResubmitPass
             \/ TakeShared \/ SendShared \/ ShareDone \/ BroadcastComponentResponses
             \/ UNCHANGED vars
    <3>1. UNCHANGED <<owner, batch, queue, todo>> /\ (rx' = "scan" => rx = "scan")
      BY <2>7 DEF Arrive, Leave, ShareFromOther, RestartReceive, CoreAnswer,
         Listener, StartListen, Accept, AcceptTimeout, ReadConnectionData, ReadConnectionFails,
         ResetListen, PollConnectionTimeout, PollDataTimeout, PollData, AskCore, ResubmitPass,
         TakeShared, SendShared, ShareDone, BroadcastComponentResponses, vars
    <3> QED
      BY <2>0, <3>1
  <2> QED
    BY <2>1, <2>2, <2>3, <2>4, <2>5, <2>6, <2>7 DEF Next, Environment, Reception, MainLoop
<1> QED
  BY <1>1, <1>2, <1>3, <1>4 DEF StreamInv

(* Every event of a connection is handed on once and in the order sent,    *)
(* without a gap, however reads cut the stream and whatever reconnects.    *)
THEOREM EventsOrdered == Spec => []EventsInOrder
<1>1. Init => EInv
  <2> SUFFICES ASSUME Init PROVE EInv
    OBVIOUS
  <2>1. /\ batch = <<>> /\ queue = [u \in Uid |-> NoSock] /\ pc = "conn" /\ rx = "queued"
        /\ handled = [s \in Sock |-> <<>>] /\ lsock = [i \in Slot |-> NoSock]
        /\ start = [s \in Sock |-> 0]
    BY DEF Init
  <2>2. ASSUME NEW s \in Sock PROVE InOrder(s)
    <3>1. OfSock(s) = {} /\ s \notin Live /\ LastHandled(s) = 0
      BY <2>1 DEF OfSock, Live, Registered, LastHandled
    <3>2. 0 \in 0 .. MaxEvents /\ 0 + 1 .. 0 = {}
      BY ConstantTypes
    <3> QED
      BY <2>1, <3>1, <3>2 DEF InOrder
  <2>3. StreamInv /\ BatchInv
    BY <2>1 DEF StreamInv, BatchInv
  <2> QED
    BY InitInv, <2>2, <2>3 DEF EInv, RInv, EventsInOrder
<1>2. EInv /\ [Next]_vars => EInv'
  <2>1. IInv /\ [Next]_vars => IInv'
    BY TypeStep, PhaseStep, PassStep, SocketStep, NetStep DEF IInv, SockInv
  <2> QED
    BY <2>1, BatchStep, StreamStep, EventsStep DEF EInv, RInv
<1>3. EInv => EventsInOrder
  BY DEF EInv
<1> QED
  BY <1>1, <1>2, <1>3, PTL DEF Spec
=============================================================================
