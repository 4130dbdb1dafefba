-------------------------- MODULE Federation_proofs --------------------------
(***************************************************************************)
(* Proofs about a federation process, for any number of federations,       *)
(* sockets and inputs.                                                     *)
(***************************************************************************)
EXTENDS Federation, SequenceTheorems, TLAPS

\* The statements of a thread between which its socket is its own.
Setup == {"register", "hold"}
Teardown == {"close", "unregister"}

\* Local variables that are set where they are used.
LocalInv ==
    \A t \in Thread :
        /\ th[t].pc \in Setup \cup Teardown => th[t].id \in Ids /\ th[t].conn \in Conns
        /\ th[t].pc \in {"find", "delete", "inactive", "activate", "dial"} => th[t].id \in Ids

\* An entry, the selector or a thread takes socket c for the one of id.
Claims(id, c) ==
    \/ \E i \in DOMAIN federates : federates[i][1] = id /\ federates[i][2] = c
    \/ <<c, id>> \in sel
    \/ \E t \in Thread : th[t].pc \in Setup \cup Teardown /\ th[t].id = id /\ th[t].conn = c

\* A socket belongs to one id, from the moment it is connected.
OwnerInv ==
    \A c \in Conns :
        /\ \A i, j \in Ids : Claims(i, c) /\ Claims(j, c) => i = j
        /\ \A i \in Ids : Claims(i, c) => sock[c] \notin {"new", "dialing"}

\* A thread that sets up a connection is alone with it.
SetupInv ==
    \A t \in Thread : th[t].pc \in Setup =>
        /\ th[t].conn \notin Held /\ sock[th[t].conn] # "closed"
        /\ th[t].pc = "hold" => <<th[t].conn, th[t].id>> \in sel
        /\ \A u \in Thread : u # t /\ th[u].pc \in Setup \cup Teardown => th[u].conn # th[t].conn

\* A thread is about to delete the entry of this id.
Deleting(id) == \E t \in Thread : th[t].pc = "delete" /\ th[t].id = id

\* What a race in disconnect_client leaves behind is still being removed by a thread.
RaceInv ==
    \A i \in DOMAIN federates :
        LET id == federates[i][1]
            c  == federates[i][2]
        IN  /\ sock[c] = "closed" =>
                Deleting(id) \/ \E t \in Thread : th[t].pc = "unregister" /\ th[t].conn = c
            /\ c \notin Watched => Deleting(id)

\* The tables of the server while its outbound thread accepts or disconnects.
ServerInv ==
    role = "server" =>
        LET pc == th["out"].pc
            me == th["out"].id
        IN  /\ dbOk /\ rest = <<>> /\ th["in"].pc \in {"idle", "send"} /\ pc # "dead"
            /\ \A i \in DOMAIN cmds : cmds[i].op = "data"
            /\ \A i \in DOMAIN federates : federates[i][1] = federates[i][2]
            /\ \A w \in sel : w[1] = w[2]
            /\ pc \in Setup \cup Teardown => th["out"].conn = me
            /\ pc \in {"idle", "events", "body", "find", "register"} \cup Teardown =>
                HeldIds = Watched /\ HeldIds = active
            /\ pc = "register" => me \notin HeldIds
            /\ pc \in Teardown => me \in HeldIds
            /\ pc = "hold" => Watched = HeldIds \cup {me} /\ HeldIds = active /\ me \notin HeldIds
            /\ pc = "activate" => HeldIds = Watched /\ HeldIds = active \cup {me} /\ me \notin active
            /\ pc = "delete" => Watched = HeldIds \ {me} /\ HeldIds = active /\ me \in HeldIds
            /\ pc = "inactive" => Watched = HeldIds /\ active = HeldIds \cup {me} /\ me \notin HeldIds

\* The client opens its connections itself: nobody dials it.
ClientInv ==
    role = "client" => /\ \A c \in Conns : sock[c] # "dialing"
                       /\ th["out"].pc \notin {"register", "hold", "activate"}

\* Messages of the core: what was sent is older than what is sent, and that than what waits.
SendInv ==
    /\ \A c \in Conns : /\ \A i, j \in DOMAIN got[c] : i < j => got[c][i] < got[c][j]
                        /\ \A i \in DOMAIN got[c] : got[c][i] <= inputs["core"]
    /\ \A i \in DOMAIN cmds : cmds[i].op = "data" => cmds[i].n <= inputs["core"]
    /\ \A i, j \in DOMAIN cmds :
        i < j /\ cmds[i].op = "data" /\ cmds[j].op = "data" => cmds[i].n < cmds[j].n
    /\ \A c \in Conns : \A k \in DOMAIN got[c] : \A i \in DOMAIN cmds :
        cmds[i].op = "data" => got[c][k] < cmds[i].n
    /\ th["in"].pc = "send" =>
        /\ th["in"].msg \in 1 .. inputs["core"] /\ th["in"].pos >= 1
        /\ \A i \in DOMAIN cmds : cmds[i].op = "data" => th["in"].msg < cmds[i].n
        /\ \A c \in Conns : \A k \in DOMAIN got[c] : got[c][k] <= th["in"].msg
        /\ \A i \in DOMAIN federates : i >= th["in"].pos =>
            \A k \in DOMAIN got[federates[i][2]] : got[federates[i][2]][k] < th["in"].msg

\* Nothing was sent through a socket before it is held.
FreshInv ==
    /\ \A c \in Conns : sock[c] \in {"new", "dialing"} => got[c] = <<>>
    /\ \A t \in Thread : th[t].pc \in Setup => got[th[t].conn] = <<>>

\* Events of one federate are in order within a sequence, and in one before another.
Ordered(s) == \A i, j \in DOMAIN s : i < j /\ s[i].from = s[j].from => s[i].n < s[j].n
Before(s, r) == \A i \in DOMAIN s : \A j \in DOMAIN r : s[i].from = r[j].from => s[i].n < r[j].n
Known(s) == \A i \in DOMAIN s : s[i].n <= inputs["peer"]

\* Events of federates: forwarded before read in this round before still to be read.
EventInv ==
    /\ Ordered(toCore) /\ Ordered(data) /\ Before(toCore, data)
    /\ Known(toCore) /\ Known(data)
    /\ \A c \in Conns : /\ Ordered(inbuf[c]) /\ Known(inbuf[c])
                        /\ Before(toCore, inbuf[c]) /\ Before(data, inbuf[c])
                        /\ \A i \in DOMAIN inbuf[c] :
                            /\ inbuf[c][i].from = c
                            /\ inbuf[c][i].kind # "cot" => inbuf[c][i].user \in Users
    /\ th["out"].pc = "body" => th["out"].conn \in Conns /\ inbuf[th["out"].conn] # <<>>

IInv ==
    /\ TypeOK /\ LocalInv /\ OwnerInv /\ SetupInv /\ RaceInv
    /\ ServerInv /\ ClientInv /\ SendInv /\ FreshInv /\ EventInv

-----------------------------------------------------------------------------
(* The constants, and the names of threads and places.                     *)
LEMMA Names ==
    /\ Thread = {"in", "out"} /\ MaxInputs \in Nat /\ MaxOf \in [Sources -> Nat]
    /\ None \notin Conns /\ None \notin Feds
    /\ Idle \in Local /\ Idle.pc = "idle" /\ [Idle EXCEPT !.pc = "events"] \in Local
    /\ [Idle EXCEPT !.pc = "events"].pc = "events"
    /\ \A t \in Thread : Shared \subseteq Places[t]
    /\ {"send", "dial", "clear", "unlist", "disable"} \subseteq Places["in"]
    /\ {"events", "body", "dead"} \subseteq Places["out"]
BY FederationAssumption DEF Thread, Idle, Local, Places, Shared, Sources

\* What the type invariant says of the threads.
ThreadOK == th \in [Thread -> Local] /\ \A t \in Thread : th[t].pc \in Places[t]

(* The effect of a jump, and of the return of a call.                      *)
LEMMA GotoEffect ==
    ASSUME ThreadOK, NEW t \in Thread, NEW pc \in Places[t], Goto(t, pc)
    PROVE  /\ ThreadOK' /\ th'[t].pc = pc
           /\ th'[t].id = th[t].id /\ th'[t].conn = th[t].conn /\ th'[t].msg = th[t].msg
           /\ th'[t].pos = th[t].pos /\ th'[t].size = th[t].size
           /\ \A u \in Thread : u # t => th'[u] = th[u]
<1>1. th[t] \in Local /\ pc \in Places["in"] \cup Places["out"]
  BY DEF ThreadOK, Thread
<1>2. [th[t] EXCEPT !.pc = pc] \in Local
  BY <1>1 DEF Local
<1>3. th' = [th EXCEPT ![t] = [th[t] EXCEPT !.pc = pc]]
  BY DEF Goto
<1> QED
  BY <1>1, <1>2, <1>3 DEF ThreadOK, Local

(* A thread that returns to the top of its loop keeps its type.            *)
LEMMA BackEffect ==
    ASSUME ThreadOK, NEW t \in Thread, Back(t)
    PROVE  /\ ThreadOK' /\ th'[t].pc = (IF t = "in" THEN "idle" ELSE "events")
           /\ \A u \in Thread : u # t => th'[u] = th[u]
<1>1. PICK r \in Local : /\ th' = [th EXCEPT ![t] = r]
                         /\ r.pc = (IF t = "in" THEN "idle" ELSE "events")
  BY Names DEF Back
<1> QED
  BY <1>1, Names DEF ThreadOK, Shared

(* Any other change of the local variables of one thread.                  *)
LEMMA LocalEffect ==
    ASSUME ThreadOK, NEW t \in Thread, NEW r \in Local, r.pc \in Places[t],
           th' = [th EXCEPT ![t] = r]
    PROVE  ThreadOK' /\ th'[t] = r /\ \A u \in Thread : u # t => th'[u] = th[u]
BY DEF ThreadOK

(* An entry that is in the table is where IndexOf says.                    *)
LEMMA EntryOf ==
    ASSUME NEW id \in HeldIds
    PROVE  /\ IndexOf(id) \in DOMAIN federates /\ federates[IndexOf(id)][1] = id
           /\ ConnOf(id) = federates[IndexOf(id)][2]
<1>1. \E i \in DOMAIN federates : federates[i][1] = id
  BY DEF HeldIds
<1> QED
  BY <1>1 DEF IndexOf, ConnOf

(* What is left of a sequence without one of its elements.                 *)
LEMMA Removed ==
    ASSUME NEW S, NEW s \in Seq(S), NEW i \in DOMAIN s
    PROVE  /\ RemoveAt(s, i) \in Seq(S) /\ Len(RemoveAt(s, i)) = Len(s) - 1
           /\ \A j \in 1 .. Len(s) - 1 : RemoveAt(s, i)[j] = IF j < i THEN s[j] ELSE s[j + 1]
<1> DEFINE a == SubSeq(s, 1, i - 1)
           b == SubSeq(s, i + 1, Len(s))
<1>1. Len(s) \in Nat /\ i \in 1 .. Len(s) /\ \A j \in 1 .. Len(s) : s[j] \in S
  OBVIOUS
<1>2. /\ a \in Seq(S) /\ Len(a) = i - 1
      /\ \A j \in 1 .. i - 1 : a[j] = s[j]
  BY <1>1, SubSeqProperties
<1>3. /\ b \in Seq(S) /\ Len(b) = Len(s) - i
      /\ \A j \in 1 .. Len(s) - i : b[j] = s[i + j]
  BY <1>1, SubSeqProperties
<1>4. RemoveAt(s, i) = a \o b
  BY DEF RemoveAt
<1> HIDE DEF a, b
<1>5. /\ a \o b \in Seq(S) /\ Len(a \o b) = Len(s) - 1
      /\ \A j \in 1 .. Len(s) - 1 : (a \o b)[j] = IF j <= i - 1 THEN a[j] ELSE b[j - (i - 1)]
  BY <1>1, <1>2, <1>3, ConcatProperties
<1>6. ASSUME NEW j \in 1 .. Len(s) - 1
      PROVE  (a \o b)[j] = IF j < i THEN s[j] ELSE s[j + 1]
  <2>1. CASE j < i
    BY <1>1, <1>2, <1>5, <2>1
  <2>2. CASE ~(j < i)
    <3>1. PICK k \in 1 .. Len(s) - i : k = j - (i - 1) /\ i + k = j + 1
      BY <1>1, <2>2
    <3>2. (a \o b)[j] = b[k] /\ b[k] = s[j + 1]
      BY <1>1, <1>3, <1>5, <2>2, <3>1
    <3> QED
      BY <2>2, <3>2
  <2> QED
    BY <2>1, <2>2
<1> QED
  BY <1>4, <1>5, <1>6

(* The table after an entry was put or deleted: every entry is an old one  *)
(* or the new one, and no id has two.                                      *)
LEMMA PutEffect ==
    ASSUME TypeOK, NEW id \in Ids, NEW c \in Conns, Put(id, c)
    PROVE  /\ federates' \in Seq(Ids \X Conns)
           /\ \A i, j \in DOMAIN federates' : federates'[i][1] = federates'[j][1] => i = j
           /\ \A i \in DOMAIN federates' :
                \/ federates'[i] = <<id, c>>
                \/ i \in DOMAIN federates /\ federates'[i] = federates[i] /\ federates[i][1] # id
           /\ HeldIds' = HeldIds \cup {id} /\ c \in Held'
           /\ id \notin HeldIds => federates' = Append(federates, <<id, c>>)
<1>1. federates \in Seq(Ids \X Conns) /\ <<id, c>> \in Ids \X Conns
  BY DEF TypeOK
<1>2. \A i \in DOMAIN federates : federates[i] \in Ids \X Conns
  BY <1>1
<1>3. \A i, j \in DOMAIN federates : federates[i][1] = federates[j][1] => i = j
  BY DEF TypeOK
<1>4. CASE id \in HeldIds
  <2>1. federates' = [i \in DOMAIN federates |-> IF federates[i][1] = id THEN <<id, c>> ELSE federates[i]]
    BY <1>4 DEF Put
  <2>2. DOMAIN federates' = DOMAIN federates /\ DOMAIN federates = 1 .. Len(federates) /\ Len(federates) \in Nat
    BY <1>1, <2>1
  <2>3. federates' \in Seq(Ids \X Conns)
    BY <1>1, <1>2, <2>1, <2>2
  <2>4. \A i \in DOMAIN federates : federates'[i][1] = federates[i][1]
    BY <2>1, <1>1, <1>2
  <2>5. \E i \in DOMAIN federates : federates[i][1] = id
    BY <1>4 DEF HeldIds
  <2>6. HeldIds' = HeldIds
    BY <2>2, <2>4 DEF HeldIds
  <2>7. c \in Held'
    BY <2>1, <2>2, <2>5 DEF Held
  <2>8. \A i \in DOMAIN federates' :
            \/ federates'[i] = <<id, c>>
            \/ i \in DOMAIN federates /\ federates'[i] = federates[i] /\ federates[i][1] # id
    BY <2>1, <2>2
  <2>9. \A i, j \in DOMAIN federates' : federates'[i][1] = federates'[j][1] => i = j
    BY <1>3, <2>2, <2>4
  <2> QED
    BY <1>4, <2>3, <2>6, <2>7, <2>8, <2>9
<1>5. CASE id \notin HeldIds
  <2>1. federates' = Append(federates, <<id, c>>)
    BY <1>5 DEF Put
  <2>2. federates' \in Seq(Ids \X Conns) /\ DOMAIN federates' = 1 .. Len(federates) + 1
    BY <1>1, <2>1
  <2>3. /\ DOMAIN federates = 1 .. Len(federates) /\ Len(federates) \in Nat
        /\ \A i \in DOMAIN federates : federates'[i] = federates[i]
        /\ federates'[Len(federates) + 1] = <<id, c>>
    BY <1>1, <2>1
  <2>4. \A i \in DOMAIN federates : federates[i][1] # id
    BY <1>5 DEF HeldIds
  <2>5. HeldIds' = HeldIds \cup {id} /\ c \in Held'
    BY <2>2, <2>3 DEF HeldIds, Held
  <2>6. \A i \in DOMAIN federates' : i \in DOMAIN federates \/ i = Len(federates) + 1
    BY <2>2, <2>3
  <2> QED
    BY <1>3, <2>1, <2>2, <2>3, <2>4, <2>5, <2>6
<1> QED
  BY <1>4, <1>5

(* Deleting an entry keeps the others, in their order, each at its place or one earlier. *)
LEMMA DeleteEffect ==
    ASSUME TypeOK, NEW t \in Thread, DeleteEntry(t)
    PROVE  /\ federates' \in Seq(Ids \X Conns)
           /\ \A i, j \in DOMAIN federates' : federates'[i][1] = federates'[j][1] => i = j
           /\ \A i \in DOMAIN federates' : \E j \in DOMAIN federates :
                j >= i /\ federates'[i] = federates[j] /\ federates[j][1] # th[t].id
           /\ HeldIds' = HeldIds \ {th[t].id}
<1> DEFINE id == th[t].id
<1>1. /\ federates \in Seq(Ids \X Conns) /\ Len(federates) \in Nat
      /\ DOMAIN federates = 1 .. Len(federates)
  BY DEF TypeOK
<1>2. \A i, j \in DOMAIN federates : federates[i][1] = federates[j][1] => i = j
  BY DEF TypeOK
<1>3. CASE id \notin HeldIds
  <2>1. federates' = federates
    BY <1>3 DEF DeleteEntry
  <2>2. \A i \in DOMAIN federates : federates[i][1] # id
    BY <1>3 DEF HeldIds
  <2> QED
    BY <1>1, <1>2, <1>3, <2>1, <2>2 DEF HeldIds
<1>4. CASE id \in HeldIds
  <2> DEFINE k == IndexOf(id)
  <2>1. k \in DOMAIN federates /\ federates[k][1] = id
    BY <1>4, EntryOf
  <2>2. federates' = RemoveAt(federates, k)
    BY <1>4 DEF DeleteEntry
  <2> HIDE DEF k, id
  <2>3. /\ federates' \in Seq(Ids \X Conns) /\ Len(federates') = Len(federates) - 1
        /\ \A j \in 1 .. Len(federates) - 1 :
            federates'[j] = IF j < k THEN federates[j] ELSE federates[j + 1]
    BY <1>1, <2>1, <2>2, Removed
  <2>4. DOMAIN federates' = 1 .. Len(federates) - 1
    BY <2>3
  <2>5. ASSUME NEW i \in DOMAIN federates'
        PROVE  \E j \in DOMAIN federates : j = (IF i < k THEN i ELSE i + 1) /\ federates'[i] = federates[j]
    BY <1>1, <2>1, <2>3, <2>4
  <2>6. ASSUME NEW i \in DOMAIN federates'
        PROVE  \E j \in DOMAIN federates : j >= i /\ federates'[i] = federates[j] /\ federates[j][1] # id
    BY <1>1, <1>2, <2>1, <2>4, <2>5
  <2>7. ASSUME NEW j \in DOMAIN federates, federates[j][1] # id
        PROVE  \E i \in DOMAIN federates' : federates'[i] = federates[j]
    <3>1. j # k
      BY <2>1, <2>7
    <3>2. CASE j < k
      <4>1. j \in DOMAIN federates' /\ j \in 1 .. Len(federates) - 1
        BY <1>1, <2>1, <2>4, <3>2
      <4> QED
        BY <2>3, <3>2, <4>1
    <3>3. CASE j > k
      <4>1. j - 1 \in DOMAIN federates' /\ ~(j - 1 < k)
        BY <1>1, <2>1, <2>4, <3>3
      <4> QED
        BY <1>1, <2>3, <2>4, <4>1
    <3> QED
      BY <1>1, <2>1, <3>1, <3>2, <3>3
  <2>8. HeldIds' = HeldIds \ {id}
    BY <2>6, <2>7 DEF HeldIds
  <2>9. ASSUME NEW i \in DOMAIN federates', NEW j \in DOMAIN federates', federates'[i][1] = federates'[j][1]
        PROVE  i = j
    BY <1>1, <1>2, <2>1, <2>4, <2>5, <2>9
  <2> QED
    BY <2>3, <2>6, <2>8, <2>9 DEF id
<1> QED
  BY <1>3, <1>4

-----------------------------------------------------------------------------
(* The parts of the type invariant.                                        *)
TableOK ==
    /\ federates \in Seq(Ids \X Conns)
    /\ \A i, j \in DOMAIN federates : federates[i][1] = federates[j][1] => i = j
    /\ sel \subseteq Conns \X Ids /\ active \subseteq Ids /\ dbOk \in BOOLEAN
PeersOK ==
    /\ sock \in [Conns -> {"new", "dialing", "up", "gone", "closed"}]
    /\ inbuf \in [Conns -> Seq(Event)] /\ got \in [Conns -> Seq(1..MaxInputs)]
CoreOK ==
    /\ status \in [Feds -> {None, "Enabled", "Disabled", "Removed"}] /\ cmds \in Seq(Command)
    /\ rest # <<>> => rest \in Feds \X {"Enabled", "Disabled"} \X {"Enabled", "Disabled", "Removed"}
    /\ inputs \in [Sources -> 0..MaxInputs]
RoundOK ==
    /\ userDict \subseteq Users /\ toCore \in Seq(Event) /\ data \in Seq(Event)
    /\ todo \subseteq Conns \cup {None}

(* The type invariant is the conjunction of its parts, in both states of a step. *)
LEMMA TypeParts ==
    /\ TypeOK => role \in Roles /\ TableOK /\ PeersOK /\ CoreOK /\ RoundOK /\ ThreadOK
    /\ role' \in Roles /\ TableOK' /\ PeersOK' /\ CoreOK' /\ RoundOK' /\ ThreadOK' => TypeOK'
BY DEF TypeOK, TableOK, PeersOK, CoreOK, RoundOK, ThreadOK

(* A further input of a source is counted within the bounds.               *)
LEMMA InputEffect ==
    ASSUME CoreOK, NEW s \in Sources, Input(s)
    PROVE  /\ inputs' \in [Sources -> 0..MaxInputs]
           /\ inputs'[s] = inputs[s] + 1 /\ inputs'[s] \in 1..MaxInputs
           /\ \A r \in Sources : r # s => inputs'[r] = inputs[r]
<1>1. /\ inputs \in [Sources -> 0..MaxInputs] /\ MaxInputs \in Nat
      /\ inputs["rest"] \in Nat /\ inputs["core"] \in Nat /\ inputs["peer"] \in Nat
  BY Names DEF CoreOK, Sources
<1>2. inputs[s] + 1 \in 1..MaxInputs
  BY <1>1 DEF Input, Sources
<1> QED
  BY <1>1, <1>2 DEF Input

USE DEF At

(* The parts are left alone with the variables they are about.             *)
LEMMA PartsAside ==
    /\ TableOK /\ UNCHANGED table => TableOK'
    /\ PeersOK /\ UNCHANGED peers => PeersOK'
    /\ CoreOK /\ UNCHANGED core => CoreOK'
    /\ RoundOK /\ UNCHANGED round => RoundOK'
    /\ ThreadOK /\ UNCHANGED th => ThreadOK'
BY DEF TableOK, PeersOK, CoreOK, RoundOK, ThreadOK, table, peers, core, round

(* What peers, the core and the REST API do keeps the types.               *)
LEMMA EnvironmentType ==
    ASSUME IInv, Environment
    PROVE  TypeOK'
<1>0. role \in Roles /\ TableOK /\ PeersOK /\ CoreOK /\ RoundOK /\ ThreadOK
  BY TypeParts DEF IInv
<1>1. ASSUME NEW c \in Conns, Dial(c)
      PROVE  TypeOK'
  <2>1. PeersOK'
    BY <1>0, <1>1 DEF Dial, PeersOK
  <2> QED
    BY <1>0, <1>1, <2>1, TypeParts, PartsAside DEF Dial
<1>2. ASSUME NEW c \in Conns, PeerSends(c)
      PROVE  TypeOK'
  <2>1. /\ inputs' \in [Sources -> 0..MaxInputs] /\ inputs'["peer"] \in 1..MaxInputs
    BY <1>0, <1>2, InputEffect DEF PeerSends, Sources
  <2>2. PICK k \in {"join", "leave"}, u \in Users \cup {None} :
          inbuf' = [inbuf EXCEPT ![c] =
             Append(@, [from |-> c, n |-> inputs'["peer"], user |-> u, kind |-> IF u = None THEN "cot" ELSE k])]
    BY <1>2 DEF PeerSends
  <2>3. [from |-> c, n |-> inputs'["peer"], user |-> u, kind |-> IF u = None THEN "cot" ELSE k] \in Event
    BY <2>1 DEF Event
  <2>4. inbuf' \in [Conns -> Seq(Event)]
    BY <1>0, <2>2, <2>3, AppendProperties DEF PeersOK
  <2>5. PeersOK' /\ CoreOK'
    BY <1>0, <1>2, <2>1, <2>4 DEF PeersOK, CoreOK, PeerSends
  <2> QED
    BY <1>0, <1>2, <2>5, TypeParts, PartsAside DEF PeerSends
<1>3. ASSUME NEW c \in Conns, PeerLeaves(c)
      PROVE  TypeOK'
  <2>1. PeersOK'
    BY <1>0, <1>3 DEF PeerLeaves, PeersOK
  <2> QED
    BY <1>0, <1>3, <2>1, TypeParts, PartsAside DEF PeerLeaves
<1>4. CASE CoreSends
  <2>1. /\ inputs' \in [Sources -> 0..MaxInputs] /\ inputs'["core"] \in 1..MaxInputs
    BY <1>0, <1>4, InputEffect DEF CoreSends, Sources
  <2>2. PICK d \in Users \cup {None} : cmds' = Append(cmds, [op |-> "data", n |-> inputs'["core"], dest |-> d])
    BY <1>4 DEF CoreSends
  <2>3. [op |-> "data", n |-> inputs'["core"], dest |-> d] \in Command
    BY <2>1 DEF Command
  <2>4. cmds' \in Seq(Command)
    BY <1>0, <2>2, <2>3, AppendProperties DEF CoreOK
  <2>5. CoreOK'
    BY <1>0, <1>4, <2>1, <2>4 DEF CoreOK, CoreSends
  <2> QED
    BY <1>0, <1>4, <2>5, TypeParts, PartsAside DEF CoreSends
<1>5. ASSUME NEW f \in Feds, NEW s \in {"Enabled", "Disabled"}, RestPost(f, s)
      PROVE  TypeOK'
  <2>1. inputs' \in [Sources -> 0..MaxInputs]
    BY <1>0, <1>5, InputEffect DEF RestPost, CanAsk, Sources
  <2>2. [op |-> "CREATE", id |-> f] \in Command
    BY DEF Command
  <2>3. cmds' \in Seq(Command)
    BY <1>0, <1>5, <2>2, AppendProperties DEF CoreOK, RestPost
  <2>4. CoreOK'
    BY <1>0, <1>5, <2>1, <2>3 DEF CoreOK, RestPost
  <2> QED
    BY <1>0, <1>5, <2>4, TypeParts, PartsAside DEF RestPost
<1>6. ASSUME NEW f \in Feds, NEW s \in {"Enabled", "Disabled", "Removed"}, RestRead(f, s)
      PROVE  TypeOK'
  <2>1. inputs' \in [Sources -> 0..MaxInputs]
    BY <1>0, <1>6, InputEffect DEF RestRead, CanAsk, Sources
  <2>2. rest' \in Feds \X {"Enabled", "Disabled"} \X {"Enabled", "Disabled", "Removed"}
    BY <1>6 DEF RestRead, HasRow
  <2>3. CoreOK'
    BY <1>0, <1>6, <2>1, <2>2 DEF CoreOK, RestRead
  <2> QED
    BY <1>0, <1>6, <2>3, TypeParts, PartsAside DEF RestRead
<1>7. CASE RestAct
  <2> DEFINE f == rest[1]
             old == rest[2]
             new == rest[3]
  <2>1. f \in Feds /\ new \in {"Enabled", "Disabled", "Removed"}
    BY <1>0, <1>7 DEF RestAct, CoreOK
  <2>2. [op |-> "CREATE", id |-> f] \in Command /\ [op |-> "DELETE", id |-> f] \in Command
    BY <2>1 DEF Command
  <2>3. \/ cmds' = cmds \/ cmds' = Append(cmds, [op |-> "CREATE", id |-> f])
        \/ cmds' = Append(cmds, [op |-> "DELETE", id |-> f])
    BY <1>7 DEF RestAct
  <2>4. cmds' \in Seq(Command)
    <3> HIDE DEF f
    <3>1. cmds \in Seq(Command)
      BY <1>0 DEF CoreOK
    <3> QED
      BY <2>2, <2>3, <3>1
  <2>5. status' = [status EXCEPT ![f] = new] /\ rest' = <<>> /\ inputs' = inputs
    BY <1>7 DEF RestAct
  <2>6. CoreOK'
    BY <1>0, <2>1, <2>4, <2>5 DEF CoreOK
  <2> QED
    BY <1>0, <1>7, <2>6, TypeParts, PartsAside DEF RestAct
<1> QED
  BY <1>1, <1>2, <1>3, <1>4, <1>5, <1>6, <1>7 DEF Environment

(* Steps that both threads take.                                           *)
SharedStep(t) == Register(t) \/ Hold(t) \/ Activate(t) \/ Disconnect(t)

(* A step of either thread on table, selector or database keeps the types. *)
LEMMA SharedType ==
    ASSUME IInv, NEW t \in Thread, SharedStep(t)
    PROVE  TypeOK'
<1>0. role \in Roles /\ TableOK /\ PeersOK /\ CoreOK /\ RoundOK /\ ThreadOK /\ TypeOK
  BY TypeParts DEF IInv
<1>1. /\ th[t].pc \in Setup \cup Teardown => th[t].id \in Ids /\ th[t].conn \in Conns
      /\ th[t].pc \in {"find", "delete", "inactive", "activate"} => th[t].id \in Ids
  BY DEF IInv, LocalInv
<1>2. Shared \subseteq Places[t] /\ (t = "in" => {"clear", "unlist"} \subseteq Places[t])
  BY Names
<1>3. CASE Register(t)
  <2>1. TableOK'
    BY <1>0, <1>1, <1>3 DEF Register, TableOK, Setup
  <2>2. ThreadOK'
    BY <1>0, <1>2, <1>3, GotoEffect DEF Register, Shared
  <2> QED
    BY <1>0, <1>3, <2>1, <2>2, TypeParts, PartsAside DEF Register
<1>4. CASE Hold(t)
  <2>1. /\ federates' \in Seq(Ids \X Conns)
        /\ \A i, j \in DOMAIN federates' : federates'[i][1] = federates'[j][1] => i = j
    BY <1>0, <1>1, <1>4, PutEffect DEF Hold, Setup
  <2>2. TableOK'
    BY <1>0, <1>4, <2>1 DEF Hold, TableOK
  <2>3. ThreadOK'
    BY <1>0, <1>2, <1>4, GotoEffect DEF Hold, Shared
  <2> QED
    BY <1>0, <1>4, <2>2, <2>3, TypeParts, PartsAside DEF Hold
<1>5. CASE Activate(t)
  <2>1. TableOK'
    BY <1>0, <1>1, <1>5 DEF Activate, TableOK
  <2>2. ThreadOK'
    BY <1>0, <1>2, <1>5, GotoEffect, BackEffect DEF Activate, Shared
  <2> QED
    BY <1>0, <1>5, <2>1, <2>2, TypeParts, PartsAside DEF Activate
<1>6. CASE FindFederate(t)
  <2>1. ThreadOK'
    <3>1. CASE th[t].id \in HeldIds
      <4>1. ConnOf(th[t].id) \in Conns
        BY <1>0, <3>1, EntryOf DEF TableOK
      <4> DEFINE r == [th[t] EXCEPT !.pc = "close", !.conn = ConnOf(th[t].id)]
      <4>2. th' = [th EXCEPT ![t] = r]
        BY <1>6, <3>1 DEF FindFederate
      <4>3. r \in Local /\ r.pc = "close"
        BY <1>0, <4>1 DEF ThreadOK, Local, Places, Shared
      <4> HIDE DEF r
      <4> QED
        BY <1>0, <1>2, <4>2, <4>3, LocalEffect DEF Shared
    <3>2. CASE th[t].id \notin HeldIds
      BY <1>0, <1>6, <3>2, BackEffect DEF FindFederate
    <3> QED
      BY <3>1, <3>2
  <2> QED
    BY <1>0, <1>6, <2>1, TypeParts, PartsAside DEF FindFederate
<1>7. CASE CloseConn(t)
  <2>1. PeersOK'
    BY <1>0, <1>7 DEF CloseConn, PeersOK
  <2>2. ThreadOK'
    BY <1>0, <1>2, <1>7, GotoEffect DEF CloseConn, Shared
  <2> QED
    BY <1>0, <1>7, <2>1, <2>2, TypeParts, PartsAside DEF CloseConn
<1>8. CASE Unregister(t)
  <2>1. TableOK'
    BY <1>0, <1>8 DEF Unregister, TableOK
  <2>2. ThreadOK'
    BY <1>0, <1>2, <1>8, GotoEffect DEF Unregister, Shared
  <2> QED
    BY <1>0, <1>8, <2>1, <2>2, TypeParts, PartsAside DEF Unregister
<1>9. CASE DeleteEntry(t)
  <2>1. /\ federates' \in Seq(Ids \X Conns)
        /\ \A i, j \in DOMAIN federates' : federates'[i][1] = federates'[j][1] => i = j
    BY <1>0, <1>9, DeleteEffect
  <2>2. TableOK'
    BY <1>0, <1>9, <2>1 DEF DeleteEntry, TableOK
  <2>3. ThreadOK'
    BY <1>0, <1>2, <1>9, GotoEffect DEF DeleteEntry, Shared
  <2> QED
    BY <1>0, <1>9, <2>2, <2>3, TypeParts, PartsAside DEF DeleteEntry
<1>10. CASE RemoveActive(t)
  <2>1. TableOK'
    BY <1>0, <1>10 DEF RemoveActive, TableOK
  <2>2. ThreadOK'
    BY <1>0, <1>10, BackEffect DEF RemoveActive
  <2> QED
    BY <1>0, <1>10, <2>1, <2>2, TypeParts, PartsAside DEF RemoveActive
<1> QED
  BY <1>3, <1>4, <1>5, <1>6, <1>7, <1>8, <1>9, <1>10 DEF SharedStep, Disconnect

(* A command is one of two kinds.                                          *)
LEMMA CommandKinds ==
    ASSUME NEW c \in Command
    PROVE  /\ c.op \in {"CREATE", "DELETE"} => c.id \in Feds
           /\ c.op = "data" => c.n \in 1..MaxInputs
           /\ c.op \in {"CREATE", "DELETE", "data"}
BY DEF Command

(* The thread "in" takes a command.                                        *)
LEMMA TakeEffect ==
    ASSUME TypeOK, TakeCommand
    PROVE  /\ ThreadOK' /\ th'["out"] = th["out"] /\ Head(cmds) \in Command /\ Tail(cmds) \in Seq(Command)
           /\ th'["in"].conn = th["in"].conn
           /\ \/ /\ Head(cmds).op \in {"CREATE", "DELETE"} /\ th'["in"].id = Head(cmds).id
                 /\ th'["in"].pc = (IF Head(cmds).op = "CREATE" THEN "dial" ELSE "find")
              \/ /\ Head(cmds).op = "data" /\ th'["in"].pc = "send" /\ th'["in"].msg = Head(cmds).n
                 /\ th'["in"].pos = 1
              \/ Head(cmds).op = "data" /\ th' = th
<1>1. cmds \in Seq(Command) /\ cmds # <<>>
  BY DEF TypeOK, TakeCommand
<1>2. Head(cmds) \in Command /\ Tail(cmds) \in Seq(Command)
  BY <1>1
<1> DEFINE c == Head(cmds)
           r == [th["in"] EXCEPT !.pc = IF c.op = "CREATE" THEN "dial" ELSE "find", !.id = c.id]
           s == [th["in"] EXCEPT !.pc = "send", !.msg = c.n, !.pos = 1, !.size = Len(federates)]
<1>3. ThreadOK /\ th["in"] \in Local /\ "in" \in Thread
  BY Names, TypeParts DEF ThreadOK
<1>4. Len(federates) \in Nat /\ MaxInputs \in Nat
  BY Names DEF TypeOK
<1>5. c.op \in {"CREATE", "DELETE"} => r \in Local
  BY <1>2, <1>3, CommandKinds DEF Local, Places, Shared, Ids
<1>6. c.op = "data" => s \in Local
  <2>1. c.op = "data" => c.n \in 0..MaxInputs
    BY <1>2, <1>4, CommandKinds
  <2>2. "send" \in Places["in"]
    BY Names
  <2> HIDE DEF c
  <2> QED
    BY <1>3, <1>4, <2>1, <2>2 DEF Local
<1>7. \/ c.op \in {"CREATE", "DELETE"} /\ th' = [th EXCEPT !["in"] = r]
      \/ c.op = "data" /\ th' = [th EXCEPT !["in"] = s]
      \/ c.op = "data" /\ th' = th
  BY DEF TakeCommand
<1>8. /\ r.id = c.id /\ r.conn = th["in"].conn /\ r.pc = (IF c.op = "CREATE" THEN "dial" ELSE "find")
      /\ s.pc = "send" /\ s.msg = c.n /\ s.pos = 1 /\ s.conn = th["in"].conn
  BY <1>3 DEF Local
<1>9. r.pc \in Places["in"] /\ s.pc \in Places["in"]
  BY <1>8, Names DEF Shared
<1> HIDE DEF r, s
<1>10. CASE c.op \in {"CREATE", "DELETE"} /\ th' = [th EXCEPT !["in"] = r]
  <2>1. ThreadOK' /\ th'["in"] = r /\ th'["out"] = th["out"]
    BY <1>3, <1>5, <1>9, <1>10, LocalEffect, Names
  <2> QED
    BY <1>2, <1>8, <1>10, <2>1
<1>11. CASE c.op = "data" /\ th' = [th EXCEPT !["in"] = s]
  <2>1. ThreadOK' /\ th'["in"] = s /\ th'["out"] = th["out"]
    BY <1>3, <1>6, <1>9, <1>11, LocalEffect, Names
  <2> QED
    BY <1>2, <1>8, <1>11, <2>1
<1>12. CASE c.op = "data" /\ th' = th
  BY <1>2, <1>3, <1>12 DEF ThreadOK
<1> QED
  BY <1>7, <1>10, <1>11, <1>12

(* The thread "in" sends a message to the next federate, or stops.         *)
LEMMA SendEffect ==
    ASSUME TypeOK, SendNext
    PROVE  /\ ThreadOK' /\ th'["out"] = th["out"]
           /\ \/ th'["in"].pc = "idle" /\ got' = got
              \/ LET i == th["in"].pos
                     c == federates[i][2]
                 IN  /\ i \in Nat /\ i <= Len(federates)
                     /\ th'["in"].pc = "send" /\ th'["in"].msg = th["in"].msg /\ th'["in"].pos = i + 1
                     /\ \/ got' = got
                        \/ sock[c] = "up" /\ got' = [got EXCEPT ![c] = Append(@, th["in"].msg)]
<1>1. ThreadOK /\ th["in"] \in Local /\ "in" \in Thread /\ th["in"].pos \in Nat /\ th["in"].size \in Nat
  BY Names, TypeParts DEF ThreadOK, Local
<1>2. CASE Back("in") /\ UNCHANGED got
  BY <1>1, <1>2, BackEffect, Names
<1> DEFINE i == th["in"].pos
           c == federates[i][2]
           r == [th["in"] EXCEPT !.pos = i + 1]
<1>3. CASE /\ i <= th["in"].size /\ Len(federates) = th["in"].size
           /\ got' = IF sock[c] = "up" THEN [got EXCEPT ![c] = Append(@, th["in"].msg)] ELSE got
           /\ th' = [th EXCEPT !["in"].pos = i + 1]
  <2>1. r \in Local /\ r.pc = "send" /\ r.msg = th["in"].msg /\ r.pos = i + 1
    BY <1>1 DEF Local, SendNext
  <2>2. th' = [th EXCEPT !["in"] = r]
    BY <1>3
  <2> HIDE DEF r
  <2>3. ThreadOK' /\ th'["in"] = r /\ th'["out"] = th["out"]
    BY <1>1, <2>1, <2>2, LocalEffect, Names
  <2> QED
    BY <1>1, <1>3, <2>1, <2>3
<1>4. \/ Back("in") /\ UNCHANGED got
      \/ /\ i <= th["in"].size /\ Len(federates) = th["in"].size
         /\ got' = IF sock[c] = "up" THEN [got EXCEPT ![c] = Append(@, th["in"].msg)] ELSE got
         /\ th' = [th EXCEPT !["in"].pos = i + 1]
  BY <1>1 DEF SendNext
<1> QED
  BY <1>2, <1>3, <1>4

(* The thread "in" opens a connection, or fails to.                        *)
LEMMA ConnectEffect ==
    ASSUME TypeOK, Connect
    PROVE  /\ ThreadOK' /\ th'["out"] = th["out"] /\ th'["in"].id = th["in"].id
           /\ \/ th'["in"].pc = "unlist" /\ sock' = sock
              \/ /\ th'["in"].pc = "register" /\ HasRow(th["in"].id)
                 /\ \E c \in Conns : /\ sock[c] = "new" /\ sock' = [sock EXCEPT ![c] = "up"]
                                     /\ th'["in"].conn = c
<1>1. ThreadOK /\ th["in"] \in Local /\ "in" \in Thread
  BY Names, TypeParts DEF ThreadOK
<1>2. CASE Goto("in", "unlist") /\ UNCHANGED sock
  BY <1>1, <1>2, GotoEffect, Names
<1>3. ASSUME NEW c \in Conns, sock[c] = "new", sock' = [sock EXCEPT ![c] = "up"], HasRow(th["in"].id),
             th' = [th EXCEPT !["in"].pc = "register", !["in"].conn = c]
      PROVE  /\ ThreadOK' /\ th'["out"] = th["out"] /\ th'["in"].id = th["in"].id
             /\ th'["in"].pc = "register" /\ th'["in"].conn = c
  <2> DEFINE r == [th["in"] EXCEPT !.pc = "register", !.conn = c]
  <2>1. "register" \in Places["in"]
    BY Names DEF Shared
  <2>2. r \in Local /\ r.pc = "register" /\ r.conn = c /\ r.id = th["in"].id
    BY <1>1, <2>1 DEF Local
  <2>3. th' = [th EXCEPT !["in"] = r]
    BY <1>3
  <2> HIDE DEF r
  <2>4. ThreadOK' /\ th'["in"] = r /\ th'["out"] = th["out"]
    BY <1>1, <2>1, <2>2, <2>3, LocalEffect, Names
  <2> QED
    BY <2>2, <2>4
<1> QED
  BY <1>2, <1>3 DEF Connect

(* A step of inbound_data_handler keeps the types.                         *)
LEMMA InboundType ==
    ASSUME IInv, Inbound
    PROVE  TypeOK'
<1>0. /\ role \in Roles /\ TableOK /\ PeersOK /\ CoreOK /\ RoundOK /\ ThreadOK /\ TypeOK
      /\ "in" \in Thread /\ {"send", "dial", "clear", "unlist", "disable"} \subseteq Places["in"]
  BY TypeParts, Names DEF IInv
<1>1. CASE TakeCommand
  <2>1. ThreadOK' /\ cmds' \in Seq(Command)
    BY <1>0, <1>1, TakeEffect DEF TakeCommand
  <2>2. CoreOK'
    BY <1>0, <1>1, <2>1 DEF CoreOK, TakeCommand
  <2> QED
    BY <1>0, <1>1, <2>1, <2>2, TypeParts, PartsAside DEF TakeCommand
<1>2. CASE SendNext
  <2>1. th["in"].msg \in 1..MaxInputs
    <3>1. inputs["core"] \in 0..MaxInputs /\ MaxInputs \in Nat
      BY <1>0, Names DEF CoreOK, Sources
    <3>2. th["in"].msg \in 1..inputs["core"]
      BY <1>2 DEF IInv, SendInv, SendNext
    <3> QED
      BY <3>1, <3>2
  <2>2. ThreadOK'
    BY <1>0, <1>2, SendEffect
  <2>3. got' \in [Conns -> Seq(1..MaxInputs)]
    <3>1. \/ got' = got
          \/ \E c : got' = [got EXCEPT ![c] = Append(@, th["in"].msg)]
      BY <1>0, <1>2, SendEffect
    <3>2. ASSUME NEW c, got' = [got EXCEPT ![c] = Append(@, th["in"].msg)]
          PROVE  got' \in [Conns -> Seq(1..MaxInputs)]
      <4>1. c \in Conns => Append(got[c], th["in"].msg) \in Seq(1..MaxInputs)
        BY <1>0, <2>1, AppendProperties DEF PeersOK
      <4> QED
        BY <1>0, <3>2, <4>1 DEF PeersOK
    <3> QED
      BY <1>0, <3>1, <3>2 DEF PeersOK
  <2>4. PeersOK'
    BY <1>0, <1>2, <2>3 DEF PeersOK, SendNext
  <2> QED
    BY <1>0, <1>2, <2>2, <2>4, TypeParts, PartsAside DEF SendNext
<1>3. CASE Connect
  <2>1. ThreadOK' /\ sock' \in [Conns -> {"new", "dialing", "up", "gone", "closed"}]
    BY <1>0, <1>3, ConnectEffect DEF PeersOK
  <2>2. PeersOK'
    BY <1>0, <1>3, <2>1 DEF PeersOK, Connect
  <2> QED
    BY <1>0, <1>3, <2>1, <2>2, TypeParts, PartsAside DEF Connect
<1>4. CASE ClearError
  <2>1. ThreadOK'
    BY <1>0, <1>4, GotoEffect, BackEffect DEF ClearError
  <2> QED
    BY <1>0, <1>4, <2>1, TypeParts, PartsAside DEF ClearError
<1>5. CASE Unlist
  <2>1. ThreadOK'
    BY <1>0, <1>5, GotoEffect DEF Unlist
  <2>2. TableOK'
    BY <1>0, <1>5 DEF Unlist, TableOK
  <2> QED
    BY <1>0, <1>5, <2>1, <2>2, TypeParts, PartsAside DEF Unlist
<1>6. CASE Disable
  <2>1. ThreadOK'
    BY <1>0, <1>6, BackEffect DEF Disable
  <2>2. CoreOK'
    BY <1>0, <1>6 DEF Disable, CoreOK
  <2> QED
    BY <1>0, <1>6, <2>1, <2>2, TypeParts, PartsAside DEF Disable
<1>7. CASE SharedStep("in")
  BY <1>0, <1>7, SharedType
<1> QED
  BY <1>1, <1>2, <1>3, <1>4, <1>5, <1>6, <1>7 DEF Inbound, SharedStep

(* The thread "out" accepts a connection, or fails to.                     *)
LEMMA AcceptEffect ==
    ASSUME TypeOK, Accept
    PROVE  /\ ThreadOK' /\ th'["in"] = th["in"]
           /\ \E c \in Conns :
                /\ sock[c] = "dialing"
                /\ \/ /\ sock' = [sock EXCEPT ![c] = "up"]
                      /\ th'["out"].pc = "register" /\ th'["out"].conn = c /\ th'["out"].id = c
                   \/ sock' = [sock EXCEPT ![c] = "closed"] /\ th' = th
<1>1. ThreadOK /\ th["out"] \in Local /\ "out" \in Thread
  BY Names, TypeParts DEF ThreadOK
<1>2. PICK c \in Conns :
        /\ sock[c] = "dialing"
        /\ \/ /\ sock' = [sock EXCEPT ![c] = "up"]
              /\ th' = [th EXCEPT !["out"].pc = "register", !["out"].conn = c, !["out"].id = c]
           \/ sock' = [sock EXCEPT ![c] = "closed"] /\ UNCHANGED th
  BY DEF Accept
<1>3. CASE sock' = [sock EXCEPT ![c] = "closed"] /\ UNCHANGED th
  BY <1>1, <1>2, <1>3, PartsAside
<1>4. CASE /\ sock' = [sock EXCEPT ![c] = "up"]
           /\ th' = [th EXCEPT !["out"].pc = "register", !["out"].conn = c, !["out"].id = c]
  <2> DEFINE r == [th["out"] EXCEPT !.pc = "register", !.conn = c, !.id = c]
  <2>1. "register" \in Places["out"]
    BY Names DEF Shared
  <2>2. r \in Local /\ r.pc = "register" /\ r.conn = c /\ r.id = c
    BY <1>1, <2>1 DEF Local, Ids
  <2>3. th' = [th EXCEPT !["out"] = r]
    BY <1>4
  <2> HIDE DEF r
  <2>4. ThreadOK' /\ th'["out"] = r /\ th'["in"] = th["in"]
    BY <1>1, <2>1, <2>2, <2>3, LocalEffect, Names
  <2> QED
    BY <1>2, <1>4, <2>2, <2>4
<1> QED
  BY <1>2, <1>3, <1>4

(* The thread "out" reads the header of an event, or the end of the stream.*)
LEMMA HeaderEffect ==
    ASSUME TypeOK, NEW c \in Conns, ReadHeader(c)
    PROVE  /\ ThreadOK' /\ th'["in"] = th["in"]
           /\ \/ th'["out"].pc = "body" /\ th'["out"].conn = c /\ inbuf[c] # <<>>
              \/ th'["out"].pc = "find" /\ th'["out"].id \in Ids /\ <<c, th'["out"].id>> \in sel
              \/ th' = th
<1>1. ThreadOK /\ th["out"] \in Local /\ "out" \in Thread
  BY Names, TypeParts DEF ThreadOK
<1>2. CASE UNCHANGED th
  BY <1>1, <1>2, PartsAside
<1>3. CASE inbuf[c] # <<>> /\ th' = [th EXCEPT !["out"].pc = "body", !["out"].conn = c]
  <2> DEFINE r == [th["out"] EXCEPT !.pc = "body", !.conn = c]
  <2>1. "body" \in Places["out"]
    BY Names
  <2>2. r \in Local /\ r.pc = "body" /\ r.conn = c
    BY <1>1, <2>1 DEF Local
  <2>3. th' = [th EXCEPT !["out"] = r]
    BY <1>3
  <2> HIDE DEF r
  <2>4. ThreadOK' /\ th'["out"] = r /\ th'["in"] = th["in"]
    BY <1>1, <2>1, <2>2, <2>3, LocalEffect, Names
  <2> QED
    BY <1>3, <2>2, <2>4
<1>4. ASSUME NEW id \in Ids, <<c, id>> \in sel, th' = [th EXCEPT !["out"].pc = "find", !["out"].id = id]
      PROVE  ThreadOK' /\ th'["in"] = th["in"] /\ th'["out"].pc = "find" /\ th'["out"].id = id
  <2> DEFINE r == [th["out"] EXCEPT !.pc = "find", !.id = id]
  <2>1. "find" \in Places["out"]
    BY Names DEF Shared
  <2>2. r \in Local /\ r.pc = "find" /\ r.id = id
    BY <1>1, <2>1 DEF Local
  <2>3. th' = [th EXCEPT !["out"] = r]
    BY <1>4
  <2> HIDE DEF r
  <2>4. ThreadOK' /\ th'["out"] = r /\ th'["in"] = th["in"]
    BY <1>1, <2>1, <2>2, <2>3, LocalEffect, Names
  <2> QED
    BY <2>2, <2>4
<1>5. \/ UNCHANGED th
      \/ inbuf[c] # <<>> /\ th' = [th EXCEPT !["out"].pc = "body", !["out"].conn = c]
      \/ \E id \in Ids : <<c, id>> \in sel /\ th' = [th EXCEPT !["out"].pc = "find", !["out"].id = id]
  BY DEF ReadHeader
<1> QED
  BY <1>2, <1>3, <1>4, <1>5

(* The other steps of the thread "out": it stays in its round, or ends it. *)
LEMMA RoundEffect ==
    ASSUME TypeOK, Select \/ ReadBody \/ Resync \/ ReadClosed \/ Forward
    PROVE  /\ ThreadOK' /\ th'["in"] = th["in"]
           /\ th'["out"].pc \in {"idle", "events", "dead"}
           /\ th'["out"].pc = "dead" => role # "server"
<1>1. ThreadOK /\ "out" \in Thread /\ "events" \in Places["out"] /\ "dead" \in Places["out"]
  BY Names, TypeParts
<1>2. CASE Goto("out", "events") \/ Back("out")
  BY <1>1, <1>2, GotoEffect, BackEffect, Names
<1>3. CASE role # "server" /\ Goto("out", "dead")
  BY <1>1, <1>3, GotoEffect, Names
<1>4. CASE th' = [th EXCEPT !["out"] = Idle]
  <2>1. ThreadOK' /\ th'["out"] = Idle /\ th'["in"] = th["in"]
    BY <1>1, <1>4, LocalEffect, Names DEF Shared
  <2> QED
    BY <2>1, Names
<1>5. CASE UNCHANGED th /\ At("out", "events")
  BY <1>1, <1>5, PartsAside
<1> QED
  BY <1>2, <1>3, <1>4, <1>5 DEF Select, ReadBody, Resync, ReadClosed, Forward

(* A step of outbound_data_handler keeps the types.                        *)
LEMMA OutboundType ==
    ASSUME IInv, Outbound
    PROVE  TypeOK'
<1>0. /\ role \in Roles /\ TableOK /\ PeersOK /\ CoreOK /\ RoundOK /\ ThreadOK /\ TypeOK
      /\ "out" \in Thread
  BY TypeParts, Names DEF IInv
<1>1. CASE Select
  <2>1. Watched \subseteq Conns
    BY <1>0 DEF TableOK, Watched
  <2>2. todo' \subseteq Conns \cup {None}
    BY <1>1, <2>1 DEF Select, Ready
  <2>3. RoundOK'
    BY <1>0, <1>1, <2>2 DEF Select, RoundOK
  <2> QED
    BY <1>0, <1>1, <2>3, TypeParts, PartsAside, RoundEffect DEF Select
<1>2. CASE Accept
  <2>1. sock' \in [Conns -> {"new", "dialing", "up", "gone", "closed"}]
    BY <1>0, <1>2 DEF Accept, PeersOK
  <2>2. PeersOK' /\ RoundOK'
    BY <1>0, <1>2, <2>1 DEF Accept, PeersOK, RoundOK
  <2> QED
    BY <1>0, <1>2, <2>2, TypeParts, PartsAside, AcceptEffect DEF Accept
<1>3. CASE ReadBody
  <2> DEFINE c == th["out"].conn
  <2>1. c \in Conns /\ inbuf[c] # <<>> /\ inbuf[c] \in Seq(Event)
    BY <1>0, <1>3 DEF IInv, EventInv, ReadBody, PeersOK
  <2>2. Head(inbuf[c]) \in Event /\ Tail(inbuf[c]) \in Seq(Event)
    BY <2>1
  <2>3. PeersOK'
    BY <1>0, <1>3, <2>2 DEF ReadBody, PeersOK
  <2>4. data' \in Seq(Event)
    BY <1>0, <1>3, <2>2, AppendProperties DEF ReadBody, RoundOK
  <2>5. userDict' \subseteq Users
    <3>1. Head(inbuf[c]).kind = "join" => Head(inbuf[c]).user \in Users
      BY <1>3, <2>1 DEF IInv, EventInv
    <3> QED
      BY <1>0, <1>3, <3>1 DEF ReadBody, UsersAfter, RoundOK
  <2>6. RoundOK'
    BY <1>0, <1>3, <2>4, <2>5 DEF ReadBody, RoundOK
  <2> QED
    BY <1>0, <1>3, <2>3, <2>6, TypeParts, PartsAside, RoundEffect DEF ReadBody
<1>4. CASE Resync
  <2> DEFINE c == th["out"].conn
  <2>1. c \in Conns /\ inbuf[c] \in Seq(Event)
    BY <1>0, <1>4 DEF IInv, EventInv, Resync, PeersOK
  <2>2. PICK k \in 1..2 : k <= Len(inbuf[c]) /\ inbuf' = [inbuf EXCEPT ![c] = SubSeq(@, k + 1, Len(@))]
    BY <1>4 DEF Resync
  <2>3. SubSeq(inbuf[c], k + 1, Len(inbuf[c])) \in Seq(Event)
    BY <2>1, <2>2, SubSeqProperties
  <2>4. PeersOK'
    BY <1>0, <1>4, <2>2, <2>3 DEF Resync, PeersOK
  <2>5. (data' = data \/ data' = <<>>) /\ (todo' = todo \/ todo' = {})
    BY <1>4 DEF Resync
  <2>6. RoundOK'
    <3>1. userDict' = userDict /\ toCore' = toCore
      BY <1>4 DEF Resync
    <3>2. data \in Seq(Event) /\ todo \subseteq Conns \cup {None} /\ <<>> \in Seq(Event)
      BY <1>0, EmptySeq DEF RoundOK
    <3>3. data' \in Seq(Event)
      BY <2>5, <3>2
    <3> QED
      BY <1>0, <2>5, <3>1, <3>2, <3>3 DEF RoundOK
  <2> QED
    BY <1>0, <1>4, <2>4, <2>6, TypeParts, PartsAside, RoundEffect DEF Resync
<1>5. CASE ReadClosed
  BY <1>0, <1>5, TypeParts, PartsAside, RoundEffect DEF ReadClosed
<1>6. CASE Forward
  <2>1. data # <<>> => Head(data) \in Event /\ Tail(data) \in Seq(Event)
    BY <1>0 DEF RoundOK
  <2>2. RoundOK'
    <3>1. CASE data = <<>>
      BY <1>0, <1>6, <3>1 DEF Forward, RoundOK
    <3>2. CASE data # <<>>
      <4>1. toCore' \in Seq(Event)
        <5>1. toCore' = toCore \/ toCore' = Append(toCore, Head(data))
          BY <1>6, <3>2 DEF Forward
        <5>2. toCore \in Seq(Event) /\ Head(data) \in Event
          BY <1>0, <2>1, <3>2 DEF RoundOK
        <5> QED
          BY <5>1, <5>2, AppendProperties
      <4> QED
        BY <1>0, <1>6, <2>1, <3>2, <4>1 DEF Forward, RoundOK
    <3> QED
      BY <3>1, <3>2
  <2> QED
    BY <1>0, <1>6, <2>2, TypeParts, PartsAside, RoundEffect DEF Forward
<1>7. ASSUME NEW c \in Conns, ReadHeader(c)
      PROVE  TypeOK'
  <2>1. RoundOK'
    BY <1>0, <1>7 DEF ReadHeader, RoundOK
  <2> QED
    BY <1>0, <1>7, <2>1, TypeParts, PartsAside, HeaderEffect DEF ReadHeader
<1>8. CASE SharedStep("out")
  BY <1>0, <1>8, SharedType
<1> QED
  BY <1>1, <1>2, <1>3, <1>4, <1>5, <1>6, <1>7, <1>8 DEF Outbound, SharedStep

(* Every step keeps the types.                                             *)
LEMMA TypeStep == IInv /\ [Next]_vars => TypeOK'
<1>1. ASSUME IInv, UNCHANGED vars
      PROVE  TypeOK'
  BY <1>1, TypeParts, PartsAside DEF IInv, vars, table, peers, core, round
<1> QED
  BY <1>1, EnvironmentType, InboundType, OutboundType DEF Next

-----------------------------------------------------------------------------
(* Who owns a socket, and who removes what a race has left.                *)
SocketInv == LocalInv /\ OwnerInv /\ SetupInv /\ RaceInv

\* The places of a thread that the invariants on sockets speak of.
Owned == Setup \cup Teardown \cup {"delete"}

(* A step that lets no id claim another socket.                            *)
LEMMA OwnerAside ==
    ASSUME OwnerInv, \A c \in Conns : \A i \in Ids : Claims(i, c)' => Claims(i, c),
           \A c \in Conns : sock'[c] \in {"new", "dialing"} => sock[c] \in {"new", "dialing"}
    PROVE  OwnerInv'
BY DEF OwnerInv

(* A step in which no thread enters or leaves such a place, no socket that *)
(* somebody claims is closed, and the tables stay.                         *)
LEMMA QuietStep ==
    ASSUME IInv, UNCHANGED <<federates, sel>>,
           \A c \in Conns : \/ sock'[c] = sock[c]
                            \/ sock[c] = "new" /\ sock'[c] = "dialing"
                            \/ sock[c] = "up" /\ sock'[c] = "gone"
                            \/ sock[c] = "dialing" /\ sock'[c] = "closed",
           \A u \in Thread :
             \/ th'[u] = th[u]
             \/ /\ th[u].pc \notin Owned /\ th'[u].pc \notin Owned
                /\ th'[u].pc \in {"find", "inactive", "activate", "dial"} => th'[u].id \in Ids
    PROVE  SocketInv'
<1>1. LocalInv'
  BY DEF IInv, LocalInv, Owned, Setup, Teardown
<1>2. \A c \in Conns : \A i \in Ids : Claims(i, c)' => Claims(i, c)
  BY DEF Claims, Owned
<1>3. OwnerInv'
  BY <1>2, OwnerAside DEF IInv
<1>4. \A i \in DOMAIN federates : federates[i][1] \in Ids /\ federates[i][2] \in Conns
  BY DEF IInv, TypeOK
<1>5. \A c \in Held : c \in Conns /\ sock[c] \notin {"new", "dialing"}
  BY <1>4 DEF IInv, OwnerInv, Claims, Held
<1>6. \A u \in Thread : th'[u].pc \in Owned => th'[u] = th[u]
  OBVIOUS
<1>7. Held' = Held /\ Watched' = Watched
  BY DEF Held, Watched
<1>8. SetupInv'
  <2> SUFFICES ASSUME NEW t \in Thread, th'[t].pc \in Setup
               PROVE  /\ th'[t].conn \notin Held' /\ sock'[th'[t].conn] # "closed"
                      /\ th'[t].pc = "hold" => <<th'[t].conn, th'[t].id>> \in sel'
                      /\ \A u \in Thread : u # t /\ th'[u].pc \in Setup \cup Teardown => th'[u].conn # th'[t].conn
    BY DEF SetupInv
  <2>1. th'[t] = th[t] /\ th[t].id \in Ids /\ th[t].conn \in Conns /\ Claims(th[t].id, th[t].conn)
    BY <1>6 DEF Owned, IInv, LocalInv, Claims
  <2>2. sock[th[t].conn] \notin {"new", "dialing", "closed"}
    BY <2>1 DEF IInv, OwnerInv, SetupInv
  <2>3. sock'[th[t].conn] # "closed"
    BY <2>1, <2>2
  <2> QED
    BY <1>6, <1>7, <2>1, <2>3 DEF IInv, SetupInv, Owned
<1>9. RaceInv'
  <2> SUFFICES ASSUME NEW i \in DOMAIN federates
               PROVE  /\ sock'[federates[i][2]] = "closed" =>
                           \/ Deleting(federates[i][1])'
                           \/ \E t \in Thread : th'[t].pc = "unregister" /\ th'[t].conn = federates[i][2]
                      /\ federates[i][2] \notin Watched' => Deleting(federates[i][1])'
    BY DEF RaceInv
  <2>1. Deleting(federates[i][1]) => Deleting(federates[i][1])'
    BY DEF Deleting, Owned
  <2>2. sock'[federates[i][2]] = "closed" => sock[federates[i][2]] = "closed"
    BY <1>4, <1>5 DEF Held
  <2>3. \A t \in Thread : th[t].pc = "unregister" => th'[t] = th[t]
    BY DEF Owned, Teardown
  <2> QED
    BY <1>7, <2>1, <2>2, <2>3 DEF IInv, RaceInv
<1> QED
  BY <1>1, <1>3, <1>8, <1>9 DEF SocketInv

(* A thread has a new socket, which nobody claims.                         *)
LEMMA OpenSockStep ==
    ASSUME IInv, UNCHANGED <<federates, sel>>, NEW t \in Thread, NEW c \in Conns,
           sock[c] \in {"new", "dialing"}, sock' = [sock EXCEPT ![c] = "up"],
           th[t].pc \notin Owned, th'[t].pc = "register", th'[t].conn = c, th'[t].id \in Ids,
           \A u \in Thread : u # t => th'[u] = th[u]
    PROVE  SocketInv'
<1>1. LocalInv'
  BY DEF IInv, LocalInv, Setup, Teardown
<1>2. \A i \in Ids : ~Claims(i, c)
  BY DEF IInv, OwnerInv
<1>3. sock'[c] = "up" /\ \A d \in Conns : d # c => sock'[d] = sock[d]
  BY DEF IInv, TypeOK
<1>4. \A d \in Conns : \A i \in Ids : Claims(i, d)' => Claims(i, d) \/ (d = c /\ i = th'[t].id)
  BY DEF Claims, Owned
<1>5. OwnerInv'
  BY <1>2, <1>3, <1>4 DEF IInv, OwnerInv
<1>6. \A i \in DOMAIN federates : federates[i][1] \in Ids /\ federates[i][2] \in Conns
  BY DEF IInv, TypeOK
<1>7. Held' = Held /\ Watched' = Watched /\ c \notin Held
  BY <1>2, <1>6 DEF Held, Watched, Claims
<1>8. \A u \in Thread : th[u].pc \in Setup \cup Teardown => th[u].conn # c /\ th[u].conn \in Conns
  BY <1>2 DEF Claims, IInv, LocalInv
<1>9. SetupInv'
  BY <1>3, <1>7, <1>8 DEF IInv, SetupInv, Setup, Teardown
<1>10. RaceInv'
  <2> SUFFICES ASSUME NEW i \in DOMAIN federates
               PROVE  /\ sock'[federates[i][2]] = "closed" =>
                           \/ Deleting(federates[i][1])'
                           \/ \E u \in Thread : th'[u].pc = "unregister" /\ th'[u].conn = federates[i][2]
                      /\ federates[i][2] \notin Watched' => Deleting(federates[i][1])'
    BY DEF RaceInv
  <2>1. Deleting(federates[i][1]) => Deleting(federates[i][1])'
    BY DEF Deleting, Owned
  <2>2. sock'[federates[i][2]] = "closed" => sock[federates[i][2]] = "closed"
    BY <1>3, <1>6
  <2>3. \A u \in Thread : th[u].pc = "unregister" => th'[u] = th[u]
    BY DEF Owned, Teardown
  <2> QED
    BY <1>7, <2>1, <2>2, <2>3 DEF IInv, RaceInv
<1> QED
  BY <1>1, <1>5, <1>9, <1>10 DEF SocketInv

(* Setting up and disconnecting keep each socket with one id and one thread. *)
LEMMA SharedSock ==
    ASSUME IInv, NEW t \in Thread, SharedStep(t)
    PROVE  SocketInv'
<1>0. /\ ThreadOK /\ TypeOK /\ Shared \subseteq Places[t]
      /\ t = "in" => {"clear", "unlist"} \subseteq Places[t]
      /\ sock \in [Conns -> {"new", "dialing", "up", "gone", "closed"}]
  BY TypeParts, Names DEF IInv, PeersOK
<1>1. \A u \in Thread :
        /\ th[u].pc \in Setup \cup Teardown => th[u].id \in Ids /\ th[u].conn \in Conns
        /\ th[u].pc \in {"find", "delete", "inactive", "activate", "dial"} => th[u].id \in Ids
  BY DEF IInv, LocalInv
<1>2. \A i \in DOMAIN federates : federates[i] \in Ids \X Conns /\ federates[i][1] \in Ids /\ federates[i][2] \in Conns
  BY DEF IInv, TypeOK
<1>3. CASE Register(t)
  <2>1. /\ th[t].pc = "register" /\ th'[t].pc = "hold" /\ th'[t].id = th[t].id /\ th'[t].conn = th[t].conn
        /\ \A u \in Thread : u # t => th'[u] = th[u]
    BY <1>0, <1>3, GotoEffect DEF Register, Shared
  <2>2. federates' = federates /\ sock' = sock /\ sel' = sel \cup {<<th[t].conn, th[t].id>>}
    BY <1>3 DEF Register, peers
  <2>3. LocalInv'
    BY <1>1, <2>1 DEF LocalInv, Setup, Teardown
  <2>4. \A c \in Conns : \A i \in Ids : Claims(i, c)' => Claims(i, c)
    BY <2>1, <2>2 DEF Claims, Setup, Teardown
  <2>5. OwnerInv'
    BY <2>2, <2>4, OwnerAside DEF IInv
  <2>6. Held' = Held /\ Watched \subseteq Watched'
    BY <2>2 DEF Held, Watched
  <2>7. SetupInv'
    BY <2>1, <2>2, <2>6 DEF IInv, SetupInv, Setup, Teardown
  <2>8. \A id : Deleting(id) => Deleting(id)'
    BY <2>1 DEF Deleting
  <2>9. RaceInv'
    BY <2>1, <2>2, <2>6, <2>8 DEF IInv, RaceInv
  <2> QED
    BY <2>3, <2>5, <2>7, <2>9 DEF SocketInv
<1>4. CASE Hold(t)
  <2> DEFINE id == th[t].id
             c  == th[t].conn
  <2>1. /\ th[t].pc = "hold" /\ th'[t].pc = "activate" /\ th'[t].id = id /\ th'[t].conn = c
        /\ \A u \in Thread : u # t => th'[u] = th[u]
    BY <1>0, <1>4, GotoEffect DEF Hold, Shared
  <2>2. sel' = sel /\ sock' = sock /\ Put(id, c) /\ id \in Ids /\ c \in Conns
    BY <1>1, <1>4, <2>1 DEF Hold, peers, Setup
  <2> HIDE DEF id, c
  <2>3. \A i \in DOMAIN federates' :
          \/ federates'[i] = <<id, c>>
          \/ i \in DOMAIN federates /\ federates'[i] = federates[i] /\ federates[i][1] # id
    BY <1>0, <2>2, PutEffect
  <2>4. LocalInv'
    BY <1>1, <2>1, <2>2 DEF LocalInv, Setup, Teardown
  <2>5. \A d \in Conns : \A i \in Ids : Claims(i, d)' => Claims(i, d)
    <3> SUFFICES ASSUME NEW d \in Conns, NEW i \in Ids, Claims(i, d)'
                 PROVE  Claims(i, d)
      OBVIOUS
    <3>1. CASE \E k \in DOMAIN federates' : federates'[k][1] = i /\ federates'[k][2] = d
      <4>1. PICK k \in DOMAIN federates' : federates'[k][1] = i /\ federates'[k][2] = d
        BY <3>1
      <4>2. CASE federates'[k] = <<id, c>>
        BY <2>1, <4>1, <4>2 DEF Claims, Setup, id, c
      <4>3. CASE federates'[k] # <<id, c>>
        BY <2>3, <4>1, <4>3 DEF Claims
      <4> QED
        BY <4>2, <4>3
    <3>2. CASE <<d, i>> \in sel
      BY <3>2 DEF Claims
    <3>3. CASE \E u \in Thread : th'[u].pc \in Setup \cup Teardown /\ th'[u].id = i /\ th'[u].conn = d
      BY <2>1, <3>3 DEF Claims, Setup, Teardown
    <3> QED
      BY <2>2, <3>1, <3>2, <3>3 DEF Claims
  <2>6. OwnerInv'
    BY <2>2, <2>5, OwnerAside DEF IInv
  <2>7. Held' \subseteq Held \cup {c} /\ Watched' = Watched
    BY <2>2, <2>3 DEF Held, Watched
  <2>8. \A u \in Thread : u # t /\ th[u].pc \in Setup \cup Teardown => th[u].conn # c
    BY <2>1 DEF IInv, SetupInv, Setup, c
  <2>9. SetupInv'
    BY <2>1, <2>2, <2>7, <2>8 DEF IInv, SetupInv, Setup, Teardown
  <2>10. sock[c] # "closed" /\ c \in Watched
    <3>1. <<c, id>> \in sel /\ sock[c] # "closed"
      BY <2>1 DEF IInv, SetupInv, Setup, c, id
    <3> QED
      BY <3>1 DEF Watched
  <2>11. \A x : Deleting(x) => Deleting(x)'
    BY <2>1 DEF Deleting
  <2>12. RaceInv'
    <3> SUFFICES ASSUME NEW i \in DOMAIN federates'
                 PROVE  /\ sock'[federates'[i][2]] = "closed" =>
                             \/ Deleting(federates[i][1])'
                             \/ \E u \in Thread : th'[u].pc = "unregister" /\ th'[u].conn = federates'[i][2]
                        /\ federates'[i][2] \notin Watched' => Deleting(federates[i][1])'
      BY DEF RaceInv, Deleting
    <3>1. CASE federates'[i] = <<id, c>>
      BY <2>2, <2>7, <2>10, <3>1
    <3>2. CASE i \in DOMAIN federates /\ federates'[i] = federates[i]
      <4>1. /\ sock[federates[i][2]] = "closed" =>
                 \/ Deleting(federates[i][1])
                 \/ \E u \in Thread : th[u].pc = "unregister" /\ th[u].conn = federates[i][2]
            /\ federates[i][2] \notin Watched => Deleting(federates[i][1])
        BY <3>2 DEF IInv, RaceInv
      <4>2. Deleting(federates[i][1]) => Deleting(federates[i][1])'
        BY <2>1, <3>2 DEF Deleting
      <4>3. \A u \in Thread : th[u].pc = "unregister" => th'[u] = th[u]
        BY <2>1
      <4> QED
        BY <2>2, <2>7, <3>2, <4>1, <4>2, <4>3
    <3> QED
      BY <2>3, <3>1, <3>2
  <2> QED
    BY <2>4, <2>6, <2>9, <2>12 DEF SocketInv
<1>5. CASE Activate(t)
  <2>1. /\ th[t].pc = "activate" /\ th'[t].pc \in {"clear", "unlist", "idle", "events"}
        /\ \A u \in Thread : u # t => th'[u] = th[u]
    BY <1>0, <1>5, GotoEffect, BackEffect DEF Activate
  <2>2. UNCHANGED <<federates, sel, sock>>
    BY <1>5 DEF Activate, peers
  <2> QED
    BY <2>1, <2>2, QuietStep DEF Owned, Setup, Teardown
<1>6. CASE FindFederate(t) /\ th[t].id \notin HeldIds
  <2>1. /\ th[t].pc = "find" /\ th'[t].pc \in {"idle", "events"}
        /\ \A u \in Thread : u # t => th'[u] = th[u]
    BY <1>0, <1>6, BackEffect DEF FindFederate
  <2>2. UNCHANGED <<federates, sel, sock>>
    BY <1>6 DEF FindFederate, peers, table
  <2> QED
    BY <2>1, <2>2, QuietStep DEF Owned, Setup, Teardown
<1>7. CASE FindFederate(t) /\ th[t].id \in HeldIds
  <2> DEFINE id == th[t].id
             c  == ConnOf(id)
  <2>1. UNCHANGED <<federates, sel, sock>>
    BY <1>7 DEF FindFederate, peers, table
  <2>2. PICK k \in DOMAIN federates : federates[k][1] = id /\ federates[k][2] = c
    BY <1>7, EntryOf
  <2>3. /\ th[t].pc = "find" /\ th'[t].pc = "close" /\ th'[t].id = id /\ th'[t].conn = c
        /\ \A u \in Thread : u # t => th'[u] = th[u]
    <3> HIDE DEF c
    <3>1. th' = [th EXCEPT ![t].pc = "close", ![t].conn = c]
      BY <1>7 DEF FindFederate, c
    <3>2. th[t].pc = "find" /\ th[t] \in Local
      BY <1>0, <1>7 DEF FindFederate, ThreadOK
    <3> QED
      BY <1>0, <3>1, <3>2 DEF ThreadOK, Local
  <2>4. id \in Ids /\ c \in Conns /\ c \in Held
    BY <1>2, <2>2 DEF Held
  <2> HIDE DEF c, id
  <2>5. LocalInv'
    BY <1>1, <2>3, <2>4 DEF LocalInv, Setup, Teardown
  <2>6. \A d \in Conns : \A i \in Ids : Claims(i, d)' => Claims(i, d)
    BY <2>1, <2>2, <2>3 DEF Claims, Setup, Teardown
  <2>7. OwnerInv'
    BY <2>1, <2>6, OwnerAside DEF IInv
  <2>8. Held' = Held /\ Watched' = Watched
    BY <2>1 DEF Held, Watched
  <2>9. SetupInv'
    BY <2>1, <2>3, <2>4, <2>8 DEF IInv, SetupInv, Setup, Teardown
  <2>10. \A x : Deleting(x) => Deleting(x)'
    BY <2>3 DEF Deleting
  <2>11. RaceInv'
    BY <2>1, <2>3, <2>8, <2>10 DEF IInv, RaceInv
  <2> QED
    BY <2>5, <2>7, <2>9, <2>11 DEF SocketInv
<1>8. CASE CloseConn(t)
  <2> DEFINE c == th[t].conn
  <2>1. /\ th[t].pc = "close" /\ th'[t].pc = "unregister" /\ th'[t].id = th[t].id /\ th'[t].conn = c
        /\ \A u \in Thread : u # t => th'[u] = th[u]
    BY <1>0, <1>8, GotoEffect DEF CloseConn, Shared
  <2>2. UNCHANGED <<federates, sel>> /\ sock' = [sock EXCEPT ![c] = "closed"]
    BY <1>8 DEF CloseConn, table
  <2>3. c \in Conns
    BY <1>1, <2>1 DEF Teardown
  <2>4. sock'[c] = "closed" /\ \A d \in Conns : d # c => sock'[d] = sock[d]
    BY <1>0, <2>2, <2>3
  <2> HIDE DEF c
  <2>5. LocalInv'
    BY <1>1, <2>1, <2>3 DEF LocalInv, Setup, Teardown
  <2>6. \A d \in Conns : \A i \in Ids : Claims(i, d)' => Claims(i, d)
    BY <2>1, <2>2 DEF Claims, Setup, Teardown, c
  <2>7. OwnerInv'
    BY <2>4, <2>6, OwnerAside DEF IInv
  <2>8. Held' = Held /\ Watched' = Watched
    BY <2>2 DEF Held, Watched
  <2>9. \A u \in Thread : th[u].pc \in Setup => th[u].conn # c /\ th[u].conn \in Conns
    BY <1>1, <2>1 DEF IInv, SetupInv, Setup, Teardown, c
  <2>10. SetupInv'
    BY <2>1, <2>2, <2>4, <2>8, <2>9 DEF IInv, SetupInv, Setup, Teardown
  <2>11. \A x : Deleting(x) => Deleting(x)'
    BY <2>1 DEF Deleting
  <2>12. \A i \in DOMAIN federates : federates[i][2] # c => sock'[federates[i][2]] = sock[federates[i][2]]
    BY <1>2, <2>4
  <2>13. RaceInv'
    BY <2>1, <2>2, <2>4, <2>8, <2>11, <2>12 DEF IInv, RaceInv
  <2> QED
    BY <2>5, <2>7, <2>10, <2>13 DEF SocketInv
<1>9. CASE Unregister(t)
  <2> DEFINE c == th[t].conn
             id == th[t].id
  <2>1. /\ th[t].pc = "unregister" /\ th'[t].pc = (IF c \in Watched THEN "delete" ELSE "inactive")
        /\ th'[t].id = id /\ th'[t].conn = c
        /\ \A u \in Thread : u # t => th'[u] = th[u]
    BY <1>0, <1>9, GotoEffect DEF Unregister, Shared
  <2>2. UNCHANGED <<federates, sock>> /\ sel' = {w \in sel : w[1] # c}
    BY <1>9 DEF Unregister, peers
  <2>3. id \in Ids /\ c \in Conns
    BY <1>1, <2>1 DEF Teardown
  <2> HIDE DEF c, id
  <2>4. LocalInv'
    BY <1>1, <2>1, <2>3 DEF LocalInv, Setup, Teardown
  <2>5. \A d \in Conns : \A i \in Ids : Claims(i, d)' => Claims(i, d)
    BY <2>1, <2>2 DEF Claims, Setup, Teardown
  <2>6. OwnerInv'
    BY <2>2, <2>5, OwnerAside DEF IInv
  <2>7. Held' = Held /\ Watched' = Watched \ {c}
    BY <2>2 DEF Held, Watched
  <2>8. \A u \in Thread : th[u].pc \in Setup => th[u].conn # c
    BY <2>1 DEF IInv, SetupInv, Setup, Teardown, c
  <2>9. SetupInv'
    BY <2>1, <2>2, <2>7, <2>8 DEF IInv, SetupInv, Setup, Teardown
  <2>10. \A x : Deleting(x) => Deleting(x)'
    BY <2>1 DEF Deleting
  <2>11. RaceInv'
    <3> SUFFICES ASSUME NEW i \in DOMAIN federates
                 PROVE  /\ sock[federates[i][2]] = "closed" =>
                             \/ Deleting(federates[i][1])'
                             \/ \E u \in Thread : th'[u].pc = "unregister" /\ th'[u].conn = federates[i][2]
                        /\ federates[i][2] \notin Watched' => Deleting(federates[i][1])'
      BY <2>2 DEF RaceInv
    <3>1. /\ sock[federates[i][2]] = "closed" =>
               \/ Deleting(federates[i][1])
               \/ \E u \in Thread : th[u].pc = "unregister" /\ th[u].conn = federates[i][2]
          /\ federates[i][2] \notin Watched => Deleting(federates[i][1])
      BY DEF IInv, RaceInv
    <3>2. Deleting(federates[i][1]) => Deleting(federates[i][1])'
      BY <2>1, <2>2 DEF Deleting
    <3>3. CASE federates[i][2] # c
      BY <2>1, <2>7, <3>1, <3>2, <3>3 DEF c
    <3>4. CASE federates[i][2] = c /\ c \notin Watched
      BY <3>1, <3>2, <3>4
    <3>5. CASE federates[i][2] = c /\ c \in Watched
      <4>1. Claims(id, c) /\ Claims(federates[i][1], c)
        BY <2>1, <3>5 DEF Claims, Teardown, id, c
      <4>2. federates[i][1] = id
        BY <1>2, <2>3, <4>1 DEF IInv, OwnerInv
      <4>3. Deleting(federates[i][1])'
        BY <2>1, <2>2, <3>5, <4>2 DEF Deleting
      <4> QED
        BY <4>3
    <3> QED
      BY <3>3, <3>4, <3>5
  <2> QED
    BY <2>4, <2>6, <2>9, <2>11 DEF SocketInv
<1>10. CASE DeleteEntry(t)
  <2> DEFINE id == th[t].id
  <2>1. /\ th[t].pc = "delete" /\ th'[t].pc = "inactive" /\ th'[t].id = id /\ th'[t].conn = th[t].conn
        /\ \A u \in Thread : u # t => th'[u] = th[u]
    BY <1>0, <1>10, GotoEffect DEF DeleteEntry, Shared
  <2>2. UNCHANGED <<sel, sock>>
    BY <1>10 DEF DeleteEntry, peers
  <2>3. \A i \in DOMAIN federates' : \E j \in DOMAIN federates :
          federates'[i] = federates[j] /\ federates[j][1] # id
    BY <1>0, <1>10, DeleteEffect
  <2>4. LocalInv'
    BY <1>1, <2>1 DEF LocalInv, Setup, Teardown
  <2> HIDE DEF id
  <2>5. \A d \in Conns : \A i \in Ids : Claims(i, d)' => Claims(i, d)
    BY <2>1, <2>2, <2>3 DEF Claims, Setup, Teardown
  <2>6. OwnerInv'
    BY <2>2, <2>5, OwnerAside DEF IInv
  <2>7. Held' \subseteq Held /\ Watched' = Watched
    BY <2>2, <2>3 DEF Held, Watched
  <2>8. SetupInv'
    BY <2>1, <2>2, <2>7 DEF IInv, SetupInv, Setup, Teardown
  <2>9. RaceInv'
    <3> SUFFICES ASSUME NEW i \in DOMAIN federates'
                 PROVE  /\ sock[federates'[i][2]] = "closed" =>
                             \/ Deleting(federates[i][1])'
                             \/ \E u \in Thread : th'[u].pc = "unregister" /\ th'[u].conn = federates'[i][2]
                        /\ federates'[i][2] \notin Watched => Deleting(federates[i][1])'
      BY <2>2, <2>7 DEF RaceInv
    <3>1. PICK j \in DOMAIN federates : federates'[i] = federates[j] /\ federates[j][1] # id
      BY <2>3
    <3>2. /\ sock[federates[j][2]] = "closed" =>
               \/ Deleting(federates[j][1])
               \/ \E u \in Thread : th[u].pc = "unregister" /\ th[u].conn = federates[j][2]
          /\ federates[j][2] \notin Watched => Deleting(federates[j][1])
      BY DEF IInv, RaceInv
    <3>3. Deleting(federates[j][1]) => Deleting(federates[i][1])'
      BY <2>1, <3>1 DEF Deleting, id
    <3>4. \A u \in Thread : th[u].pc = "unregister" => th'[u] = th[u]
      BY <2>1
    <3> QED
      BY <3>1, <3>2, <3>3, <3>4
  <2> QED
    BY <2>4, <2>6, <2>8, <2>9 DEF SocketInv
<1>11. CASE RemoveActive(t)
  <2>1. /\ th[t].pc = "inactive" /\ th'[t].pc \in {"idle", "events"}
        /\ \A u \in Thread : u # t => th'[u] = th[u]
    BY <1>0, <1>11, BackEffect DEF RemoveActive
  <2>2. UNCHANGED <<federates, sel, sock>>
    BY <1>11 DEF RemoveActive, peers
  <2> QED
    BY <2>1, <2>2, QuietStep DEF Owned, Setup, Teardown
<1> QED
  BY <1>3, <1>4, <1>5, <1>6, <1>7, <1>8, <1>9, <1>10, <1>11 DEF SharedStep, Disconnect

(* Every step keeps the invariants on sockets and their owners.            *)
LEMMA SocketStep ==
    ASSUME IInv, [Next]_vars
    PROVE  SocketInv'
<1>0. /\ ThreadOK /\ TypeOK /\ "in" \in Thread /\ "out" \in Thread /\ Thread = {"in", "out"}
      /\ sock \in [Conns -> {"new", "dialing", "up", "gone", "closed"}]
      /\ {"send", "dial", "clear", "unlist", "disable"} \subseteq Places["in"]
  BY TypeParts, Names DEF IInv, PeersOK
<1>1. CASE UNCHANGED vars
  BY <1>1, QuietStep DEF vars
<1>2. CASE Environment
  <2>1. UNCHANGED <<federates, sel, th>>
    BY <1>2 DEF Environment, Dial, PeerSends, PeerLeaves, CoreSends, RestPost, RestRead, RestAct, table
  <2>2. \A c \in Conns : \/ sock'[c] = sock[c]
                         \/ sock[c] = "new" /\ sock'[c] = "dialing"
                         \/ sock[c] = "up" /\ sock'[c] = "gone"
    <3>1. \/ sock' = sock
          \/ \E d \in Conns : sock[d] = "new" /\ sock' = [sock EXCEPT ![d] = "dialing"]
          \/ \E d \in Conns : sock[d] = "up" /\ sock' = [sock EXCEPT ![d] = "gone"]
      BY <1>2 DEF Environment, Dial, PeerSends, PeerLeaves, CoreSends, RestPost, RestRead, RestAct, peers
    <3> QED
      BY <1>0, <3>1
  <2> QED
    BY <2>1, <2>2, QuietStep
<1>3. CASE SharedStep("in") \/ SharedStep("out")
  BY <1>0, <1>3, SharedSock
<1>4. CASE TakeCommand
  <2>1. /\ th'["out"] = th["out"]
        /\ \/ th'["in"] = th["in"]
           \/ th'["in"].pc = "send"
           \/ th'["in"].pc \in {"dial", "find"} /\ th'["in"].id \in Feds
    BY <1>0, <1>4, TakeEffect, CommandKinds
  <2>2. UNCHANGED <<federates, sel, sock>> /\ th["in"].pc = "idle"
    BY <1>4 DEF TakeCommand, table, peers
  <2> QED
    BY <1>0, <2>1, <2>2, QuietStep DEF Owned, Setup, Teardown, Ids
<1>5. CASE SendNext
  <2>1. th["in"].pc = "send" /\ th'["out"] = th["out"] /\ th'["in"].pc \in {"idle", "send"}
    BY <1>0, <1>5, SendEffect DEF SendNext
  <2>2. UNCHANGED <<federates, sel, sock>>
    BY <1>5 DEF SendNext, table
  <2> QED
    BY <1>0, <2>1, <2>2, QuietStep DEF Owned, Setup, Teardown
<1>6. CASE Connect
  <2>1. UNCHANGED <<federates, sel>> /\ th["in"].pc = "dial"
    BY <1>6 DEF Connect, table
  <2>2. CASE th'["in"].pc = "unlist" /\ sock' = sock
    <3>1. th'["out"] = th["out"]
      BY <1>0, <1>6, ConnectEffect
    <3> QED
      BY <1>0, <2>1, <2>2, <3>1, QuietStep DEF Owned, Setup, Teardown
  <2>3. CASE th'["in"].pc = "register"
    <3>1. /\ th'["out"] = th["out"] /\ th'["in"].id = th["in"].id
          /\ \E c \in Conns : sock[c] = "new" /\ sock' = [sock EXCEPT ![c] = "up"] /\ th'["in"].conn = c
      BY <1>0, <1>6, <2>3, ConnectEffect
    <3>2. th["in"].id \in Ids
      BY <2>1 DEF IInv, LocalInv, Thread
    <3> QED
      BY <1>0, <2>1, <2>3, <3>1, <3>2, OpenSockStep DEF Owned, Setup, Teardown
  <2> QED
    BY <1>0, <1>6, <2>2, <2>3, ConnectEffect
<1>7. CASE ClearError \/ Unlist \/ Disable
  <2>1. /\ th["in"].pc \in {"clear", "unlist", "disable"} /\ th'["out"] = th["out"]
        /\ th'["in"].pc \in {"idle", "unlist", "disable"}
    BY <1>0, <1>7, GotoEffect, BackEffect DEF ClearError, Unlist, Disable
  <2>2. UNCHANGED <<federates, sel, sock>>
    BY <1>7 DEF ClearError, Unlist, Disable, table, peers
  <2> QED
    BY <1>0, <2>1, <2>2, QuietStep DEF Owned, Setup, Teardown
<1>8. CASE Select \/ ReadBody \/ Resync \/ ReadClosed \/ Forward
  <2>1. /\ th["out"].pc \in {"idle", "body", "events"} /\ th'["in"] = th["in"]
        /\ th'["out"].pc \in {"idle", "events", "dead"}
    BY <1>0, <1>8, RoundEffect DEF Select, ReadBody, Resync, ReadClosed, Forward
  <2>2. UNCHANGED <<federates, sel, sock>>
    BY <1>8 DEF Select, ReadBody, Resync, ReadClosed, Forward, table, peers
  <2> QED
    BY <1>0, <2>1, <2>2, QuietStep DEF Owned, Setup, Teardown
<1>9. ASSUME NEW c \in Conns, ReadHeader(c)
      PROVE  SocketInv'
  <2>1. /\ th'["in"] = th["in"]
        /\ \/ th'["out"] = th["out"]
           \/ th'["out"].pc = "body"
           \/ th'["out"].pc = "find" /\ th'["out"].id \in Ids
    BY <1>0, <1>9, HeaderEffect
  <2>2. UNCHANGED <<federates, sel, sock>> /\ th["out"].pc = "events"
    BY <1>9 DEF ReadHeader, table, peers
  <2> QED
    BY <1>0, <2>1, <2>2, QuietStep DEF Owned, Setup, Teardown
<1>10. CASE Accept
  <2>1. UNCHANGED <<federates, sel>> /\ th["out"].pc = "events"
    BY <1>10 DEF Accept, table
  <2>2. PICK c \in Conns :
          /\ sock[c] = "dialing"
          /\ \/ /\ sock' = [sock EXCEPT ![c] = "up"]
                /\ th'["out"].pc = "register" /\ th'["out"].conn = c /\ th'["out"].id = c
             \/ sock' = [sock EXCEPT ![c] = "closed"] /\ th' = th
    BY <1>0, <1>10, AcceptEffect
  <2>3. CASE sock' = [sock EXCEPT ![c] = "closed"] /\ th' = th
    BY <1>0, <2>1, <2>2, <2>3, QuietStep
  <2>4. CASE /\ sock' = [sock EXCEPT ![c] = "up"]
             /\ th'["out"].pc = "register" /\ th'["out"].conn = c /\ th'["out"].id = c
    <3>1. th'["in"] = th["in"]
      BY <1>0, <1>10, AcceptEffect
    <3> QED
      BY <1>0, <2>1, <2>2, <2>4, <3>1, OpenSockStep DEF Owned, Setup, Teardown, Ids
  <2> QED
    BY <2>2, <2>3, <2>4
<1> QED
  BY <1>1, <1>2, <1>3, <1>4, <1>5, <1>6, <1>7, <1>8, <1>9, <1>10
     DEF Next, Inbound, Outbound, SharedStep

-----------------------------------------------------------------------------
(* The tables of the server.                                               *)

\* The places at which the outbound thread is not in the middle of a change.
Calm == {"idle", "events", "body", "find"}

(* A step of the server that leaves its tables alone keeps them in agreement. *)
LEMMA ServerAside ==
    ASSUME IInv, role = "server", UNCHANGED <<role, federates, sel, active, dbOk, rest>>,
           \A i \in DOMAIN cmds' : cmds'[i].op = "data", th'["in"].pc \in {"idle", "send"},
           th'["out"] = th["out"] \/ (th["out"].pc \in Calm /\ th'["out"].pc \in Calm)
    PROVE  ServerInv'
<1>1. HeldIds' = HeldIds /\ Watched' = Watched
  BY DEF HeldIds, Watched
<1>2. CASE th'["out"] = th["out"]
  BY <1>1, <1>2 DEF IInv, ServerInv
<1>3. CASE th["out"].pc \in Calm /\ th'["out"].pc \in Calm
  BY <1>1, <1>3 DEF IInv, ServerInv, Calm, Setup, Teardown
<1> QED
  BY <1>2, <1>3

(* Each step of setting up and of disconnecting moves the server's tables on by one. *)
LEMMA ServerShared ==
    ASSUME IInv, role = "server", SharedStep("out")
    PROVE  ServerInv'
<1> DEFINE me == th["out"].id
<1>0. /\ ThreadOK /\ TypeOK /\ "out" \in Thread /\ Shared \subseteq Places["out"] /\ Thread = {"in", "out"}
  BY TypeParts, Names DEF IInv
<1>1. /\ th["out"].pc \in Setup \cup Teardown => me \in Ids /\ th["out"].conn \in Conns
      /\ th["out"].pc \in {"find", "delete", "inactive", "activate"} => me \in Ids
  BY <1>0 DEF IInv, LocalInv
<1>2. /\ dbOk /\ rest = <<>> /\ th["in"].pc \in {"idle", "send"}
      /\ \A i \in DOMAIN cmds : cmds[i].op = "data"
      /\ \A i \in DOMAIN federates : federates[i][1] = federates[i][2]
      /\ \A w \in sel : w[1] = w[2]
  BY DEF IInv, ServerInv
<1>3. role' = role /\ UNCHANGED <<rest, cmds>>
  BY DEF SharedStep, Disconnect, Register, Hold, Activate, FindFederate, CloseConn, Unregister,
         DeleteEntry, RemoveActive, core
<1>4. ASSUME federates' = federates
      PROVE  HeldIds' = HeldIds /\ \A i \in DOMAIN federates' : federates'[i][1] = federates'[i][2]
  BY <1>2, <1>4 DEF HeldIds
<1>5. ASSUME sel' = sel
      PROVE  Watched' = Watched /\ \A w \in sel' : w[1] = w[2]
  BY <1>2, <1>5 DEF Watched
<1>6. CASE Register("out")
  <2>1. /\ th["out"].pc = "register" /\ th'["out"].pc = "hold" /\ th'["out"].id = me
        /\ th'["out"].conn = th["out"].conn /\ th'["in"] = th["in"]
    BY <1>0, <1>6, GotoEffect DEF Register, Shared
  <2>2. UNCHANGED <<federates, active, dbOk>> /\ sel' = sel \cup {<<th["out"].conn, me>>}
    BY <1>6 DEF Register
  <2>3. th["out"].conn = me /\ HeldIds = Watched /\ HeldIds = active /\ me \notin HeldIds
    BY <2>1 DEF IInv, ServerInv, Setup
  <2>4. Watched' = Watched \cup {me} /\ \A w \in sel' : w[1] = w[2]
    <3> HIDE DEF me
    <3>1. sel' = sel \cup {<<me, me>>} /\ <<me, me>>[1] = me /\ <<me, me>>[2] = me
      BY <2>2, <2>3
    <3>2. Watched' = Watched \cup {me}
      BY <3>1 DEF Watched
    <3> QED
      BY <1>2, <3>1, <3>2
  <2>5. HeldIds' = HeldIds /\ \A i \in DOMAIN federates' : federates'[i][1] = federates'[i][2]
    BY <1>4, <2>2
  <2>6. /\ Watched' = HeldIds' \cup {me} /\ HeldIds' = active' /\ me \notin HeldIds'
        /\ dbOk' /\ rest' = <<>> /\ cmds' = cmds
    BY <1>2, <1>3, <2>2, <2>3, <2>4, <2>5
  <2> HIDE DEF me
  <2> QED
    BY <1>2, <2>1, <2>3, <2>4, <2>5, <2>6 DEF ServerInv, Setup, Teardown
<1>7. CASE Hold("out")
  <2>1. /\ th["out"].pc = "hold" /\ th'["out"].pc = "activate" /\ th'["out"].id = me
        /\ th'["in"] = th["in"]
    BY <1>0, <1>7, GotoEffect DEF Hold, Shared
  <2>2. UNCHANGED <<sel, active, dbOk>> /\ Put(me, th["out"].conn)
    BY <1>7 DEF Hold
  <2>3. th["out"].conn = me /\ Watched = HeldIds \cup {me} /\ HeldIds = active /\ me \notin HeldIds
    BY <2>1 DEF IInv, ServerInv, Setup
  <2>4. me \in Ids /\ me \in Conns
    BY <1>1, <2>1, <2>3 DEF Setup
  <2> HIDE DEF me
  <2>5. /\ HeldIds' = HeldIds \cup {me}
        /\ \A i \in DOMAIN federates' :
             federates'[i] = <<me, me>> \/ (i \in DOMAIN federates /\ federates'[i] = federates[i])
    BY <1>0, <2>2, <2>3, <2>4, PutEffect
  <2>6. \A i \in DOMAIN federates' : federates'[i][1] = federates'[i][2]
    BY <1>2, <2>5
  <2> QED
    BY <1>2, <1>3, <1>5, <2>1, <2>2, <2>3, <2>5, <2>6 DEF ServerInv, Setup, Teardown
<1>8. CASE Activate("out")
  <2>1. th["out"].pc = "activate" /\ UNCHANGED <<federates, sel>>
    BY <1>8 DEF Activate
  <2>2. HeldIds = Watched /\ HeldIds = active \cup {me} /\ me \notin active
    BY <2>1 DEF IInv, ServerInv
  <2>3. active' = active \cup {me} /\ dbOk' = dbOk /\ Back("out")
    BY <1>2, <1>8, <2>2 DEF Activate
  <2>4. th'["out"].pc = "events" /\ th'["in"] = th["in"]
    BY <1>0, <2>3, BackEffect
  <2> QED
    BY <1>2, <1>3, <1>4, <1>5, <2>1, <2>2, <2>3, <2>4 DEF ServerInv, Setup, Teardown
<1>9. CASE FindFederate("out")
  <2>1. th["out"].pc = "find" /\ UNCHANGED <<federates, sel, active, dbOk>>
    BY <1>9 DEF FindFederate, table
  <2>2. HeldIds = Watched /\ HeldIds = active
    BY <2>1 DEF IInv, ServerInv
  <2>3. CASE me \notin HeldIds
    <3>1. th'["out"].pc = "events" /\ th'["in"] = th["in"]
      BY <1>0, <1>9, <2>3, BackEffect DEF FindFederate
    <3> QED
      BY <1>2, <1>3, <1>4, <1>5, <2>1, <2>2, <3>1 DEF ServerInv, Setup, Teardown
  <2>4. CASE me \in HeldIds
    <3>1. ConnOf(me) = me
      BY <1>2, <2>4, EntryOf
    <3>2. th' = [th EXCEPT !["out"].pc = "close", !["out"].conn = me]
      BY <1>9, <2>4, <3>1 DEF FindFederate
    <3>3. th'["out"].pc = "close" /\ th'["out"].id = me /\ th'["out"].conn = me /\ th'["in"] = th["in"]
      BY <1>0, <3>2 DEF ThreadOK, Local
    <3> QED
      BY <1>2, <1>3, <1>4, <1>5, <2>1, <2>2, <2>4, <3>3 DEF ServerInv, Setup, Teardown
  <2> QED
    BY <2>3, <2>4
<1>10. CASE CloseConn("out")
  <2>1. /\ th["out"].pc = "close" /\ th'["out"].pc = "unregister" /\ th'["out"].id = me
        /\ th'["out"].conn = th["out"].conn /\ th'["in"] = th["in"]
    BY <1>0, <1>10, GotoEffect DEF CloseConn, Shared
  <2>2. UNCHANGED <<federates, sel, active, dbOk>>
    BY <1>10 DEF CloseConn, table
  <2>3. th["out"].conn = me /\ HeldIds = Watched /\ HeldIds = active /\ me \in HeldIds
    BY <2>1 DEF IInv, ServerInv, Teardown
  <2> QED
    BY <1>2, <1>3, <1>4, <1>5, <2>1, <2>2, <2>3 DEF ServerInv, Setup, Teardown
<1>11. CASE Unregister("out")
  <2>1. th["out"].pc = "unregister" /\ UNCHANGED <<federates, active, dbOk>>
    BY <1>11 DEF Unregister
  <2>2. th["out"].conn = me /\ HeldIds = Watched /\ HeldIds = active /\ me \in HeldIds
    BY <2>1 DEF IInv, ServerInv, Teardown
  <2>3. sel' = {w \in sel : w[1] # me} /\ Goto("out", "delete")
    BY <1>11, <2>2 DEF Unregister
  <2>4. th'["out"].pc = "delete" /\ th'["out"].id = me /\ th'["in"] = th["in"]
    BY <1>0, <2>3, GotoEffect DEF Shared
  <2>5. Watched' = Watched \ {me} /\ \A w \in sel' : w[1] = w[2]
    <3> HIDE DEF me
    <3>1. Watched' = Watched \ {me}
      BY <2>3 DEF Watched
    <3> QED
      BY <1>2, <2>3, <3>1
  <2>6. HeldIds' = HeldIds /\ \A i \in DOMAIN federates' : federates'[i][1] = federates'[i][2]
    BY <1>4, <2>1
  <2>7. /\ Watched' = HeldIds' \ {me} /\ HeldIds' = active' /\ me \in HeldIds'
        /\ dbOk' /\ rest' = <<>> /\ cmds' = cmds
    BY <1>2, <1>3, <2>1, <2>2, <2>5, <2>6
  <2> HIDE DEF me
  <2> QED
    BY <1>2, <2>4, <2>5, <2>6, <2>7 DEF ServerInv, Setup, Teardown
<1>12. CASE DeleteEntry("out")
  <2>1. /\ th["out"].pc = "delete" /\ th'["out"].pc = "inactive" /\ th'["out"].id = me
        /\ th'["in"] = th["in"]
    BY <1>0, <1>12, GotoEffect DEF DeleteEntry, Shared
  <2>2. UNCHANGED <<sel, active, dbOk>>
    BY <1>12 DEF DeleteEntry
  <2>3. Watched = HeldIds \ {me} /\ HeldIds = active /\ me \in HeldIds
    BY <2>1 DEF IInv, ServerInv
  <2>4. /\ HeldIds' = HeldIds \ {me}
        /\ \A i \in DOMAIN federates' : \E j \in DOMAIN federates : federates'[i] = federates[j]
    BY <1>0, <1>12, DeleteEffect
  <2>5. \A i \in DOMAIN federates' : federates'[i][1] = federates'[i][2]
    BY <1>2, <2>4
  <2> QED
    BY <1>2, <1>3, <1>5, <2>1, <2>2, <2>3, <2>4, <2>5 DEF ServerInv, Setup, Teardown
<1>13. CASE RemoveActive("out")
  <2>1. th["out"].pc = "inactive" /\ UNCHANGED <<federates, sel, dbOk>> /\ active' = active \ {me}
    BY <1>2, <1>13 DEF RemoveActive
  <2>2. Watched = HeldIds /\ active = HeldIds \cup {me} /\ me \notin HeldIds
    BY <2>1 DEF IInv, ServerInv
  <2>3. th'["out"].pc = "events" /\ th'["in"] = th["in"]
    BY <1>0, <1>13, BackEffect DEF RemoveActive
  <2> QED
    BY <1>2, <1>3, <1>4, <1>5, <2>1, <2>2, <2>3 DEF ServerInv, Setup, Teardown
<1> QED
  BY <1>6, <1>7, <1>8, <1>9, <1>10, <1>11, <1>12, <1>13 DEF SharedStep, Disconnect

(* Every step keeps what the place of the outbound thread says of the server's tables. *)
LEMMA ServerStep ==
    ASSUME IInv, [Next]_vars
    PROVE  ServerInv'
<1>0. /\ ThreadOK /\ TypeOK /\ "in" \in Thread /\ "out" \in Thread /\ Thread = {"in", "out"}
  BY TypeParts, Names DEF IInv
<1> SUFFICES ASSUME role' = "server"
             PROVE  ServerInv'
  BY DEF ServerInv
<1>1. role = "server" /\ role' = role
  BY DEF Next, vars, Environment, Inbound, Outbound, Disconnect, Dial, PeerSends, PeerLeaves, CoreSends,
         RestPost, RestRead, RestAct, TakeCommand, SendNext, Connect, ClearError, Unlist, Disable,
         Register, Hold, Activate, FindFederate, CloseConn, Unregister, DeleteEntry, RemoveActive,
         Select, Accept, ReadBody, Resync, ReadClosed, Forward, ReadHeader
<1>2. /\ dbOk /\ rest = <<>> /\ th["in"].pc \in {"idle", "send"}
      /\ \A i \in DOMAIN cmds : cmds[i].op = "data"
      /\ \A i \in DOMAIN federates : federates[i][1] = federates[i][2]
      /\ \A w \in sel : w[1] = w[2]
  BY <1>1 DEF IInv, ServerInv
<1>3. CASE UNCHANGED vars
  <2>1. UNCHANGED <<role, federates, sel, active, dbOk, rest, cmds, th>>
    BY <1>3 DEF vars
  <2> QED
    BY <1>1, <1>2, <2>1, ServerAside
<1>4. CASE Environment
  <2>1. UNCHANGED <<role, federates, sel, active, dbOk, th>>
    BY <1>4 DEF Environment, Dial, PeerSends, PeerLeaves, CoreSends, RestPost, RestRead, RestAct, table
  <2>2. /\ rest' = rest
        /\ cmds' = cmds \/ \E d : cmds' = Append(cmds, [op |-> "data", n |-> inputs'["core"], dest |-> d])
    BY <1>1, <1>2, <1>4 DEF Environment, Dial, PeerSends, PeerLeaves, CoreSends, RestPost, RestRead, RestAct, core, CanAsk
  <2>3. cmds \in Seq(Command)
    BY <1>0 DEF TypeOK
  <2>4. ASSUME NEW d, cmds' = Append(cmds, [op |-> "data", n |-> inputs'["core"], dest |-> d])
        PROVE  \A i \in DOMAIN cmds' : cmds'[i].op = "data"
    <3> DEFINE r == [op |-> "data", n |-> inputs'["core"], dest |-> d]
    <3>1. r.op = "data" /\ cmds' = Append(cmds, r)
      BY <2>4
    <3> HIDE DEF r
    <3> QED
      BY <1>2, <2>3, <3>1
  <2>5. \A i \in DOMAIN cmds' : cmds'[i].op = "data"
    BY <1>2, <2>2, <2>4
  <2> QED
    BY <1>1, <1>2, <2>1, <2>2, <2>5, ServerAside
<1>5. CASE TakeCommand
  <2>1. UNCHANGED <<role, federates, sel, active, dbOk, rest>>
    BY <1>5 DEF TakeCommand, table
  <2>2. cmds \in Seq(Command) /\ cmds # <<>> /\ cmds' = Tail(cmds)
    BY <1>0, <1>5 DEF TakeCommand, TypeOK
  <2>3. Head(cmds).op = "data" /\ \A i \in DOMAIN cmds' : cmds'[i].op = "data"
    BY <1>2, <2>2
  <2>4. th'["out"] = th["out"] /\ th'["in"].pc \in {"idle", "send"}
    BY <1>0, <1>2, <1>5, <2>3, TakeEffect
  <2> QED
    BY <1>1, <2>1, <2>3, <2>4, ServerAside
<1>6. CASE SendNext
  <2>1. UNCHANGED <<role, federates, sel, active, dbOk, rest, cmds>>
    BY <1>6 DEF SendNext, table, core
  <2>2. th'["out"] = th["out"] /\ th'["in"].pc \in {"idle", "send"}
    BY <1>0, <1>6, SendEffect
  <2> QED
    BY <1>1, <1>2, <2>1, <2>2, ServerAside
<1>7. CASE Connect \/ ClearError \/ Unlist \/ Disable \/ SharedStep("in")
  BY <1>2, <1>7 DEF Connect, ClearError, Unlist, Disable, SharedStep, Disconnect, Register, Hold,
       Activate, FindFederate, CloseConn, Unregister, DeleteEntry, RemoveActive
<1>8. CASE SharedStep("out")
  BY <1>1, <1>8, ServerShared
<1>9. CASE Select \/ ReadBody \/ Resync \/ ReadClosed \/ Forward
  <2>1. UNCHANGED <<role, federates, sel, active, dbOk, rest, cmds>> /\ th["out"].pc \in Calm
    BY <1>9 DEF Select, ReadBody, Resync, ReadClosed, Forward, table, core, Calm
  <2>2. th'["in"] = th["in"] /\ th'["out"].pc \in {"idle", "events"}
    BY <1>0, <1>1, <1>9, RoundEffect
  <2> QED
    BY <1>1, <1>2, <2>1, <2>2, ServerAside DEF Calm
<1>10. ASSUME NEW c \in Conns, ReadHeader(c)
       PROVE  ServerInv'
  <2>1. UNCHANGED <<role, federates, sel, active, dbOk, rest, cmds>> /\ th["out"].pc \in Calm
    BY <1>10 DEF ReadHeader, table, core, Calm
  <2>2. th'["in"] = th["in"] /\ (th'["out"] = th["out"] \/ th'["out"].pc \in {"body", "find"})
    BY <1>0, <1>10, HeaderEffect
  <2> QED
    BY <1>1, <1>2, <2>1, <2>2, ServerAside DEF Calm
<1>11. CASE Accept
  <2>1. UNCHANGED <<role, federates, sel, active, dbOk, rest, cmds>> /\ th["out"].pc = "events"
    BY <1>11 DEF Accept, table, core
  <2>2. CASE th' = th
    BY <1>1, <1>2, <2>1, <2>2, ServerAside
  <2>3. CASE th' # th
    <3>1. PICK c \in Conns : /\ sock[c] = "dialing" /\ th'["in"] = th["in"]
                             /\ th'["out"].pc = "register" /\ th'["out"].conn = c /\ th'["out"].id = c
      BY <1>0, <1>11, <2>3, AcceptEffect
    <3>2. ~Claims(c, c)
      BY <3>1 DEF IInv, OwnerInv, Ids
    <3>3. c \notin HeldIds
      BY <1>2, <3>2 DEF Claims, HeldIds
    <3>4. HeldIds = Watched /\ HeldIds = active
      BY <1>1, <2>1 DEF IInv, ServerInv
    <3>5. HeldIds' = HeldIds /\ Watched' = Watched
      BY <2>1 DEF HeldIds, Watched
    <3> QED
      BY <1>2, <2>1, <3>1, <3>3, <3>4, <3>5 DEF ServerInv, Setup, Teardown
  <2> QED
    BY <2>2, <2>3
<1> QED
  BY <1>3, <1>4, <1>5, <1>6, <1>7, <1>8, <1>9, <1>10, <1>11 DEF Next, Inbound, Outbound, SharedStep

(* The client accepts no connection: its outbound thread sets up nothing.  *)
LEMMA ClientStep ==
    ASSUME IInv, [Next]_vars
    PROVE  ClientInv'
<1>0. /\ ThreadOK /\ TypeOK /\ "in" \in Thread /\ "out" \in Thread /\ Thread = {"in", "out"}
      /\ Shared \subseteq Places["in"] /\ Shared \subseteq Places["out"]
      /\ {"send", "dial", "clear", "unlist", "disable"} \subseteq Places["in"]
      /\ sock \in [Conns -> {"new", "dialing", "up", "gone", "closed"}]
  BY TypeParts, Names DEF IInv, PeersOK
<1> SUFFICES ASSUME role' = "client"
             PROVE  /\ \A c \in Conns : sock'[c] # "dialing"
                    /\ th'["out"].pc \notin {"register", "hold", "activate"}
  BY DEF ClientInv
<1>1. role = "client"
  BY DEF Next, vars, Environment, Inbound, Outbound, Disconnect, Dial, PeerSends, PeerLeaves, CoreSends,
         RestPost, RestRead, RestAct, TakeCommand, SendNext, Connect, ClearError, Unlist, Disable,
         Register, Hold, Activate, FindFederate, CloseConn, Unregister, DeleteEntry, RemoveActive,
         Select, Accept, ReadBody, Resync, ReadClosed, Forward, ReadHeader
<1>2. /\ \A c \in Conns : sock[c] # "dialing"
      /\ th["out"].pc \notin {"register", "hold", "activate"}
  BY <1>1 DEF IInv, ClientInv
<1>3. \A c \in Conns : sock'[c] # "dialing"
  <2>1. \/ sock' = sock
        \/ \E d : sock' = [sock EXCEPT ![d] = "up"]
        \/ \E d : sock' = [sock EXCEPT ![d] = "gone"]
        \/ \E d : sock' = [sock EXCEPT ![d] = "closed"]
    BY <1>1 DEF Next, vars, Environment, Inbound, Outbound, Disconnect, Dial, PeerSends, PeerLeaves, CoreSends,
         RestPost, RestRead, RestAct, TakeCommand, SendNext, Connect, ClearError, Unlist, Disable,
         Register, Hold, Activate, FindFederate, CloseConn, Unregister, DeleteEntry, RemoveActive,
         Select, Accept, ReadBody, Resync, ReadClosed, Forward, ReadHeader, peers
  <2> QED
    BY <1>0, <1>2, <2>1
<1>4. th'["out"].pc \notin {"register", "hold", "activate"}
  <2>1. CASE th' = th
    BY <1>2, <2>1
  <2>2. CASE TakeCommand \/ SendNext \/ Connect
    BY <1>0, <1>2, <2>2, TakeEffect, SendEffect, ConnectEffect
  <2>3. CASE ClearError \/ Unlist \/ Disable
    <3>1. th'["out"] = th["out"]
      BY <1>0, <2>3, GotoEffect, BackEffect DEF ClearError, Unlist, Disable
    <3> QED
      BY <1>2, <3>1
  <2>4. CASE SharedStep("in") /\ ~FindFederate("in")
    <3>1. th'["out"] = th["out"]
      BY <1>0, <2>4, GotoEffect, BackEffect DEF SharedStep, Disconnect, Register, Hold, Activate,
           CloseConn, Unregister, DeleteEntry, RemoveActive, Shared
    <3> QED
      BY <1>2, <3>1
  <2>5. ASSUME NEW t \in Thread, FindFederate(t)
        PROVE  th'["out"].pc \notin {"register", "hold", "activate"}
    <3>1. CASE Back(t)
      BY <1>0, <1>2, <3>1, BackEffect
    <3>2. CASE th' = [th EXCEPT ![t].pc = "close", ![t].conn = ConnOf(th[t].id)]
      BY <1>0, <1>2, <3>2 DEF ThreadOK, Local
    <3> QED
      BY <2>5, <3>1, <3>2 DEF FindFederate
  <2>6. CASE SharedStep("out") /\ ~FindFederate("out")
    <3>1. \/ Goto("out", "unregister") \/ Goto("out", "delete") \/ Goto("out", "inactive") \/ Back("out")
      BY <1>2, <2>6 DEF SharedStep, Disconnect, Register, Hold, Activate,
           CloseConn, Unregister, DeleteEntry, RemoveActive
    <3> QED
      BY <1>0, <3>1, GotoEffect, BackEffect DEF Shared
  <2>7. CASE Select \/ ReadBody \/ Resync \/ ReadClosed \/ Forward
    BY <1>0, <2>7, RoundEffect
  <2>8. ASSUME NEW c \in Conns, ReadHeader(c)
        PROVE  th'["out"].pc \notin {"register", "hold", "activate"}
    BY <1>0, <1>2, <2>8, HeaderEffect
  <2>9. CASE Accept
    BY <1>2, <2>9 DEF Accept
  <2>10. Environment \/ UNCHANGED vars => th' = th
    BY DEF vars, Environment, Dial, PeerSends, PeerLeaves, CoreSends, RestPost, RestRead, RestAct
  <2> QED
    BY <1>0, <2>1, <2>2, <2>3, <2>4, <2>5, <2>6, <2>7, <2>8, <2>9, <2>10 DEF Next, Inbound, Outbound, SharedStep
<1> QED
  BY <1>3, <1>4

-----------------------------------------------------------------------------
(* The order of what federates are sent.                                   *)

\* The parts of SendInv: what was sent, what waits, and what is being sent.
GotInv ==
    \A c \in Conns : /\ \A i, j \in DOMAIN got[c] : i < j => got[c][i] < got[c][j]
                     /\ \A i \in DOMAIN got[c] : got[c][i] <= inputs["core"]
WaitInv ==
    /\ \A i \in DOMAIN cmds : cmds[i].op = "data" => cmds[i].n <= inputs["core"]
    /\ \A i, j \in DOMAIN cmds :
        i < j /\ cmds[i].op = "data" /\ cmds[j].op = "data" => cmds[i].n < cmds[j].n
    /\ \A c \in Conns : \A k \in DOMAIN got[c] : \A i \in DOMAIN cmds :
        cmds[i].op = "data" => got[c][k] < cmds[i].n
NowInv ==
    th["in"].pc = "send" =>
        /\ th["in"].msg \in 1 .. inputs["core"] /\ th["in"].pos >= 1
        /\ \A i \in DOMAIN cmds : cmds[i].op = "data" => th["in"].msg < cmds[i].n
        /\ \A c \in Conns : \A k \in DOMAIN got[c] : got[c][k] <= th["in"].msg
        /\ \A i \in DOMAIN federates : i >= th["in"].pos =>
            \A k \in DOMAIN got[federates[i][2]] : got[federates[i][2]][k] < th["in"].msg

(* SendInv is the conjunction of its parts, in both states of a step.      *)
LEMMA SendParts ==
    /\ SendInv => GotInv /\ WaitInv /\ NowInv
    /\ GotInv' /\ WaitInv' /\ NowInv' => SendInv'
BY DEF SendInv, GotInv, WaitInv, NowInv

(* What the type invariant says of the numbers of messages.                *)
LEMMA Numbers ==
    ASSUME TypeOK
    PROVE  /\ inputs["core"] \in Nat /\ inputs["peer"] \in Nat
           /\ \A c \in Conns : /\ got[c] \in Seq(Nat) /\ DOMAIN got[c] = 1 .. Len(got[c]) /\ Len(got[c]) \in Nat
                               /\ \A i \in DOMAIN got[c] : got[c][i] \in Nat
           /\ cmds \in Seq(Command) /\ DOMAIN cmds = 1 .. Len(cmds) /\ Len(cmds) \in Nat
           /\ \A i \in DOMAIN cmds : cmds[i] \in Command /\ (cmds[i].op = "data" => cmds[i].n \in Nat /\ cmds[i].n >= 1)
           /\ th["in"].msg \in Nat /\ th["in"].pos \in Nat
           /\ federates \in Seq(Ids \X Conns) /\ DOMAIN federates = 1 .. Len(federates) /\ Len(federates) \in Nat
           /\ \A i \in DOMAIN federates : federates[i][1] \in Ids /\ federates[i][2] \in Conns
<1>1. MaxInputs \in Nat /\ 0..MaxInputs \subseteq Nat /\ 1..MaxInputs \subseteq Nat
  BY Names
<1>2. inputs["core"] \in Nat /\ inputs["peer"] \in Nat
  BY <1>1 DEF TypeOK, Sources
<1>3. ASSUME NEW c \in Conns
      PROVE  /\ got[c] \in Seq(Nat) /\ DOMAIN got[c] = 1 .. Len(got[c]) /\ Len(got[c]) \in Nat
             /\ \A i \in DOMAIN got[c] : got[c][i] \in Nat
  <2>1. got[c] \in Seq(1..MaxInputs)
    BY DEF TypeOK
  <2>2. got[c] \in Seq(Nat)
    BY <1>1, <2>1, SeqMonotonic
  <2> QED
    BY <2>2
<1>4. cmds \in Seq(Command)
  BY DEF TypeOK
<1>5. DOMAIN cmds = 1 .. Len(cmds) /\ Len(cmds) \in Nat /\ \A i \in DOMAIN cmds : cmds[i] \in Command
  BY <1>4
<1>6. \A i \in DOMAIN cmds : cmds[i].op = "data" => cmds[i].n \in Nat /\ cmds[i].n >= 1
  BY <1>1, <1>5, CommandKinds
<1>7. th["in"] \in Local
  BY Names DEF TypeOK
<1>8. th["in"].msg \in Nat /\ th["in"].pos \in Nat
  BY <1>1, <1>7 DEF Local
<1>9. federates \in Seq(Ids \X Conns)
  BY DEF TypeOK
<1>10. DOMAIN federates = 1 .. Len(federates) /\ Len(federates) \in Nat
       /\ \A i \in DOMAIN federates : federates[i][1] \in Ids /\ federates[i][2] \in Conns
  BY <1>9
<1> QED
  BY <1>2, <1>3, <1>4, <1>5, <1>6, <1>8, <1>9, <1>10

(* A step that sends nothing and takes no message, while the entries that  *)
(* are still to be served stay behind the position or are new.             *)
LEMMA SendAside ==
    ASSUME IInv, UNCHANGED <<got, cmds>>, inputs'["core"] = inputs["core"],
           \/ th'["in"].pc # "send"
           \/ /\ th["in"].pc = "send" /\ th'["in"] = th["in"]
              /\ \A i \in DOMAIN federates' :
                   \/ \E j \in DOMAIN federates : j >= i /\ federates'[i][2] = federates[j][2]
                   \/ got[federates'[i][2]] = <<>>,
           TypeOK'
    PROVE  SendInv'
<1>0. GotInv /\ WaitInv /\ NowInv /\ TypeOK
  BY SendParts DEF IInv
<1>1. GotInv' /\ WaitInv'
  BY <1>0 DEF GotInv, WaitInv
<1>2. CASE th'["in"].pc # "send"
  BY <1>1, <1>2, SendParts DEF NowInv
<1>3. CASE /\ th["in"].pc = "send" /\ th'["in"] = th["in"]
           /\ \A i \in DOMAIN federates' :
                \/ \E j \in DOMAIN federates : j >= i /\ federates'[i][2] = federates[j][2]
                \/ got[federates'[i][2]] = <<>>
  <2>1. /\ th["in"].pos \in Nat /\ \A j \in DOMAIN federates : j \in Nat
        /\ \A i \in DOMAIN federates' : i \in Nat
    <3>1. federates' \in Seq(Ids \X Conns)
      BY DEF TypeOK
    <3>2. DOMAIN federates' = 1 .. Len(federates')
      BY <3>1
    <3> QED
      BY <1>0, <3>2, Numbers
  <2>2. \A i \in DOMAIN federates' : i >= th["in"].pos =>
          \A k \in DOMAIN got[federates'[i][2]] : got[federates'[i][2]][k] < th["in"].msg
    <3> SUFFICES ASSUME NEW i \in DOMAIN federates', i >= th["in"].pos,
                        NEW k \in DOMAIN got[federates'[i][2]]
                 PROVE  got[federates'[i][2]][k] < th["in"].msg
      OBVIOUS
    <3>1. PICK j \in DOMAIN federates : j >= i /\ federates'[i][2] = federates[j][2]
      BY <1>3
    <3>2. j >= th["in"].pos
      BY <2>1, <3>1
    <3> QED
      BY <1>0, <1>3, <3>1, <3>2 DEF NowInv
  <2>3. NowInv'
    BY <1>0, <1>3, <2>2 DEF NowInv
  <2> QED
    BY <1>1, <2>3, SendParts
<1> QED
  BY <1>2, <1>3

(* A command that is no message joins the queue.                           *)
LEMMA SendOther ==
    ASSUME IInv, NEW r \in Command, r.op # "data", cmds' = Append(cmds, r),
           UNCHANGED <<got, th, federates>>, inputs'["core"] = inputs["core"]
    PROVE  SendInv'
<1>0. GotInv /\ WaitInv /\ NowInv /\ TypeOK
  BY SendParts DEF IInv
<1>1. /\ DOMAIN cmds' = 1 .. Len(cmds) + 1 /\ DOMAIN cmds = 1 .. Len(cmds) /\ Len(cmds) \in Nat
      /\ \A i \in 1 .. Len(cmds) : cmds'[i] = cmds[i]
      /\ cmds'[Len(cmds) + 1] = r
  BY <1>0, Numbers, AppendProperties
<1>2. \A i \in DOMAIN cmds' : cmds'[i].op = "data" => i \in DOMAIN cmds /\ cmds'[i] = cmds[i]
  BY <1>1
<1>3. GotInv' /\ WaitInv' /\ NowInv'
  BY <1>0, <1>2 DEF GotInv, WaitInv, NowInv
<1> QED
  BY <1>3, SendParts

(* A message joins the queue.                                              *)
LEMMA SendCore ==
    ASSUME IInv, CoreSends
    PROVE  SendInv'
<1>0. GotInv /\ WaitInv /\ NowInv /\ TypeOK
  BY SendParts DEF IInv
<1>1. inputs'["core"] = inputs["core"] + 1 /\ inputs["core"] \in Nat /\ inputs'["core"] \in 1..MaxInputs
  BY <1>0, InputEffect, TypeParts, Numbers DEF CoreSends, Sources
<1>2. PICK d \in Users \cup {None} : cmds' = Append(cmds, [op |-> "data", n |-> inputs'["core"], dest |-> d])
  BY DEF CoreSends
<1> DEFINE r == [op |-> "data", n |-> inputs'["core"], dest |-> d]
<1>3. r \in Command /\ r.n = inputs'["core"]
  BY <1>1 DEF Command
<1> HIDE DEF r
<1>4. /\ DOMAIN cmds' = 1 .. Len(cmds) + 1 /\ DOMAIN cmds = 1 .. Len(cmds) /\ Len(cmds) \in Nat
      /\ \A i \in 1 .. Len(cmds) : cmds'[i] = cmds[i]
      /\ cmds'[Len(cmds) + 1] = r
  BY <1>0, <1>2, <1>3, Numbers, AppendProperties DEF r
<1>5. UNCHANGED <<got, th, federates>>
  BY DEF CoreSends, peers, table
<1>6. \A i \in DOMAIN cmds' : i \in Nat /\ ((i \in DOMAIN cmds /\ cmds'[i] = cmds[i]) \/ i = Len(cmds) + 1)
  BY <1>4
<1>7. GotInv'
  BY <1>0, <1>1, <1>5, Numbers DEF GotInv
<1>8. \A i \in DOMAIN cmds' : cmds'[i].op = "data" => cmds'[i].n <= inputs'["core"]
  BY <1>0, <1>1, <1>3, <1>4, <1>6, Numbers DEF WaitInv
<1>9. ASSUME NEW i \in DOMAIN cmds', NEW j \in DOMAIN cmds',
             i < j /\ cmds'[i].op = "data" /\ cmds'[j].op = "data"
      PROVE  cmds'[i].n < cmds'[j].n
  <2>1. i \in DOMAIN cmds /\ cmds'[i] = cmds[i] /\ cmds[i].n <= inputs["core"] /\ cmds[i].n \in Nat
    BY <1>0, <1>4, <1>6, <1>9, Numbers DEF WaitInv
  <2>2. CASE j \in DOMAIN cmds
    BY <1>0, <1>4, <1>9, <2>1, <2>2 DEF WaitInv
  <2>3. CASE j = Len(cmds) + 1
    BY <1>1, <1>3, <1>4, <2>1, <2>3
  <2> QED
    BY <1>6, <2>2, <2>3
<1>10. ASSUME NEW c \in Conns, NEW k \in DOMAIN got[c], NEW i \in DOMAIN cmds', cmds'[i].op = "data"
       PROVE  got[c][k] < cmds'[i].n
  <2>1. got[c][k] \in Nat /\ got[c][k] <= inputs["core"]
    BY <1>0, Numbers DEF GotInv
  <2>2. CASE i \in DOMAIN cmds
    BY <1>0, <1>4, <1>10, <2>2 DEF WaitInv
  <2>3. CASE i = Len(cmds) + 1
    BY <1>1, <1>3, <1>4, <2>1, <2>3
  <2> QED
    BY <1>6, <2>2, <2>3
<1>11. WaitInv'
  BY <1>5, <1>8, <1>9, <1>10 DEF WaitInv
<1>12. NowInv'
  <2> SUFFICES ASSUME th["in"].pc = "send"
               PROVE  NowInv'
    BY <1>5 DEF NowInv
  <2>1. th["in"].msg \in 1 .. inputs["core"] /\ th["in"].msg \in Nat
    BY <1>0, Numbers DEF NowInv
  <2>2. th["in"].msg \in 1 .. inputs'["core"]
    BY <1>1, <2>1
  <2>3. \A i \in DOMAIN cmds' : cmds'[i].op = "data" => th["in"].msg < cmds'[i].n
    BY <1>0, <1>1, <1>3, <1>4, <1>6, <2>1 DEF NowInv
  <2> QED
    BY <1>0, <1>5, <2>2, <2>3 DEF NowInv
<1> QED
  BY <1>7, <1>11, <1>12, SendParts

(* The inbound thread takes a command, which may be a message to send.     *)
LEMMA SendTake ==
    ASSUME IInv, TakeCommand
    PROVE  SendInv'
<1>0. GotInv /\ WaitInv /\ NowInv /\ TypeOK
  BY SendParts DEF IInv
<1>1. UNCHANGED <<got, federates, inputs>> /\ cmds' = Tail(cmds) /\ cmds # <<>> /\ th["in"].pc = "idle"
  BY DEF TakeCommand, peers, table
<1>2. /\ DOMAIN cmds = 1 .. Len(cmds) /\ Len(cmds) \in Nat /\ Len(cmds) >= 1
      /\ Head(cmds) = cmds[1] /\ 1 \in DOMAIN cmds
      /\ DOMAIN cmds' = 1 .. Len(cmds) - 1
      /\ \A i \in DOMAIN cmds' : cmds'[i] = cmds[i + 1]
  <2>1. cmds \in Seq(Command)
    BY <1>0 DEF TypeOK
  <2> QED
    BY <1>1, <2>1, HeadTailProperties
<1>3. \A i \in DOMAIN cmds' : i \in Nat /\ i + 1 \in DOMAIN cmds /\ 1 < i + 1
  BY <1>2
<1>4. GotInv'
  BY <1>0, <1>1 DEF GotInv
<1>5. WaitInv'
  <2>1. ASSUME NEW i \in DOMAIN cmds', NEW j \in DOMAIN cmds', i < j
        PROVE  i + 1 < j + 1
    BY <1>3, <2>1
  <2> QED
    BY <1>0, <1>1, <1>2, <1>3, <2>1 DEF WaitInv
<1>6. NowInv'
  <2> SUFFICES ASSUME th'["in"].pc = "send"
               PROVE  NowInv'
    BY DEF NowInv
  <2>1. cmds[1].op = "data" /\ th'["in"].msg = cmds[1].n /\ th'["in"].pos = 1
    <3>1. th' # th
      BY <1>1
    <3> QED
      BY <1>0, <1>2, <3>1, TakeEffect
  <2>2. cmds[1].n \in Nat /\ cmds[1].n >= 1 /\ inputs["core"] \in Nat
    BY <1>0, <1>2, <2>1, Numbers
  <2>3. cmds[1].n <= inputs["core"]
    BY <1>0, <1>2, <2>1 DEF WaitInv
  <2>4. \A i \in DOMAIN cmds' : cmds'[i].op = "data" => cmds[1].n < cmds'[i].n
    BY <1>0, <1>2, <1>3, <2>1 DEF WaitInv
  <2>5. \A c \in Conns : \A k \in DOMAIN got[c] : got[c][k] < cmds[1].n /\ got[c][k] \in Nat
    BY <1>0, <1>2, <2>1, Numbers DEF WaitInv
  <2>6. \A c \in Conns : \A k \in DOMAIN got[c] : got[c][k] <= cmds[1].n
    BY <2>2, <2>5
  <2>7. \A i \in DOMAIN federates : federates[i][2] \in Conns
    BY <1>0, Numbers
  <2> QED
    BY <1>1, <2>1, <2>2, <2>3, <2>4, <2>5, <2>6, <2>7 DEF NowInv
<1> QED
  BY <1>4, <1>5, <1>6, SendParts

(* The sockets of two entries are different.                               *)
LEMMA OneEntry ==
    ASSUME IInv, NEW i \in DOMAIN federates, NEW j \in DOMAIN federates, federates[i][2] = federates[j][2]
    PROVE  i = j
<1>1. /\ federates[i][1] \in Ids /\ federates[i][2] \in Conns
      /\ federates[j][1] \in Ids /\ federates[j][2] \in Conns
  BY DEF IInv, TypeOK
<1>2. Claims(federates[i][1], federates[i][2]) /\ Claims(federates[j][1], federates[j][2])
  BY DEF Claims
<1>3. federates[i][1] = federates[j][1]
  BY <1>1, <1>2 DEF IInv, OwnerInv
<1> QED
  BY <1>3 DEF IInv, TypeOK

(* The inbound thread sends the message to a federate.                     *)
LEMMA SendSend ==
    ASSUME IInv, SendNext
    PROVE  SendInv' /\ FreshInv'
<1>0. GotInv /\ WaitInv /\ NowInv /\ TypeOK /\ Thread = {"in", "out"}
  BY SendParts, Names DEF IInv
<1>1. UNCHANGED <<cmds, federates, inputs, sock>> /\ th["in"].pc = "send"
  BY DEF SendNext, table, core
<1>2. th'["out"] = th["out"]
  BY <1>0, SendEffect
<1>3. CASE th'["in"].pc = "idle" /\ got' = got
  <2>1. GotInv' /\ WaitInv' /\ NowInv'
    BY <1>0, <1>1, <1>3 DEF GotInv, WaitInv, NowInv
  <2>2. FreshInv'
    BY <1>0, <1>1, <1>2, <1>3 DEF IInv, FreshInv, Setup
  <2> QED
    BY <2>1, <2>2, SendParts
<1> DEFINE i == th["in"].pos
           m == th["in"].msg
           c == federates[i][2]
<1>4. CASE /\ th'["in"].pc = "send" /\ th'["in"].msg = m /\ th'["in"].pos = i + 1
           /\ i \in Nat /\ i <= Len(federates)
           /\ got' = got \/ (sock[c] = "up" /\ got' = [got EXCEPT ![c] = Append(@, m)])
  <2>1. /\ m \in 1 .. inputs["core"] /\ i >= 1 /\ inputs["core"] \in Nat /\ m \in Nat
        /\ \A x \in DOMAIN cmds : cmds[x].op = "data" => m < cmds[x].n
        /\ \A d \in Conns : \A k \in DOMAIN got[d] : got[d][k] <= m
        /\ \A x \in DOMAIN federates : x >= i =>
            \A k \in DOMAIN got[federates[x][2]] : got[federates[x][2]][k] < m
    BY <1>0, <1>1, Numbers DEF NowInv
  <2>2. i \in DOMAIN federates /\ c \in Conns /\ \A x \in DOMAIN federates : x \in Nat
    <3>1. /\ DOMAIN federates = 1 .. Len(federates) /\ Len(federates) \in Nat
          /\ \A x \in DOMAIN federates : federates[x][2] \in Conns
      BY <1>0, Numbers
    <3>2. i \in DOMAIN federates
      BY <1>4, <2>1, <3>1
    <3> QED
      BY <3>1, <3>2
  <2>3. got[c] \in Seq(Nat) /\ \A k \in DOMAIN got[c] : got[c][k] < m
    <3>1. got[c] \in Seq(Nat)
      BY <1>0, <2>2, Numbers
    <3>2. i >= i
      BY <1>4
    <3> QED
      BY <2>1, <2>2, <3>1, <3>2
  <2>4. \A x \in DOMAIN federates : x >= i + 1 => federates[x][2] # c
    BY <1>4, <2>2, OneEntry
  <2>5. \A d \in Conns : d # c => got'[d] = got[d]
    BY <1>0, <1>4, <2>2 DEF TypeOK
  <2>6. got'[c] = got[c] \/ got'[c] = Append(got[c], m)
    BY <1>0, <1>4, <2>2 DEF TypeOK
  <2> HIDE DEF c
  <2>7. /\ \A k \in DOMAIN got'[c] : got'[c][k] <= m
        /\ \A x, y \in DOMAIN got'[c] : x < y => got'[c][x] < got'[c][y]
    <3>1. CASE got'[c] = got[c]
      BY <1>0, <2>1, <2>2, <3>1 DEF GotInv
    <3>2. CASE got'[c] = Append(got[c], m)
      <4> DEFINE s == got[c]
                 n == Len(s)
      <4>1. /\ n \in Nat /\ DOMAIN s = 1 .. n /\ DOMAIN got'[c] = 1 .. n + 1
            /\ \A k \in 1 .. n : got'[c][k] = s[k] /\ s[k] \in Nat
            /\ got'[c][n + 1] = m
        BY <2>1, <2>3, <3>2
      <4>2. \A x, y \in 1 .. n : x < y => s[x] < s[y]
        BY <1>0, <2>2, <4>1 DEF GotInv
      <4>3. \A k \in 1 .. n : s[k] < m
        BY <2>3, <4>1
      <4> HIDE DEF s, n
      <4>4. \A k \in 1 .. n + 1 : got'[c][k] <= m
        BY <2>1, <4>1, <4>3
      <4>5. ASSUME NEW x \in 1 .. n + 1, NEW y \in 1 .. n + 1, x < y
            PROVE  got'[c][x] < got'[c][y]
        <5>1. x \in 1 .. n
          BY <4>1, <4>5
        <5>2. CASE y = n + 1
          BY <4>1, <4>3, <5>1, <5>2
        <5>3. CASE y \in 1 .. n
          BY <4>1, <4>2, <4>5, <5>1, <5>3
        <5> QED
          BY <4>1, <5>2, <5>3
      <4> QED
        BY <4>1, <4>4, <4>5
    <3> QED
      BY <2>6, <3>1, <3>2
  <2>8. \A d \in Conns : \A k \in DOMAIN got'[d] : got'[d][k] <= m /\ got'[d][k] \in Nat
    <3>1. got'[c] \in Seq(Nat)
      <4>1. Append(got[c], m) \in Seq(Nat)
        BY <2>1, <2>3, AppendProperties
      <4> QED
        BY <2>3, <2>6, <4>1
    <3>2. \A k \in DOMAIN got'[c] : got'[c][k] \in Nat
      BY <3>1
    <3> QED
      BY <1>0, <2>1, <2>5, <2>7, <3>2, Numbers
  <2>9. GotInv'
    <3>1. \A d \in Conns : \A k \in DOMAIN got'[d] : got'[d][k] <= inputs["core"]
      BY <2>1, <2>8
    <3>2. \A d \in Conns : \A x, y \in DOMAIN got'[d] : x < y => got'[d][x] < got'[d][y]
      BY <1>0, <2>5, <2>7 DEF GotInv
    <3> QED
      BY <1>1, <3>1, <3>2 DEF GotInv
  <2>10. WaitInv'
    <3>1. \A d \in Conns : \A k \in DOMAIN got'[d] : \A x \in DOMAIN cmds :
            cmds[x].op = "data" => got'[d][k] < cmds[x].n
      BY <1>0, <2>1, <2>8, Numbers
    <3> QED
      BY <1>0, <1>1, <3>1 DEF WaitInv
  <2>11. NowInv'
    <3>1. \A x \in DOMAIN federates : x >= i + 1 =>
            \A k \in DOMAIN got'[federates[x][2]] : got'[federates[x][2]][k] < m
      <4> SUFFICES ASSUME NEW x \in DOMAIN federates, x >= i + 1
                   PROVE  \A k \in DOMAIN got'[federates[x][2]] : got'[federates[x][2]][k] < m
        OBVIOUS
      <4>1. x >= i /\ federates[x][2] \in Conns /\ federates[x][2] # c
        BY <1>0, <1>4, <2>2, <2>4, Numbers
      <4>2. got'[federates[x][2]] = got[federates[x][2]]
        BY <2>5, <4>1
      <4> QED
        BY <2>1, <4>1, <4>2
    <3>2. i + 1 >= 1
      BY <1>4
    <3> QED
      BY <1>1, <1>4, <2>1, <2>8, <3>1, <3>2 DEF NowInv
  <2>12. FreshInv'
    <3>1. c \in Held /\ Claims(federates[i][1], c) /\ federates[i][1] \in Ids
      BY <1>0, <2>2, Numbers DEF Held, Claims, c
    <3>2. sock[c] \notin {"new", "dialing"}
      BY <2>2, <3>1 DEF IInv, OwnerInv
    <3>3. \A t \in Thread : th[t].pc \in Setup => th[t].conn # c /\ th[t].conn \in Conns
      BY <3>1 DEF IInv, SetupInv, LocalInv
    <3> QED
      BY <1>0, <1>1, <1>2, <1>4, <2>5, <3>2, <3>3 DEF IInv, FreshInv, Setup
  <2> QED
    BY <2>9, <2>10, <2>11, <2>12, SendParts
<1> QED
  BY <1>0, <1>3, <1>4, SendEffect

(* A step that sends nothing leaves new sockets without messages.          *)
LEMMA FreshAside ==
    ASSUME IInv, got' = got,
           \A c \in Conns : sock'[c] \in {"new", "dialing"} => sock[c] \in {"new", "dialing"},
           \A t \in Thread : th'[t].pc \in Setup =>
             \/ th[t].pc \in Setup /\ th'[t].conn = th[t].conn
             \/ th'[t].conn \in Conns /\ sock[th'[t].conn] \in {"new", "dialing"}
    PROVE  FreshInv'
BY DEF IInv, FreshInv

(* Steps of the threads on the table, the selector and the database.       *)
LEMMA SharedThread ==
    ASSUME IInv, NEW t \in Thread, SharedStep(t)
    PROVE  /\ \A u \in Thread : u # t => th'[u] = th[u]
           /\ th'[t].pc # "send"
           /\ th'[t].pc \in Setup => th[t].pc \in Setup /\ th'[t].conn = th[t].conn
           /\ UNCHANGED <<role, got, cmds, inputs>>
           /\ sock' = sock \/ \E c : sock' = [sock EXCEPT ![c] = "closed"]
<1>0. ThreadOK /\ TypeOK /\ Shared \subseteq Places[t] /\ (t = "in" => {"clear", "unlist"} \subseteq Places[t])
  BY TypeParts, Names DEF IInv
<1>1. /\ UNCHANGED <<role, got, cmds, inputs>>
      /\ sock' = sock \/ \E c : sock' = [sock EXCEPT ![c] = "closed"]
  BY DEF SharedStep, Disconnect, Register, Hold, Activate, FindFederate, CloseConn, Unregister,
         DeleteEntry, RemoveActive, core, peers
<1>2. CASE FindFederate(t) /\ th[t].id \in HeldIds
  <2>1. th' = [th EXCEPT ![t].pc = "close", ![t].conn = ConnOf(th[t].id)]
    BY <1>2 DEF FindFederate
  <2>2. th'[t].pc = "close" /\ \A u \in Thread : u # t => th'[u] = th[u]
    BY <1>0, <2>1 DEF ThreadOK, Local
  <2> QED
    BY <1>1, <2>2 DEF Setup
<1>3. CASE Register(t)
  <2>1. /\ th[t].pc = "register" /\ th'[t].pc = "hold" /\ th'[t].conn = th[t].conn
        /\ \A u \in Thread : u # t => th'[u] = th[u]
    BY <1>0, <1>3, GotoEffect DEF Register, Shared
  <2> QED
    BY <1>1, <2>1 DEF Setup
<1>4. CASE ~Register(t) /\ ~(FindFederate(t) /\ th[t].id \in HeldIds)
  <2>1. \/ Back(t) \/ \E pc \in {"activate", "unregister", "delete", "inactive"} : Goto(t, pc)
        \/ t = "in" /\ (Goto(t, "clear") \/ Goto(t, "unlist"))
    BY <1>4 DEF SharedStep, Disconnect, Hold, Activate, FindFederate, CloseConn, Unregister,
         DeleteEntry, RemoveActive
  <2>2. CASE Back(t)
    <3>1. th'[t].pc \in {"idle", "events"} /\ \A u \in Thread : u # t => th'[u] = th[u]
      BY <1>0, <2>2, BackEffect
    <3> QED
      BY <1>1, <3>1 DEF Setup
  <2>3. ASSUME NEW pc \in {"activate", "unregister", "delete", "inactive"}, Goto(t, pc)
        PROVE  th'[t].pc = pc /\ \A u \in Thread : u # t => th'[u] = th[u]
    BY <1>0, <2>3, GotoEffect DEF Shared
  <2>4. CASE t = "in" /\ (Goto(t, "clear") \/ Goto(t, "unlist"))
    <3>1. th'[t].pc \in {"clear", "unlist"} /\ \A u \in Thread : u # t => th'[u] = th[u]
      BY <1>0, <2>4, GotoEffect
    <3> QED
      BY <1>1, <3>1 DEF Setup
  <2> QED
    BY <1>1, <2>1, <2>2, <2>3, <2>4 DEF Setup
<1> QED
  BY <1>2, <1>3, <1>4

(* While a message is sent, the outbound thread only adds fresh sockets    *)
(* to the table, at its end.                                               *)
LEMMA SharedTable ==
    ASSUME IInv, SharedStep("out"), th["in"].pc = "send"
    PROVE  \A i \in DOMAIN federates' :
             \/ \E j \in DOMAIN federates : j >= i /\ federates'[i][2] = federates[j][2]
             \/ got[federates'[i][2]] = <<>>
<1>0. TypeOK /\ "out" \in Thread
  BY Names DEF IInv
<1>1. DOMAIN federates = 1 .. Len(federates) /\ Len(federates) \in Nat /\ federates \in Seq(Ids \X Conns)
  BY <1>0, Numbers
<1>2. CASE federates' = federates
  <2>1. \A i \in DOMAIN federates : i >= i
    BY <1>1
  <2> QED
    BY <1>2, <2>1
<1>3. CASE DeleteEntry("out")
  BY <1>0, <1>3, DeleteEffect
<1>4. CASE Hold("out")
  <2> DEFINE id == th["out"].id
             c  == th["out"].conn
  <2>1. th["out"].pc = "hold" /\ Put(id, c)
    BY <1>4 DEF Hold
  <2>2. id \in Ids /\ c \in Conns /\ got[c] = <<>>
    BY <1>0, <2>1 DEF IInv, LocalInv, FreshInv, Setup
  <2>3. role \in {"client", "server"}
    BY <1>0, FederationAssumption DEF TypeOK
  <2>4. id \notin HeldIds
    BY <2>1, <2>3 DEF IInv, ClientInv, ServerInv
  <2>5. federates' = Append(federates, <<id, c>>)
    BY <1>0, <2>1, <2>2, <2>4, PutEffect
  <2> HIDE DEF id, c
  <2>6. /\ DOMAIN federates' = 1 .. Len(federates) + 1
        /\ \A i \in 1 .. Len(federates) : federates'[i] = federates[i]
        /\ federates'[Len(federates) + 1] = <<id, c>>
    BY <1>1, <2>2, <2>5, AppendProperties
  <2>7. ASSUME NEW i \in DOMAIN federates', i # Len(federates) + 1
        PROVE  i \in DOMAIN federates /\ i >= i /\ federates'[i] = federates[i]
    BY <1>1, <2>6, <2>7
  <2>8. <<id, c>>[2] = c
    OBVIOUS
  <2> QED
    BY <2>2, <2>6, <2>7, <2>8
<1> QED
  BY <1>2, <1>3, <1>4 DEF SharedStep, Disconnect, Register, Activate, FindFederate, CloseConn, Unregister, RemoveActive, table

(* Every step keeps the order of the messages sent, being sent and waiting.*)
LEMMA SendStep ==
    ASSUME IInv, [Next]_vars
    PROVE  SendInv' /\ FreshInv'
<1>0. /\ ThreadOK /\ TypeOK /\ TypeOK' /\ "in" \in Thread /\ "out" \in Thread /\ Thread = {"in", "out"}
      /\ {"send", "dial", "clear", "unlist", "disable"} \subseteq Places["in"]
      /\ sock \in [Conns -> {"new", "dialing", "up", "gone", "closed"}] /\ inputs["core"] \in Nat
  BY TypeParts, TypeStep, Names, Numbers DEF IInv, PeersOK
<1>1. \A i \in DOMAIN federates : i >= i
  BY <1>0, Numbers
<1>2. ASSUME UNCHANGED <<got, cmds, federates, th>>, inputs'["core"] = inputs["core"]
      PROVE  SendInv'
  BY <1>0, <1>1, <1>2, SendAside
<1>3. CASE UNCHANGED vars
  <2>1. UNCHANGED <<got, cmds, federates, th, inputs, sock>>
    BY <1>3 DEF vars
  <2> QED
    BY <1>2, <2>1, FreshAside
<1>4. CASE Environment
  <2>1. UNCHANGED <<got, th, federates>>
    BY <1>4 DEF Environment, Dial, PeerSends, PeerLeaves, CoreSends, RestPost, RestRead, RestAct, table, peers
  <2>2. \A c \in Conns : sock'[c] \in {"new", "dialing"} => sock[c] \in {"new", "dialing"}
    <3>1. \/ sock' = sock
          \/ \E d \in Conns : sock[d] = "new" /\ sock' = [sock EXCEPT ![d] = "dialing"]
          \/ \E d \in Conns : sock[d] = "up" /\ sock' = [sock EXCEPT ![d] = "gone"]
      BY <1>4 DEF Environment, Dial, PeerSends, PeerLeaves, CoreSends, RestPost, RestRead, RestAct, peers
    <3> QED
      BY <1>0, <3>1
  <2>3. FreshInv'
    BY <2>1, <2>2, FreshAside
  <2>4. CASE CoreSends
    BY <2>3, <2>4, SendCore
  <2>5. CASE ~CoreSends
    <3>1. inputs'["core"] = inputs["core"]
      <4>1. inputs' = inputs \/ Input("peer") \/ Input("rest")
        BY <1>4, <2>5 DEF Environment, Dial, PeerSends, PeerLeaves, RestPost, RestRead, RestAct, core, CanAsk
      <4>2. CoreOK /\ "peer" \in Sources /\ "rest" \in Sources /\ "core" \in Sources
        BY <1>0, TypeParts DEF Sources
      <4> QED
        BY <4>1, <4>2, InputEffect
    <3>2. \/ cmds' = cmds
          \/ \E f \in Feds : \E o \in {"CREATE", "DELETE"} : cmds' = Append(cmds, [op |-> o, id |-> f])
      <4>1. CASE RestAct
        <5>1. rest[1] \in Feds
          BY <1>0, <4>1 DEF RestAct, TypeOK
        <5> QED
          BY <4>1, <5>1 DEF RestAct
      <4> QED
        BY <1>4, <2>5, <4>1 DEF Environment, Dial, PeerSends, PeerLeaves, RestPost, RestRead, core
    <3>3. ASSUME NEW f \in Feds, NEW o \in {"CREATE", "DELETE"}, cmds' = Append(cmds, [op |-> o, id |-> f])
          PROVE  SendInv'
      <4> DEFINE r == [op |-> o, id |-> f]
      <4>1. r \in Command /\ r.op # "data" /\ cmds' = Append(cmds, r)
        BY <3>3 DEF Command
      <4> HIDE DEF r
      <4> QED
        BY <2>1, <3>1, <4>1, SendOther
    <3> QED
      BY <1>2, <2>1, <2>3, <3>1, <3>2, <3>3
  <2> QED
    BY <2>4, <2>5
<1>5. CASE TakeCommand
  <2>1. got' = got /\ sock' = sock
    BY <1>5 DEF TakeCommand, peers
  <2>2. th'["out"] = th["out"] /\ th'["in"].pc \in {"idle", "dial", "find", "send"}
    <3>1. th["in"].pc = "idle"
      BY <1>5 DEF TakeCommand
    <3> QED
      BY <1>0, <1>5, <3>1, TakeEffect
  <2>3. FreshInv'
    BY <1>0, <2>1, <2>2, FreshAside DEF Setup
  <2> QED
    BY <1>5, <2>3, SendTake
<1>6. CASE SendNext
  BY <1>6, SendSend
<1>7. CASE Connect
  <2>1. UNCHANGED <<got, cmds, federates, inputs>> /\ th["in"].pc = "dial"
    BY <1>7 DEF Connect, core, table
  <2>2. /\ th'["out"] = th["out"] /\ th'["in"].pc \in {"unlist", "register"}
        /\ \/ th'["in"].pc = "unlist" /\ sock' = sock
           \/ \E c \in Conns : sock[c] = "new" /\ sock' = [sock EXCEPT ![c] = "up"] /\ th'["in"].conn = c
    BY <1>0, <1>7, ConnectEffect
  <2>3. \A c \in Conns : sock'[c] \in {"new", "dialing"} => sock[c] \in {"new", "dialing"}
    BY <1>0, <2>2
  <2>4. FreshInv'
    BY <1>0, <2>1, <2>2, <2>3, FreshAside DEF Setup
  <2>5. SendInv'
    BY <1>0, <2>1, <2>2, SendAside
  <2> QED
    BY <2>4, <2>5
<1>8. CASE ClearError \/ Unlist \/ Disable
  <2>1. th'["out"] = th["out"] /\ th'["in"].pc \in {"idle", "unlist", "disable"}
    BY <1>0, <1>8, GotoEffect, BackEffect DEF ClearError, Unlist, Disable
  <2>2. UNCHANGED <<got, cmds, federates, inputs, sock>>
    BY <1>8 DEF ClearError, Unlist, Disable, table, peers, core
  <2>3. FreshInv'
    BY <1>0, <2>1, <2>2, FreshAside DEF Setup
  <2>4. SendInv'
    BY <1>0, <2>1, <2>2, SendAside
  <2> QED
    BY <2>3, <2>4
<1>9. ASSUME NEW t \in Thread, SharedStep(t)
      PROVE  SendInv' /\ FreshInv'
  <2>1. /\ \A u \in Thread : u # t => th'[u] = th[u]
        /\ th'[t].pc # "send"
        /\ th'[t].pc \in Setup => th[t].pc \in Setup /\ th'[t].conn = th[t].conn
        /\ UNCHANGED <<role, got, cmds, inputs>>
        /\ sock' = sock \/ \E c : sock' = [sock EXCEPT ![c] = "closed"]
    BY <1>9, SharedThread
  <2>2. \A c \in Conns : sock'[c] \in {"new", "dialing"} => sock[c] \in {"new", "dialing"}
    BY <1>0, <2>1
  <2>3. FreshInv'
    BY <1>0, <2>1, <2>2, FreshAside
  <2>4. CASE th'["in"].pc # "send"
    BY <1>0, <2>1, <2>3, <2>4, SendAside
  <2>5. CASE th'["in"].pc = "send"
    <3>1. t = "out" /\ th'["in"] = th["in"]
      BY <1>0, <2>1, <2>5
    <3> QED
      BY <1>0, <1>9, <2>1, <2>3, <2>5, <3>1, SendAside, SharedTable
  <2> QED
    BY <2>4, <2>5
<1>10. CASE \/ Select \/ ReadBody \/ Resync \/ ReadClosed \/ Forward \/ Accept
            \/ \E c \in Conns : ReadHeader(c)
  <2>1. UNCHANGED <<got, cmds, federates, inputs>>
    BY <1>10 DEF Select, ReadBody, Resync, ReadClosed, Forward, Accept, ReadHeader, table, peers, core
  <2>2. th'["in"] = th["in"]
    BY <1>0, <1>10, RoundEffect, AcceptEffect, HeaderEffect
  <2>3. SendInv'
    BY <1>0, <1>1, <2>1, <2>2, SendAside
  <2>4. CASE Accept
    <3>1. th["out"].pc = "events"
      BY <2>4 DEF Accept
    <3>2. PICK c \in Conns :
            /\ sock[c] = "dialing"
            /\ \/ /\ sock' = [sock EXCEPT ![c] = "up"]
                  /\ th'["out"].pc = "register" /\ th'["out"].conn = c /\ th'["out"].id = c
               \/ sock' = [sock EXCEPT ![c] = "closed"] /\ th' = th
      BY <1>0, <2>4, AcceptEffect
    <3>3. \A d \in Conns : sock'[d] \in {"new", "dialing"} => sock[d] \in {"new", "dialing"}
      BY <1>0, <3>2
    <3>4. FreshInv'
      BY <1>0, <2>1, <2>2, <3>2, <3>3, FreshAside
    <3> QED
      BY <2>3, <3>4
  <2>5. CASE ~Accept
    <3>1. sock' = sock
      BY <1>10, <2>5 DEF Select, ReadBody, Resync, ReadClosed, Forward, ReadHeader, peers
    <3>2. th' = th \/ th'["out"].pc \in {"idle", "events", "dead", "body", "find"}
      BY <1>0, <1>10, <2>5, RoundEffect, HeaderEffect
    <3>3. FreshInv'
      BY <1>0, <2>1, <2>2, <3>1, <3>2, FreshAside DEF Setup
    <3> QED
      BY <2>3, <3>3
  <2> QED
    BY <2>4, <2>5
<1> QED
  BY <1>0, <1>3, <1>4, <1>5, <1>6, <1>7, <1>8, <1>9, <1>10 DEF Next, Inbound, Outbound, SharedStep

-----------------------------------------------------------------------------
(* The order of what the core is sent.                                     *)

\* r is what is left of s after its first elements were taken.
Rest(r, s) == \E k \in Nat : \A i \in DOMAIN r : i \in Nat /\ i + k \in DOMAIN s /\ r[i] = s[i + k]

(* The tail of a sequence is the rest of it.                               *)
LEMMA TailIsRest ==
    ASSUME NEW S, NEW s \in Seq(S), s # <<>>
    PROVE  Rest(Tail(s), s)
<1>1. /\ Len(s) \in Nat /\ DOMAIN s = 1 .. Len(s)
      /\ DOMAIN Tail(s) = 1 .. Len(s) - 1 /\ \A i \in 1 .. Len(s) - 1 : Tail(s)[i] = s[i + 1]
  BY HeadTailProperties
<1>2. \A i \in DOMAIN Tail(s) : i \in Nat /\ i + 1 \in DOMAIN s /\ Tail(s)[i] = s[i + 1]
  BY <1>1
<1> QED
  BY <1>2 DEF Rest

(* What follows the first k elements is the rest of a sequence.            *)
LEMMA SubSeqIsRest ==
    ASSUME NEW S, NEW s \in Seq(S), NEW k \in Nat, k <= Len(s)
    PROVE  Rest(SubSeq(s, k + 1, Len(s)), s)
<1> DEFINE r == SubSeq(s, k + 1, Len(s))
<1>1. Len(s) \in Nat /\ DOMAIN s = 1 .. Len(s) /\ \A i \in k + 1 .. Len(s) : s[i] \in S
  OBVIOUS
<1>2. /\ r \in Seq(S) /\ Len(r) = (IF k + 1 <= Len(s) THEN Len(s) - (k + 1) + 1 ELSE 0)
      /\ \A i \in 1 .. Len(s) - (k + 1) + 1 : r[i] = s[k + 1 + i - 1]
  <2>1. k + 1 \in Int /\ Len(s) \in Int
    BY <1>1
  <2> HIDE DEF r
  <2> QED
    BY <1>1, <2>1, SubSeqProperties DEF r
<1> HIDE DEF r
<1>3. ASSUME NEW i \in DOMAIN r
      PROVE  i \in Nat /\ i + k \in DOMAIN s /\ r[i] = s[i + k]
  <2>1. DOMAIN r = 1 .. Len(r) /\ Len(r) = Len(s) - k
    <3>1. DOMAIN r = 1 .. Len(r)
      BY <1>2, LenProperties
    <3>2. Len(s) \in Nat /\ Len(r) = (IF k + 1 <= Len(s) THEN Len(s) - (k + 1) + 1 ELSE 0)
      BY <1>1, <1>2
    <3> QED
      BY <3>1, <3>2
  <2>2. i \in 1 .. Len(s) - (k + 1) + 1 /\ k + 1 + i - 1 = i + k /\ i + k \in 1 .. Len(s) /\ i \in Nat
    BY <1>1, <2>1
  <2> QED
    BY <1>1, <1>2, <2>2
<1> QED
  BY <1>3 DEF Rest, r

(* The rest of a sequence of events is ordered as the sequence is.         *)
LEMMA RestKeeps ==
    ASSUME NEW s \in Seq(Event), NEW r \in Seq(Event), Rest(r, s)
    PROVE  /\ Ordered(s) => Ordered(r)
           /\ Known(s) => Known(r)
           /\ \A x : Before(x, s) => Before(x, r)
           /\ \A x : Before(s, x) => Before(r, x)
           /\ \A i \in DOMAIN r : \E j \in DOMAIN s : r[i] = s[j]
<1>1. PICK k \in Nat : \A i \in DOMAIN r : i \in Nat /\ i + k \in DOMAIN s /\ r[i] = s[i + k]
  BY DEF Rest
<1>2. \A i, j \in DOMAIN r : i < j => i + k < j + k
  BY <1>1
<1>3. Ordered(s) => Ordered(r)
  BY <1>1, <1>2 DEF Ordered
<1>4. Known(s) => Known(r)
  BY <1>1 DEF Known
<1>5. \A x : Before(x, s) => Before(x, r)
  BY <1>1 DEF Before
<1>6. \A x : Before(s, x) => Before(r, x)
  BY <1>1 DEF Before
<1> QED
  BY <1>1, <1>3, <1>4, <1>5, <1>6

(* Appending an event that comes after the others keeps the order.         *)
LEMMA AppendKeeps ==
    ASSUME NEW s \in Seq(Event), NEW e \in Event
    PROVE  /\ Ordered(s) /\ (\A i \in DOMAIN s : s[i].from = e.from => s[i].n < e.n) => Ordered(Append(s, e))
           /\ \A x : Before(s, x) /\ (\A j \in DOMAIN x : e.from = x[j].from => e.n < x[j].n) => Before(Append(s, e), x)
           /\ \A x : Before(x, s) /\ (\A j \in DOMAIN x : x[j].from = e.from => x[j].n < e.n) => Before(x, Append(s, e))
           /\ Known(s) /\ e.n <= inputs["peer"] => Known(Append(s, e))
           /\ \A i \in DOMAIN Append(s, e) : (\E j \in DOMAIN s : Append(s, e)[i] = s[j]) \/ Append(s, e)[i] = e
<1> DEFINE r == Append(s, e)
<1>1. /\ Len(s) \in Nat /\ DOMAIN s = 1 .. Len(s) /\ DOMAIN r = 1 .. Len(s) + 1
      /\ \A i \in 1 .. Len(s) : r[i] = s[i]
      /\ r[Len(s) + 1] = e
  BY AppendProperties
<1> HIDE DEF r
<1>2. \A i \in DOMAIN r : (i \in DOMAIN s /\ r[i] = s[i]) \/ (i = Len(s) + 1 /\ r[i] = e)
  BY <1>1
<1>3. ASSUME Ordered(s), \A i \in DOMAIN s : s[i].from = e.from => s[i].n < e.n
      PROVE  Ordered(r)
  <2> SUFFICES ASSUME NEW i \in DOMAIN r, NEW j \in DOMAIN r, i < j, r[i].from = r[j].from
               PROVE  r[i].n < r[j].n
    BY DEF Ordered
  <2>1. i \in DOMAIN s /\ r[i] = s[i]
    BY <1>1
  <2>2. CASE j \in DOMAIN s
    BY <1>1, <1>3, <2>1, <2>2 DEF Ordered
  <2>3. CASE r[j] = e
    BY <1>3, <2>1, <2>3
  <2> QED
    BY <1>2, <2>2, <2>3
<1>4. \A x : Before(s, x) /\ (\A j \in DOMAIN x : e.from = x[j].from => e.n < x[j].n) => Before(r, x)
  BY <1>2 DEF Before
<1>5. \A x : Before(x, s) /\ (\A j \in DOMAIN x : x[j].from = e.from => x[j].n < e.n) => Before(x, r)
  BY <1>2 DEF Before
<1>6. Known(s) /\ e.n <= inputs["peer"] => Known(r)
  BY <1>2 DEF Known
<1> QED
  BY <1>2, <1>3, <1>4, <1>5, <1>6 DEF r

(* The buffer of every socket but one stays.                               *)
BufInv(c) ==
    /\ Ordered(inbuf[c]) /\ Known(inbuf[c])
    /\ Before(toCore, inbuf[c]) /\ Before(data, inbuf[c])
    /\ \A i \in DOMAIN inbuf[c] :
        inbuf[c][i].from = c /\ (inbuf[c][i].kind # "cot" => inbuf[c][i].user \in Users)

(* A step that moves no event keeps their order.                           *)
LEMMA EventAside ==
    ASSUME IInv, UNCHANGED <<toCore, data, inbuf>>, inputs'["peer"] = inputs["peer"],
           th'["out"].pc = "body" => th'["out"].conn \in Conns /\ inbuf[th'["out"].conn] # <<>>
    PROVE  EventInv'
BY DEF IInv, EventInv, Ordered, Known, Before

(* A federate sends an event, which gets the next number.                  *)
LEMMA EventSent ==
    ASSUME IInv, NEW c \in Conns, PeerSends(c)
    PROVE  EventInv'
<1>0. TypeOK /\ CoreOK /\ EventInv /\ "peer" \in Sources
  BY TypeParts DEF IInv, Sources
<1>1. inputs'["peer"] = inputs["peer"] + 1 /\ inputs["peer"] \in Nat /\ inputs'["peer"] \in 1..MaxInputs
  BY <1>0, InputEffect, Numbers DEF PeerSends
<1>2. UNCHANGED <<toCore, data, th>>
  BY DEF PeerSends, round
<1>3. PICK k \in {"join", "leave"}, u \in Users \cup {None} :
        inbuf' = [inbuf EXCEPT ![c] =
           Append(@, [from |-> c, n |-> inputs'["peer"], user |-> u, kind |-> IF u = None THEN "cot" ELSE k])]
  BY DEF PeerSends
<1> DEFINE e == [from |-> c, n |-> inputs'["peer"], user |-> u, kind |-> IF u = None THEN "cot" ELSE k]
<1>4. /\ e \in Event /\ e.from = c /\ e.n = inputs'["peer"] /\ (e.kind # "cot" => e.user \in Users)
  BY <1>1 DEF Event
<1> HIDE DEF e
<1>5. /\ inbuf'[c] = Append(inbuf[c], e) /\ \A d \in Conns : d # c => inbuf'[d] = inbuf[d]
      /\ \A d \in Conns : inbuf[d] \in Seq(Event)
  BY <1>0, <1>3 DEF TypeOK, e
<1>6. \A s \in Seq(Event) : Known(s) => \A i \in DOMAIN s : s[i].n < inputs'["peer"] /\ s[i].n <= inputs'["peer"]
  <2> SUFFICES ASSUME NEW s \in Seq(Event), Known(s), NEW i \in DOMAIN s
               PROVE  s[i].n < inputs'["peer"] /\ s[i].n <= inputs'["peer"]
    OBVIOUS
  <2>1. s[i] \in Event /\ s[i].n <= inputs["peer"]
    BY DEF Known
  <2>2. s[i].n \in Nat
    BY <2>1, Names DEF Event
  <2> QED
    BY <1>1, <2>1, <2>2
<1>7. /\ toCore \in Seq(Event) /\ data \in Seq(Event)
      /\ Ordered(toCore) /\ Ordered(data) /\ Before(toCore, data) /\ Known(toCore) /\ Known(data)
      /\ \A d \in Conns : BufInv(d)
  BY <1>0 DEF EventInv, TypeOK, BufInv
<1>8. Known(toCore)' /\ Known(data)'
  BY <1>2, <1>6, <1>7 DEF Known
<1>9. ASSUME NEW d \in Conns, d # c
      PROVE  BufInv(d)'
  <2>1. Known(inbuf[d])'
    BY <1>5, <1>6, <1>7, <1>9 DEF Known, BufInv
  <2>2. /\ Ordered(inbuf[d]) /\ Before(toCore, inbuf[d]) /\ Before(data, inbuf[d]) /\ inbuf'[d] = inbuf[d]
        /\ \A i \in DOMAIN inbuf[d] :
             inbuf[d][i].from = d /\ (inbuf[d][i].kind # "cot" => inbuf[d][i].user \in Users)
    BY <1>5, <1>7, <1>9 DEF BufInv
  <2>3. Ordered(inbuf[d])' /\ Before(toCore, inbuf[d])' /\ Before(data, inbuf[d])'
    BY <1>2, <2>2 DEF Ordered, Before
  <2> QED
    BY <2>1, <2>2, <2>3 DEF BufInv
<1>10. BufInv(c)'
  <2> DEFINE r == Append(inbuf[c], e)
  <2>1. \A i \in DOMAIN inbuf[c] : inbuf[c][i].n < e.n /\ inbuf[c][i].n <= e.n
    BY <1>4, <1>5, <1>6, <1>7 DEF BufInv
  <2>2. (\A i \in DOMAIN toCore : toCore[i].n < e.n) /\ \A i \in DOMAIN data : data[i].n < e.n
    BY <1>4, <1>6, <1>7
  <2>3. Ordered(inbuf[c]) /\ Before(toCore, inbuf[c]) /\ Before(data, inbuf[c])
    BY <1>7 DEF BufInv
  <2>4. Ordered(r) /\ Before(toCore, r) /\ Before(data, r)
    BY <1>4, <1>5, <2>1, <2>2, <2>3, AppendKeeps
  <2>5. \A i \in DOMAIN r : (\E j \in DOMAIN inbuf[c] : r[i] = inbuf[c][j]) \/ r[i] = e
    BY <1>4, <1>5, AppendKeeps
  <2> HIDE DEF r
  <2>6. \A i \in DOMAIN r : /\ r[i].from = c /\ (r[i].kind # "cot" => r[i].user \in Users)
                            /\ r[i].n <= inputs'["peer"]
    <3>1. e.n <= inputs'["peer"]
      BY <1>1, <1>4
    <3> QED
      BY <1>4, <1>7, <2>1, <2>5, <3>1 DEF BufInv
  <2>7. inbuf'[c] = r
    BY <1>5 DEF r
  <2> QED
    BY <1>2, <2>4, <2>6, <2>7 DEF BufInv, Ordered, Before, Known
<1>11. th["out"].pc = "body" => th["out"].conn \in Conns /\ inbuf'[th["out"].conn] # <<>>
  <2>1. inbuf'[c] # <<>>
    BY <1>4, <1>5, AppendProperties
  <2> QED
    BY <1>0, <1>5, <2>1 DEF EventInv
<1>12. Ordered(toCore)' /\ Ordered(data)' /\ Before(toCore, data)'
  BY <1>2, <1>7 DEF Ordered, Before
<1> QED
  BY <1>2, <1>8, <1>9, <1>10, <1>11, <1>12 DEF EventInv, BufInv

(* The outbound thread reads an event.                                     *)
LEMMA EventRead ==
    ASSUME IInv, ReadBody
    PROVE  EventInv'
<1>0. TypeOK /\ EventInv
  BY DEF IInv
<1>p. PICK c \in Conns : c = th["out"].conn /\ inbuf[c] # <<>>
  BY <1>0 DEF EventInv, ReadBody
<1> DEFINE e == Head(inbuf[c])
<1>1. c \in Conns /\ inbuf[c] # <<>> /\ inbuf[c] \in Seq(Event) /\ Tail(inbuf[c]) \in Seq(Event)
      /\ DOMAIN inbuf[c] = 1 .. Len(inbuf[c]) /\ Len(inbuf[c]) \in Nat /\ 1 \in DOMAIN inbuf[c]
      /\ e = inbuf[c][1] /\ e \in Event
  <2>1. c \in Conns /\ inbuf[c] # <<>> /\ inbuf[c] \in Seq(Event)
    BY <1>0, <1>p DEF TypeOK
  <2> QED
    BY <2>1, HeadTailProperties
<1>2. /\ inbuf' = [inbuf EXCEPT ![c] = Tail(@)] /\ data' = Append(data, e) /\ UNCHANGED <<toCore, inputs>>
  BY <1>p DEF ReadBody, core
<1>3. th'["out"].pc # "body"
  BY <1>0, RoundEffect
<1>4. inbuf'[c] = Tail(inbuf[c]) /\ \A d \in Conns : d # c => inbuf'[d] = inbuf[d]
  BY <1>0, <1>1, <1>2 DEF TypeOK
<1>5. /\ toCore \in Seq(Event) /\ data \in Seq(Event)
      /\ Ordered(toCore) /\ Ordered(data) /\ Before(toCore, data) /\ Known(toCore) /\ Known(data)
      /\ \A d \in Conns : BufInv(d) /\ inbuf[d] \in Seq(Event)
  BY <1>0 DEF EventInv, TypeOK, BufInv
<1>6. Rest(Tail(inbuf[c]), inbuf[c])
  BY <1>1, TailIsRest
<1> HIDE DEF e
<1>7. e.from = c /\ e.n <= inputs["peer"]
  BY <1>1, <1>5 DEF BufInv, Known
<1>8. /\ \A i \in DOMAIN toCore : toCore[i].from = e.from => toCore[i].n < e.n
      /\ \A i \in DOMAIN data : data[i].from = e.from => data[i].n < e.n
  BY <1>1, <1>5 DEF BufInv, Before
<1>9. Ordered(data') /\ Before(toCore, data') /\ Known(data')
  BY <1>1, <1>2, <1>5, <1>7, <1>8, AppendKeeps
<1>10. ASSUME NEW d \in Conns, d # c
       PROVE  BufInv(d)'
  <2>1. Ordered(inbuf[d]) /\ Known(inbuf[d]) /\ Before(toCore, inbuf[d]) /\ Before(data, inbuf[d])
        /\ \A i \in DOMAIN inbuf[d] : inbuf[d][i].from = d /\ (inbuf[d][i].kind # "cot" => inbuf[d][i].user \in Users)
    BY <1>5 DEF BufInv
  <2>2. Before(data', inbuf[d])
    <3>1. \A j \in DOMAIN inbuf[d] : e.from # inbuf[d][j].from
      BY <1>7, <1>10, <2>1
    <3> QED
      BY <1>1, <1>2, <1>5, <2>1, <3>1, AppendKeeps
  <2>3. inbuf'[d] = inbuf[d]
    BY <1>4, <1>10
  <2>4. Ordered(inbuf[d])' /\ Known(inbuf[d])' /\ Before(toCore, inbuf[d])' /\ Before(data, inbuf[d])'
    <3>1. Ordered(inbuf[d])'
      BY <2>1, <2>3 DEF Ordered
    <3>2. Known(inbuf[d])'
      BY <1>2, <2>1, <2>3 DEF Known
    <3>3. Before(toCore, inbuf[d])'
      <4>1. toCore' = toCore /\ Before(toCore, inbuf[d])
        BY <1>2, <2>1
      <4> QED
        BY <2>3, <4>1 DEF Before
    <3>4. Before(data, inbuf[d])'
      BY <2>2, <2>3 DEF Before
    <3> QED
      BY <3>1, <3>2, <3>3, <3>4
  <2> QED
    BY <2>1, <2>3, <2>4 DEF BufInv
<1>11. BufInv(c)'
  <2> DEFINE b == inbuf[c]
             r == Tail(b)
  <2>1. Ordered(b) /\ Known(b) /\ Before(toCore, b) /\ Before(data, b)
        /\ \A i \in DOMAIN b : b[i].from = c /\ (b[i].kind # "cot" => b[i].user \in Users)
    BY <1>1, <1>5 DEF BufInv
  <2>2. /\ Ordered(r) /\ Known(r) /\ Before(toCore, r) /\ Before(data, r)
        /\ \A i \in DOMAIN r : \E j \in DOMAIN b : r[i] = b[j]
    BY <1>1, <1>6, <2>1, RestKeeps
  <2>3. \A j \in DOMAIN r : e.n < r[j].n
    <3>1. /\ DOMAIN r = 1 .. Len(b) - 1 /\ \A i \in 1 .. Len(b) - 1 : r[i] = b[i + 1]
      BY <1>1, HeadTailProperties
    <3>2. ASSUME NEW j \in DOMAIN r
          PROVE  j + 1 \in DOMAIN b /\ 1 < j + 1 /\ r[j] = b[j + 1]
      BY <1>1, <3>1
    <3> QED
      BY <1>1, <2>1, <3>2 DEF Ordered
  <2>4. Before(data', r)
    BY <1>1, <1>2, <1>5, <2>2, <2>3, AppendKeeps
  <2>5. \A i \in DOMAIN r : r[i].from = c /\ (r[i].kind # "cot" => r[i].user \in Users)
    BY <2>1, <2>2
  <2>6. inbuf'[c] = r
    BY <1>4
  <2> HIDE DEF r, b
  <2>7. Ordered(inbuf[c])' /\ Known(inbuf[c])' /\ Before(toCore, inbuf[c])' /\ Before(data, inbuf[c])'
    <3>1. Ordered(inbuf[c])'
      BY <2>2, <2>6 DEF Ordered
    <3>2. Known(inbuf[c])'
      BY <1>2, <2>2, <2>6 DEF Known
    <3>3. Before(toCore, inbuf[c])'
      BY <1>2, <2>2, <2>6 DEF Before
    <3>4. Before(data, inbuf[c])'
      BY <2>4, <2>6 DEF Before
    <3> QED
      BY <3>1, <3>2, <3>3, <3>4
  <2> QED
    BY <2>5, <2>6, <2>7 DEF BufInv
<1>12. Ordered(toCore)' /\ Known(toCore)' /\ Ordered(data)' /\ Known(data)' /\ Before(toCore, data)'
  BY <1>2, <1>5, <1>9 DEF Ordered, Known, Before
<1> QED
  BY <1>3, <1>10, <1>11, <1>12 DEF EventInv, BufInv

(* The outbound thread throws events away.                                 *)
LEMMA EventDropped ==
    ASSUME IInv, Resync
    PROVE  EventInv'
<1>0. TypeOK /\ EventInv
  BY DEF IInv
<1>1. PICK c \in Conns : c = th["out"].conn
  BY <1>0 DEF EventInv, Resync
<1>2. PICK k \in 1..2 : k <= Len(inbuf[c]) /\ inbuf' = [inbuf EXCEPT ![c] = SubSeq(@, k + 1, Len(@))]
  BY <1>1 DEF Resync
<1>3. (data' = data \/ data' = <<>>) /\ UNCHANGED <<toCore, inputs>>
  BY DEF Resync, core
<1>4. th'["out"].pc # "body"
  BY <1>0, RoundEffect
<1>5. /\ toCore \in Seq(Event) /\ data \in Seq(Event)
      /\ Ordered(toCore) /\ Ordered(data) /\ Before(toCore, data) /\ Known(toCore) /\ Known(data)
      /\ \A d \in Conns : BufInv(d) /\ inbuf[d] \in Seq(Event)
  BY <1>0 DEF EventInv, TypeOK, BufInv
<1>6. \A d \in Conns : inbuf'[d] \in Seq(Event) /\ Rest(inbuf'[d], inbuf[d])
  <2>1. Rest(SubSeq(inbuf[c], k + 1, Len(inbuf[c])), inbuf[c])
    BY <1>2, <1>5, SubSeqIsRest
  <2>2. inbuf'[c] = SubSeq(inbuf[c], k + 1, Len(inbuf[c])) /\ \A d \in Conns : d # c => inbuf'[d] = inbuf[d]
    BY <1>0, <1>2 DEF TypeOK
  <2>3. \A d \in Conns : Rest(inbuf[d], inbuf[d])
    <3> SUFFICES ASSUME NEW d \in Conns
                 PROVE  Rest(inbuf[d], inbuf[d])
      OBVIOUS
    <3>1. DOMAIN inbuf[d] = 1 .. Len(inbuf[d]) /\ Len(inbuf[d]) \in Nat
      BY <1>5
    <3>2. \A i \in DOMAIN inbuf[d] : i \in Nat /\ i + 0 \in DOMAIN inbuf[d] /\ i + 0 = i
      BY <3>1
    <3> QED
      BY <3>2 DEF Rest
  <2>4. \A d \in Conns : inbuf'[d] \in Seq(Event)
    BY TypeStep DEF TypeOK, Next, Outbound
  <2> QED
    BY <2>1, <2>2, <2>3, <2>4
<1>7. Ordered(toCore)' /\ Known(toCore)'
  BY <1>3, <1>5 DEF Ordered, Known
<1>8. Ordered(data)' /\ Known(data)' /\ Before(toCore, data)'
  <2>1. CASE data' = data
    BY <1>3, <1>5, <2>1 DEF Ordered, Known, Before
  <2>2. CASE data' = <<>>
    <3>1. DOMAIN data' = {}
      BY <2>2
    <3> QED
      BY <3>1 DEF Ordered, Known, Before
  <2> QED
    BY <1>3, <2>1, <2>2
<1>9. ASSUME NEW d \in Conns
      PROVE  BufInv(d)'
  <2> DEFINE b == inbuf[d]
             r == inbuf'[d]
  <2>1. Ordered(b) /\ Known(b) /\ Before(toCore, b) /\ Before(data, b)
        /\ \A i \in DOMAIN b : b[i].from = d /\ (b[i].kind # "cot" => b[i].user \in Users)
    BY <1>5 DEF BufInv
  <2>2. /\ Ordered(r) /\ Known(r) /\ Before(toCore, r) /\ Before(data, r)
        /\ \A i \in DOMAIN r : \E j \in DOMAIN b : r[i] = b[j]
    BY <1>5, <1>6, <2>1, RestKeeps
  <2>3. \A i \in DOMAIN r : r[i].from = d /\ (r[i].kind # "cot" => r[i].user \in Users)
    BY <2>1, <2>2
  <2>4. Ordered(inbuf[d])'
    BY <2>2 DEF Ordered
  <2>5. Known(inbuf[d])'
    BY <1>3, <2>2 DEF Known
  <2>6. Before(toCore, inbuf[d])'
    <3>1. toCore' = toCore
      BY <1>3
    <3> QED
      BY <2>2, <3>1 DEF Before
  <2>7. Before(data, inbuf[d])'
    <3>1. CASE data' = data
      BY <2>2, <3>1 DEF Before
    <3>2. CASE data' = <<>>
      <4>1. DOMAIN data' = {}
        BY <3>2
      <4> QED
        BY <4>1 DEF Before
    <3> QED
      BY <1>3, <3>1, <3>2
  <2> QED
    BY <2>3, <2>4, <2>5, <2>6, <2>7 DEF BufInv
<1> QED
  BY <1>4, <1>7, <1>8, <1>9 DEF EventInv, BufInv

(* The outbound thread forwards the oldest event it has read.              *)
LEMMA EventForwarded ==
    ASSUME IInv, Forward, data # <<>>
    PROVE  EventInv'
<1>0. TypeOK /\ EventInv
  BY DEF IInv
<1> DEFINE e == Head(data)
<1>1. /\ data' = Tail(data) /\ (toCore' = toCore \/ toCore' = Append(toCore, e))
      /\ UNCHANGED <<inbuf, inputs>>
  BY DEF Forward, peers, core
<1>2. th'["out"].pc # "body"
  BY <1>0, RoundEffect
<1>3. /\ toCore \in Seq(Event) /\ data \in Seq(Event)
      /\ Ordered(toCore) /\ Ordered(data) /\ Before(toCore, data) /\ Known(toCore) /\ Known(data)
      /\ \A d \in Conns : BufInv(d)
  BY <1>0 DEF EventInv, TypeOK, BufInv
<1>4. /\ DOMAIN data = 1 .. Len(data) /\ Len(data) \in Nat /\ 1 \in DOMAIN data /\ e = data[1]
      /\ e \in Event /\ Tail(data) \in Seq(Event)
      /\ DOMAIN Tail(data) = 1 .. Len(data) - 1 /\ \A i \in 1 .. Len(data) - 1 : Tail(data)[i] = data[i + 1]
  BY <1>3, HeadTailProperties
<1> HIDE DEF e
<1> DEFINE r == Tail(data)
<1>5. Rest(r, data)
  BY <1>3, TailIsRest
<1>6. /\ Ordered(r) /\ Known(r) /\ Before(toCore, r)
      /\ \A x : Before(data, x) => Before(r, x)
  BY <1>3, <1>4, <1>5, RestKeeps
<1>7. \A j \in DOMAIN r : e.from = r[j].from => e.n < r[j].n
  <2>1. ASSUME NEW j \in DOMAIN r
        PROVE  j + 1 \in DOMAIN data /\ 1 < j + 1 /\ r[j] = data[j + 1]
    BY <1>4
  <2> QED
    BY <1>3, <1>4, <2>1 DEF Ordered
<1> HIDE DEF r
<1>8. data' = r
  BY <1>1 DEF r
<1> DEFINE q == Append(toCore, e)
<1>9. Ordered(q) /\ Before(q, r) /\ Known(q)
  <2>1. \A i \in DOMAIN toCore : toCore[i].from = e.from => toCore[i].n < e.n
    BY <1>3, <1>4 DEF Before
  <2>2. e.n <= inputs["peer"]
    BY <1>3, <1>4 DEF Known
  <2> QED
    BY <1>3, <1>4, <1>6, <1>7, <2>1, <2>2, AppendKeeps
<1>10. \A d \in Conns : Before(q, inbuf[d]) /\ Before(toCore, inbuf[d]) /\ Before(r, inbuf[d])
  <2> SUFFICES ASSUME NEW d \in Conns
               PROVE  Before(q, inbuf[d]) /\ Before(toCore, inbuf[d]) /\ Before(r, inbuf[d])
    OBVIOUS
  <2>1. Before(toCore, inbuf[d]) /\ Before(data, inbuf[d])
    BY <1>3 DEF BufInv
  <2>2. \A j \in DOMAIN inbuf[d] : e.from = inbuf[d][j].from => e.n < inbuf[d][j].n
    BY <1>4, <2>1 DEF Before
  <2> QED
    BY <1>3, <1>4, <1>6, <2>1, <2>2, AppendKeeps
<1> HIDE DEF q
<1>11. PICK p : toCore' = p /\ (p = toCore \/ p = q)
  BY <1>1 DEF q
<1>12. /\ Ordered(p) /\ Known(p) /\ Before(p, r)
       /\ \A d \in Conns : Before(p, inbuf[d])
  BY <1>3, <1>6, <1>9, <1>10, <1>11
<1>13. Ordered(toCore)' /\ Known(toCore)'
  BY <1>1, <1>11, <1>12 DEF Ordered, Known
<1>14. Ordered(data)' /\ Known(data)'
  BY <1>1, <1>6, <1>8 DEF Ordered, Known
<1>15. Before(toCore, data)'
  BY <1>8, <1>11, <1>12 DEF Before
<1>16. ASSUME NEW d \in Conns
       PROVE  BufInv(d)'
  <2>1. Ordered(inbuf[d]) /\ Known(inbuf[d]) /\ inbuf' = inbuf /\ inputs' = inputs
        /\ \A i \in DOMAIN inbuf[d] : inbuf[d][i].from = d /\ (inbuf[d][i].kind # "cot" => inbuf[d][i].user \in Users)
    BY <1>1, <1>3 DEF BufInv
  <2>2. Ordered(inbuf[d])' /\ Known(inbuf[d])'
    BY <2>1 DEF Ordered, Known
  <2>3. Before(toCore, inbuf[d])'
    BY <1>11, <1>12, <2>1 DEF Before
  <2>4. Before(data, inbuf[d])'
    BY <1>8, <1>10, <2>1 DEF Before
  <2> QED
    BY <2>1, <2>2, <2>3, <2>4 DEF BufInv
<1> QED
  BY <1>2, <1>13, <1>14, <1>15, <1>16 DEF EventInv, BufInv

(* Every step keeps the order of the events forwarded, read and buffered.  *)
LEMMA EventStep ==
    ASSUME IInv, [Next]_vars
    PROVE  EventInv'
<1>0. /\ ThreadOK /\ TypeOK /\ EventInv /\ "in" \in Thread /\ "out" \in Thread /\ Thread = {"in", "out"}
      /\ {"send", "dial", "clear", "unlist", "disable"} \subseteq Places["in"]
  BY TypeParts, Names DEF IInv
<1>1. th["out"].pc = "body" => th["out"].conn \in Conns /\ inbuf[th["out"].conn] # <<>>
  BY <1>0 DEF EventInv
<1>2. CASE UNCHANGED vars
  <2>1. UNCHANGED <<toCore, data, inbuf, inputs, th>>
    BY <1>2 DEF vars
  <2> QED
    BY <1>1, <2>1, EventAside
<1>3. CASE Environment /\ ~(\E c \in Conns : PeerSends(c))
  <2>1. UNCHANGED <<toCore, data, inbuf, th>>
    BY <1>3 DEF Environment, Dial, PeerLeaves, CoreSends, RestPost, RestRead, RestAct, round, peers
  <2>2. inputs'["peer"] = inputs["peer"]
    <3>1. inputs' = inputs \/ Input("core") \/ Input("rest")
      BY <1>3 DEF Environment, Dial, PeerLeaves, CoreSends, RestPost, RestRead, RestAct, core, CanAsk
    <3>2. CoreOK /\ "peer" \in Sources /\ "rest" \in Sources /\ "core" \in Sources
      BY <1>0, TypeParts DEF Sources
    <3> QED
      BY <3>1, <3>2, InputEffect
  <2> QED
    BY <1>1, <2>1, <2>2, EventAside
<1>4. CASE Inbound
  <2>1. UNCHANGED <<toCore, data, inbuf, inputs>>
    BY <1>4 DEF Inbound, Disconnect, TakeCommand, SendNext, Connect, ClearError, Unlist, Disable,
         Register, Hold, Activate, FindFederate, CloseConn, Unregister, DeleteEntry, RemoveActive,
         round, peers, core
  <2>2. th'["out"] = th["out"]
    <3>1. CASE TakeCommand \/ SendNext \/ Connect
      BY <1>0, <3>1, TakeEffect, SendEffect, ConnectEffect
    <3>2. CASE ClearError \/ Unlist \/ Disable
      BY <1>0, <3>2, GotoEffect, BackEffect DEF ClearError, Unlist, Disable
    <3>3. CASE SharedStep("in")
      BY <1>0, <3>3, SharedThread
    <3> QED
      BY <1>4, <3>1, <3>2, <3>3 DEF Inbound, SharedStep
  <2> QED
    BY <1>1, <2>1, <2>2, EventAside
<1>5. CASE SharedStep("out")
  <2>1. UNCHANGED <<toCore, data, inbuf, inputs>>
    BY <1>5 DEF SharedStep, Disconnect, Register, Hold, Activate, FindFederate, CloseConn, Unregister,
         DeleteEntry, RemoveActive, round, peers, core
  <2>2. th'["out"].pc # "body"
    <3>1. CASE FindFederate("out") /\ th["out"].id \in HeldIds
      <4>1. th' = [th EXCEPT !["out"].pc = "close", !["out"].conn = ConnOf(th["out"].id)]
        BY <3>1 DEF FindFederate
      <4> QED
        BY <1>0, <4>1 DEF ThreadOK, Local
    <3>2. CASE ~(FindFederate("out") /\ th["out"].id \in HeldIds)
      <4>1. Back("out") \/ \E pc \in Shared : pc # "body" /\ Goto("out", pc)
        BY <1>5, <3>2 DEF SharedStep, Disconnect, Register, Hold, Activate, FindFederate, CloseConn,
             Unregister, DeleteEntry, RemoveActive, Shared
      <4> QED
        BY <1>0, <4>1, BackEffect, GotoEffect, Names
    <3> QED
      BY <3>1, <3>2
  <2> QED
    BY <2>1, <2>2, EventAside
<1>6. CASE Select
  <2>1. UNCHANGED <<toCore, inbuf, inputs>> /\ data' = <<>>
    BY <1>6 DEF Select, peers, core
  <2>2. th'["out"].pc # "body"
    BY <1>0, <1>6, RoundEffect
  <2>3. DOMAIN data' = {}
    BY <2>1
  <2>4. Ordered(data)' /\ Known(data)' /\ Before(toCore, data)' /\ \A c \in Conns : Before(data, inbuf[c])'
    BY <2>3 DEF Ordered, Known, Before
  <2>5. Ordered(toCore)' /\ Known(toCore)'
    BY <1>0, <2>1 DEF EventInv, Ordered, Known
  <2>6. \A c \in Conns : Ordered(inbuf[c])' /\ Known(inbuf[c])' /\ Before(toCore, inbuf[c])'
    BY <1>0, <2>1 DEF EventInv, Ordered, Known, Before
  <2>7. \A c \in Conns : \A i \in DOMAIN inbuf[c] :
          inbuf[c][i].from = c /\ (inbuf[c][i].kind # "cot" => inbuf[c][i].user \in Users)
    BY <1>0 DEF EventInv
  <2> QED
    BY <2>1, <2>2, <2>4, <2>5, <2>6, <2>7 DEF EventInv
<1>7. CASE (Forward /\ data = <<>>) \/ Accept \/ ReadClosed
  <2>1. UNCHANGED <<toCore, data, inbuf, inputs>>
    BY <1>7 DEF Forward, Accept, ReadClosed, peers, core, round
  <2>2. th' = th \/ th'["out"].pc # "body"
    BY <1>0, <1>7, RoundEffect, AcceptEffect
  <2> QED
    BY <1>1, <2>1, <2>2, EventAside
<1>8. ASSUME NEW c \in Conns, ReadHeader(c)
      PROVE  EventInv'
  <2>1. UNCHANGED <<toCore, data, inbuf, inputs>>
    BY <1>8 DEF ReadHeader, peers, core
  <2>2. th'["out"].pc = "body" => th'["out"].conn \in Conns /\ inbuf[th'["out"].conn] # <<>>
    BY <1>0, <1>1, <1>8, HeaderEffect
  <2> QED
    BY <2>1, <2>2, EventAside
<1> QED
  BY <1>2, <1>3, <1>4, <1>5, <1>6, <1>7, <1>8, EventSent, EventRead, EventDropped, EventForwarded
     DEF Next, Environment, Outbound, SharedStep

-----------------------------------------------------------------------------
(* A process that starts.                                                  *)
LEMMA InitInv == Init => IInv
<1> SUFFICES ASSUME Init
             PROVE  IInv
  OBVIOUS
<1>0. /\ federates = <<>> /\ sel = {} /\ active = {} /\ dbOk = TRUE /\ cmds = <<>> /\ rest = <<>>
      /\ toCore = <<>> /\ data = <<>> /\ todo = {} /\ userDict = {} /\ role \in Roles
      /\ sock = [c \in Conns |-> "new"] /\ inbuf = [c \in Conns |-> <<>>] /\ got = [c \in Conns |-> <<>>]
      /\ status = [f \in Feds |-> None] /\ inputs = [s \in Sources |-> 0]
      /\ th = [t \in Thread |-> Idle]
  BY DEF Init
<1>1. /\ \A t \in Thread : th[t] = Idle /\ th[t].pc = "idle" /\ Idle \in Local
      /\ Thread = {"in", "out"}
  BY <1>0, Names
<1>2. /\ DOMAIN federates = {} /\ DOMAIN cmds = {} /\ DOMAIN toCore = {} /\ DOMAIN data = {}
      /\ \A c \in Conns : got[c] = <<>> /\ DOMAIN got[c] = {} /\ inbuf[c] = <<>> /\ DOMAIN inbuf[c] = {}
  BY <1>0
<1>3. TypeOK
  <2>1. TableOK
    BY <1>0 DEF TableOK
  <2>2. PeersOK
    BY <1>0 DEF PeersOK
  <2>3. CoreOK
    BY <1>0, Names DEF CoreOK
  <2>4. RoundOK
    BY <1>0 DEF RoundOK
  <2>5. ThreadOK
    <3>1. \A t \in Thread : "idle" \in Places[t]
      BY Names DEF Shared
    <3> QED
      BY <1>0, <1>1, <3>1 DEF ThreadOK
  <2> QED
    BY <1>0, <2>1, <2>2, <2>3, <2>4, <2>5
       DEF TypeOK, TableOK, PeersOK, CoreOK, RoundOK, ThreadOK
<1>4. LocalInv /\ SetupInv
  BY <1>1 DEF LocalInv, SetupInv, Setup, Teardown
<1>5. OwnerInv
  <2>1. \A id, c : ~Claims(id, c)
    BY <1>0, <1>1, <1>2 DEF Claims, Setup, Teardown
  <2> QED
    BY <2>1 DEF OwnerInv
<1>6. RaceInv
  BY <1>2 DEF RaceInv
<1>7. ServerInv
  <2>1. HeldIds = {} /\ Watched = {}
    BY <1>0, <1>2 DEF HeldIds, Watched
  <2> QED
    BY <1>0, <1>1, <1>2, <2>1 DEF ServerInv, Setup, Teardown
<1>8. ClientInv
  BY <1>0, <1>1 DEF ClientInv
<1>9. SendInv
  BY <1>1, <1>2 DEF SendInv
<1>10. FreshInv
  BY <1>1, <1>2 DEF FreshInv, Setup
<1>11. EventInv
  BY <1>1, <1>2 DEF EventInv, Ordered, Before, Known
<1> QED
  BY <1>3, <1>4, <1>5, <1>6, <1>7, <1>8, <1>9, <1>10, <1>11 DEF IInv

(* The invariant is inductive.                                             *)
LEMMA NextInv == IInv /\ [Next]_vars => IInv'
BY TypeStep, SocketStep, ServerStep, ClientStep, SendStep, EventStep DEF IInv, SocketInv

-----------------------------------------------------------------------------
(* The inductive invariant holds in every reachable state of a federation  *)
(* process, of either kind.                                                *)
THEOREM Invariance == Spec => []IInv
BY InitInv, NextInv, PTL DEF Spec

(* The variables keep their types: no id has two entries in the table of   *)
(* federates, and each thread is where its own code can be.                *)
THEOREM TypeCorrect == Spec => []TypeOK
<1>1. IInv => TypeOK
  BY DEF IInv
<1> QED
  BY <1>1, Invariance, PTL

(* However disconnect_client and connect_to_server of the two threads race,*)
(* once both threads are at rest every federate of the table is watched by *)
(* the selector through a socket that is not closed.                       *)
THEOREM FederatesWatched == Spec => []FederatesAreWatched
<1>1. IInv => FederatesAreWatched
  <2> SUFFICES ASSUME IInv, \A t \in Thread : AtRest(t), NEW i \in DOMAIN federates
               PROVE  federates[i][2] \in Watched /\ sock[federates[i][2]] # "closed"
    BY DEF FederatesAreWatched, Held
  <2>1. \A t \in Thread : th[t].pc \in {"idle", "dead"}
    BY DEF AtRest
  <2> QED
    BY <2>1 DEF IInv, RaceInv, Deleting
<1> QED
  BY <1>1, Invariance, PTL

(* Whenever the outbound thread of the server is at rest, its table of     *)
(* federates, its selector and its ActiveFederations table name the same   *)
(* connections.                                                            *)
THEOREM TablesAgree == Spec => []ServerTablesAgree
<1>1. IInv => ServerTablesAgree
  <2> SUFFICES ASSUME IInv, role = "server", AtRest("out")
               PROVE  Held = Watched /\ HeldIds = active
    BY DEF ServerTablesAgree
  <2>1. /\ HeldIds = Watched /\ HeldIds = active
        /\ \A i \in DOMAIN federates : federates[i][1] = federates[i][2]
    BY DEF IInv, ServerInv, AtRest
  <2>2. Held = HeldIds
    BY <2>1 DEF Held, HeldIds
  <2> QED
    BY <2>1, <2>2
<1> QED
  BY <1>1, Invariance, PTL

(* Every federate is sent the messages of the core in their order and none *)
(* twice, and the core gets the events of a federate in the order they     *)
(* were sent and none twice, whatever happens to the table meanwhile.      *)
THEOREM InOrder == Spec => []DeliveredInOrder
<1>1. IInv => DeliveredInOrder
  BY DEF IInv, SendInv, EventInv, Ordered, DeliveredInOrder
<1> QED
  BY <1>1, Invariance, PTL
=============================================================================
