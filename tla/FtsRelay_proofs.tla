--------------------------- MODULE FtsRelay_proofs ---------------------------
(***************************************************************************)
(* Proofs about the CoT relay, for any number of connections, points and   *)
(* events and any capacity of the broadcast channel.                       *)
(***************************************************************************)
EXTENDS FtsRelay, SequenceTheorems, TLAPS

\* What a task is handling, by where it is.
TaskInv ==
    \A c \in Conn :
        /\ task[c] # "none" => ident[c] \in Uid
        /\ task[c] = "none" => peer[c] # "up" /\ pc[c] = "idle" /\ ~replayed[c]
        /\ pc[c] \in {"presences", "repeats", "handle", "map", "cache", "send"} => ev[c] \in EventType
        /\ pc[c] = "map" => ev[c].kind \in {"presence", "contact"}
        /\ pc[c] \in {"cache", "send"} => ev[c].kind \in {"presence", "contact", "bye", "other"}
        /\ pc[c] \in {"presences", "repeats", "handle"} /\ ev[c].kind = "point"
              => ev[c].pt \in drew[c]

\* What is under way or shown was cached before.
KnownInv ==
    \A c \in Conn, p \in Point :
        repeat[p] = None => points[c][p] = None /\ About(chan[c], p) = {}

\* Nothing waits for a client that is not there.
QuietInv == \A c \in Conn : peer[c] # "up" => chan[c] = <<>>

\* The channel brings the cached version, also before the replay.
ChanInv ==
    \A c \in Conn, p \in Point :
        peer[c] = "up" /\ c \notin lagged /\ p \notin drew[c] => Ends(chan[c], p, repeat[p])

\* When it brings nothing more, the client already shows that version.
ShownInv ==
    \A c \in Conn, p \in Point :
        Follows(c, p) /\ About(chan[c], p) = {} => points[c][p] = repeat[p]

IInv == TypeOK /\ TaskInv /\ KnownInv /\ QuietInv /\ ChanInv /\ ShownInv

-----------------------------------------------------------------------------
(* Events, messages and queues.                                            *)

\* An event with the kind of a point is one.
LEMMA PointEvent ==
    ASSUME NEW e \in EventType, e.kind = "point"
    PROVE  /\ e.pt \in Point /\ e.v \in Version
           /\ [kind |-> "point", pt |-> e.pt, v |-> e.v] \in MsgType
  BY DEF EventType, MsgType

\* Messages about a point have a point and a version.
LEMMA PointMessage ==
    ASSUME NEW m \in MsgType, m.kind = "point"
    PROVE  m.pt \in Point /\ m.v \in Version
  BY DEF MsgType

\* An empty queue has nothing about a point.
LEMMA AboutEmpty ==
    ASSUME NEW p, NEW v
    PROVE  About(<<>>, p) = {} /\ Ends(<<>>, p, v)
  BY DEF About, Ends

\* A message that is not about p changes nothing for p at the end of a queue.
LEMMA AppendOther ==
    ASSUME NEW q \in Seq(MsgType), NEW m \in MsgType, NEW p \in Point, NEW v,
           ~(m.kind = "point" /\ m.pt = p)
    PROVE  /\ About(Append(q, m), p) = About(q, p)
           /\ Ends(q, p, v) => Ends(Append(q, m), p, v)
  <1>1. /\ Append(q, m) \in Seq(MsgType) /\ Len(Append(q, m)) = Len(q) + 1
        /\ \A i \in 1 .. Len(q) : Append(q, m)[i] = q[i]
        /\ Append(q, m)[Len(q) + 1] = m
        /\ DOMAIN q = 1 .. Len(q) /\ DOMAIN Append(q, m) = 1 .. (Len(q) + 1)
        /\ Len(q) \in Nat
    BY AppendProperties, LenProperties
  <1>2. About(Append(q, m), p) = About(q, p)
    BY <1>1 DEF About
  <1>3. \A i \in About(q, p) : Append(q, m)[i] = q[i]
    BY <1>1 DEF About
  <1> QED  BY <1>2, <1>3 DEF Ends

\* A message about p at the end of a queue is the one that counts.
LEMMA AppendPoint ==
    ASSUME NEW q \in Seq(MsgType), NEW m \in MsgType, NEW p \in Point,
           m.kind = "point", m.pt = p
    PROVE  About(Append(q, m), p) # {} /\ Ends(Append(q, m), p, m.v)
  <1>1. /\ Len(Append(q, m)) = Len(q) + 1
        /\ Append(q, m)[Len(q) + 1] = m
        /\ DOMAIN Append(q, m) = 1 .. (Len(q) + 1)
        /\ Len(q) \in Nat
    BY AppendProperties, LenProperties
  <1>2. Len(q) + 1 \in About(Append(q, m), p)
    BY <1>1 DEF About
  <1>3. ASSUME NEW i \in About(Append(q, m), p),
               \A j \in About(Append(q, m), p) : j <= i
        PROVE  i = Len(q) + 1
    BY <1>1, <1>2, <1>3 DEF About
  <1> QED  BY <1>1, <1>2, <1>3 DEF Ends

\* Taking the first message leaves the last one about p the last one.
LEMMA TailAbout ==
    ASSUME NEW q \in Seq(MsgType), q # <<>>, NEW p \in Point, NEW v
    PROVE  /\ Ends(q, p, v) => Ends(Tail(q), p, v)
           /\ About(q, p) = {} => About(Tail(q), p) = {}
           /\ ~(Head(q).kind = "point" /\ Head(q).pt = p) /\ About(Tail(q), p) = {}
                 => About(q, p) = {}
           /\ Head(q).kind = "point" /\ Head(q).pt = p /\ About(Tail(q), p) = {}
                 /\ Ends(q, p, v) => Head(q).v = v
  <1>1. /\ Tail(q) \in Seq(MsgType) /\ Len(Tail(q)) = Len(q) - 1 /\ Len(q) \in Nat \ {0}
        /\ \A i \in 1 .. (Len(q) - 1) : Tail(q)[i] = q[i + 1]
        /\ Head(q) = q[1]
        /\ DOMAIN q = 1 .. Len(q) /\ DOMAIN Tail(q) = 1 .. (Len(q) - 1)
    BY HeadTailProperties, LenProperties, EmptySeq
  <1>2. \A i \in 1 .. (Len(q) - 1) : i \in About(Tail(q), p) <=> i + 1 \in About(q, p)
    BY <1>1 DEF About
  <1>3. /\ About(Tail(q), p) \subseteq 1 .. (Len(q) - 1)
        /\ About(q, p) \subseteq 1 .. Len(q)
    BY <1>1 DEF About
  <1>4. Ends(q, p, v) => Ends(Tail(q), p, v)
    <2> SUFFICES ASSUME Ends(q, p, v), NEW i \in About(Tail(q), p),
                        \A j \in About(Tail(q), p) : j <= i
                 PROVE  Tail(q)[i] .v = v
      BY DEF Ends
    <2>1. i + 1 \in About(q, p) /\ Tail(q)[i] = q[i + 1]
      BY <1>1, <1>2, <1>3
    <2>2. ASSUME NEW j \in About(q, p) PROVE j <= i + 1
      <3>1. CASE j = 1  BY <3>1, <1>1, <1>3
      <3>2. CASE j # 1
        <4>1. j - 1 \in 1 .. (Len(q) - 1) /\ (j - 1) + 1 = j
          BY <3>2, <1>1, <1>3
        <4>2. j - 1 \in About(Tail(q), p)
          BY <4>1, <1>2
        <4> QED  BY <4>1, <4>2, <1>1, <1>3
      <3> QED  BY <3>1, <3>2
    <2> QED  BY <2>1, <2>2 DEF Ends
  <1>5. About(q, p) = {} => About(Tail(q), p) = {}
    BY <1>2, <1>3
  <1>6. ASSUME About(Tail(q), p) = {}, NEW j \in About(q, p)
        PROVE  j = 1
    <2> SUFFICES ASSUME j # 1 PROVE FALSE  OBVIOUS
    <2>1. j - 1 \in 1 .. (Len(q) - 1) /\ (j - 1) + 1 = j
      BY <1>1, <1>3
    <2> QED  BY <2>1, <1>2, <1>6
  <1>7. 1 \in About(q, p) <=> Head(q).kind = "point" /\ Head(q).pt = p
    BY <1>1 DEF About
  <1>8. ASSUME Head(q).kind = "point", Head(q).pt = p, About(Tail(q), p) = {}, Ends(q, p, v)
        PROVE  Head(q).v = v
    <2>1. \A j \in About(q, p) : j <= 1
      BY <1>6, <1>8
    <2> QED  BY <2>1, <1>7, <1>8, <1>1 DEF Ends
  <1> QED  BY <1>4, <1>5, <1>6, <1>7, <1>8

-----------------------------------------------------------------------------
(* The broadcast channel.                                                  *)

\* A receiver gets the message, unless it loses it, and then it is noted.
LEMMA BroadcastEffect ==
    ASSUME TypeOK, NEW cs \in SUBSET Conn, NEW m \in MsgType, Broadcast(cs, m)
    PROVE  /\ lagged' \in SUBSET Conn /\ lagged \subseteq lagged'
           /\ chan' \in [Conn -> Seq(MsgType)]
           /\ \A c \in Conn : Len(chan'[c]) <= Cap
           /\ \A c \in lagged' : chan'[c] = <<>>
           /\ \A c \in Conn \ lagged' :
                 chan'[c] = IF c \in cs THEN Append(chan[c], m) ELSE chan[c]
  <1>1. lagged' \in SUBSET Conn /\ lagged \subseteq lagged'
    BY DEF TypeOK, Broadcast
  <1>2. /\ \A c \in lagged' : chan'[c] = <<>>
        /\ \A c \in Conn \ lagged' :
              chan'[c] = IF c \in cs THEN Append(chan[c], m) ELSE chan[c]
    BY <1>1 DEF Broadcast
  <1>3. /\ <<>> \in Seq(MsgType) /\ Len(<<>>) = 0
        /\ \A c \in Conn : /\ Append(chan[c], m) \in Seq(MsgType)
                           /\ Len(Append(chan[c], m)) = Len(chan[c]) + 1
                           /\ Len(chan[c]) \in Nat /\ Len(chan[c]) <= Cap
    BY AppendProperties, LenProperties, EmptySeq DEF TypeOK
  <1>4. chan' \in [Conn -> Seq(MsgType)]
    <2>1. \A c \in Conn :
             (IF c \in lagged' THEN <<>>
              ELSE IF c \in cs THEN Append(chan[c], m) ELSE chan[c]) \in Seq(MsgType)
      BY <1>3 DEF TypeOK
    <2> QED  BY <2>1 DEF Broadcast
  <1>5. \A c \in Conn : Len(chan'[c]) <= Cap
    <2> TAKE c \in Conn
    <2>1. CASE c \in lagged'  BY <2>1, <1>2, <1>3, RelayAssumption
    <2>2. CASE c \notin lagged' /\ c \in cs
      <3>1. Len(chan[c]) # Cap  BY <2>2 DEF Broadcast
      <3>2. chan'[c] = Append(chan[c], m)  BY <2>2, <1>2
      <3>3. Len(chan[c]) + 1 <= Cap  BY <3>1, <1>3, RelayAssumption
      <3> QED  BY <3>2, <3>3, <1>3
    <2>3. CASE c \notin lagged' /\ c \notin cs  BY <2>3, <1>2, <1>3
    <2> QED  BY <2>1, <2>2, <2>3
  <1>6. \A c \in Conn \ lagged' :
           chan'[c] = IF c \in cs THEN Append(chan[c], m) ELSE chan[c]
    BY <1>2
  <1> QED  BY <1>1, <1>2, <1>4, <1>5, <1>6

\* A message about no point changes nothing about points.
LEMMA BroadcastNoPoint ==
    ASSUME IInv, NEW cs \in SUBSET Receivers, NEW m \in MsgType, m.kind # "point",
           Broadcast(cs, m), UNCHANGED <<peer, ident, replayed, drew, repeat, points>>,
           \A c \in Conn : pc'[c] \notin {"presences", "repeats"}
                             => pc[c] \notin {"presences", "repeats"}
    PROVE  KnownInv' /\ QuietInv' /\ ChanInv' /\ ShownInv'
  <1>1. /\ lagged \subseteq lagged'
        /\ \A c \in lagged' : chan'[c] = <<>>
        /\ \A c \in Conn \ lagged' :
              chan'[c] = IF c \in cs THEN Append(chan[c], m) ELSE chan[c]
    BY BroadcastEffect DEF IInv, Receivers
  <1>9. QuietInv'
    <2>1. \A c \in Conn : peer[c] # "up" => c \notin cs  BY DEF Receivers
    <2> QED  BY <1>1, <2>1 DEF IInv, QuietInv
  <1>2. ASSUME NEW c \in Conn, NEW p \in Point
        PROVE  /\ c \in lagged' => About(chan'[c], p) = {}
               /\ c \notin lagged' => About(chan'[c], p) = About(chan[c], p)
               /\ \A v : c \notin lagged' /\ Ends(chan[c], p, v) => Ends(chan'[c], p, v)
    <2>1. chan[c] \in Seq(MsgType)  BY DEF IInv, TypeOK
    <2>2. ~(m.kind = "point" /\ m.pt = p)  OBVIOUS
    <2>3. CASE c \in lagged'
      <3>1. chan'[c] = <<>>  BY <2>3, <1>1
      <3> QED  BY <2>3, <3>1, AboutEmpty
    <2>4. CASE c \notin lagged' /\ c \in cs
      <3>1. chan'[c] = Append(chan[c], m)  BY <2>4, <1>1
      <3>2. About(Append(chan[c], m), p) = About(chan[c], p)
        BY <2>1, <2>2, AppendOther
      <3>3. ASSUME NEW v PROVE Ends(chan[c], p, v) => Ends(Append(chan[c], m), p, v)
        BY <2>1, <2>2, AppendOther
      <3> QED  BY <2>4, <3>1, <3>2, <3>3
    <2>5. CASE c \notin lagged' /\ c \notin cs
      <3>1. chan'[c] = chan[c]  BY <2>5, <1>1
      <3> QED  BY <2>5, <3>1
    <2> QED  BY <2>3, <2>4, <2>5
  <1>3. KnownInv'
    BY <1>2 DEF IInv, KnownInv
  <1>4. ChanInv'
    BY <1>1, <1>2 DEF IInv, ChanInv
  <1>5. ShownInv'
    BY <1>1, <1>2 DEF IInv, ShownInv, Follows
  <1> QED  BY <1>3, <1>4, <1>5, <1>9

\* When nothing about points, their queues and their clients changes, what was
\* said of them stays true.
LEMMA PointsUnchanged ==
    ASSUME IInv,
           UNCHANGED <<peer, ident, repeat, chan, lagged, points>>,
           \A c \in Conn : /\ drew[c] \subseteq drew'[c]
                           /\ pc'[c] \notin {"presences", "repeats"} /\ replayed'[c]
                                 /\ ident[c] \notin WinTak
                              => pc[c] \notin {"presences", "repeats"} /\ replayed[c]
    PROVE  KnownInv' /\ QuietInv' /\ ChanInv' /\ ShownInv'
  <1>1. KnownInv'  BY DEF IInv, KnownInv
  <1>2. ChanInv'  BY DEF IInv, ChanInv
  <1>3. ShownInv'  BY DEF IInv, ShownInv, Follows
  <1>4. QuietInv'  BY DEF IInv, QuietInv
  <1> QED  BY <1>1, <1>2, <1>3, <1>4

\* A message about a point brings what the cache holds from then on to all that
\* have not drawn the point.
LEMMA BroadcastPoint ==
    ASSUME IInv, NEW cs \in SUBSET Receivers, NEW m \in MsgType, m.kind = "point",
           Broadcast(cs, m), repeat' = [repeat EXCEPT ![m.pt] = m.v],
           \A c \in Receivers \ cs : m.pt \in drew[c],
           UNCHANGED <<peer, ident, replayed, drew, points>>,
           \A c \in Conn : pc'[c] \notin {"presences", "repeats"}
                             => pc[c] \notin {"presences", "repeats"}
    PROVE  KnownInv' /\ QuietInv' /\ ChanInv' /\ ShownInv'
  <1>1. /\ lagged \subseteq lagged'
        /\ \A c \in lagged' : chan'[c] = <<>>
        /\ \A c \in Conn \ lagged' :
              chan'[c] = IF c \in cs THEN Append(chan[c], m) ELSE chan[c]
    BY BroadcastEffect DEF IInv, Receivers
  <1>9. QuietInv'
    <2>1. \A c \in Conn : peer[c] # "up" => c \notin cs  BY DEF Receivers
    <2> QED  BY <1>1, <2>1 DEF IInv, QuietInv
  <1>2. /\ m.pt \in Point /\ m.v \in Version /\ m.v # None
        /\ repeat'[m.pt] = m.v
        /\ \A p \in Point : p # m.pt => repeat'[p] = repeat[p]
    BY PointMessage, RelayAssumption DEF IInv, TypeOK
  <1>3. ASSUME NEW c \in Conn, NEW p \in Point, p # m.pt
        PROVE  /\ c \in lagged' => About(chan'[c], p) = {}
               /\ c \notin lagged' => About(chan'[c], p) = About(chan[c], p)
               /\ \A v : c \notin lagged' /\ Ends(chan[c], p, v) => Ends(chan'[c], p, v)
    <2>1. chan[c] \in Seq(MsgType)  BY DEF IInv, TypeOK
    <2>2. ~(m.kind = "point" /\ m.pt = p)  BY <1>3
    <2>3. CASE c \in lagged'
      <3>1. chan'[c] = <<>>  BY <2>3, <1>1
      <3> QED  BY <2>3, <3>1, AboutEmpty
    <2>4. CASE c \notin lagged' /\ c \in cs
      <3>1. chan'[c] = Append(chan[c], m)  BY <2>4, <1>1
      <3>2. About(Append(chan[c], m), p) = About(chan[c], p)
        BY <2>1, <2>2, AppendOther
      <3>3. ASSUME NEW v PROVE Ends(chan[c], p, v) => Ends(Append(chan[c], m), p, v)
        BY <2>1, <2>2, AppendOther
      <3> QED  BY <2>4, <3>1, <3>2, <3>3
    <2>5. CASE c \notin lagged' /\ c \notin cs
      <3>1. chan'[c] = chan[c]  BY <2>5, <1>1
      <3> QED  BY <2>5, <3>1
    <2> QED  BY <2>3, <2>4, <2>5
  <1>4. ASSUME NEW c \in Conn, c \notin lagged', peer[c] = "up", m.pt \notin drew[c]
        PROVE  About(chan'[c], m.pt) # {} /\ Ends(chan'[c], m.pt, repeat'[m.pt])
    <2>1. c \in cs  BY <1>4 DEF Receivers
    <2>2. chan'[c] = Append(chan[c], m) /\ chan[c] \in Seq(MsgType)
      BY <2>1, <1>1, <1>4 DEF IInv, TypeOK
    <2> QED  BY <2>2, <1>2, AppendPoint
  <1>5. KnownInv'
    BY <1>2, <1>3 DEF IInv, KnownInv
  <1>6. ChanInv'
    <2> SUFFICES ASSUME NEW c \in Conn, NEW p \in Point,
                        peer[c] = "up", c \notin lagged', p \notin drew[c]
                 PROVE  Ends(chan'[c], p, repeat'[p])
      BY DEF ChanInv
    <2>1. CASE p = m.pt  BY <2>1, <1>4
    <2>2. CASE p # m.pt  BY <2>2, <1>1, <1>2, <1>3 DEF IInv, ChanInv
    <2> QED  BY <2>1, <2>2
  <1>7. ShownInv'
    <2> SUFFICES ASSUME NEW c \in Conn, NEW p \in Point,
                        Follows(c, p)', About(chan'[c], p) = {}
                 PROVE  points[c][p] = repeat'[p]
      BY DEF ShownInv
    <2>1. Follows(c, p) /\ c \notin lagged' /\ peer[c] = "up" /\ p \notin drew[c]
      BY <1>1 DEF Follows
    <2>2. p # m.pt  BY <2>1, <1>4
    <2>3. About(chan[c], p) = {}  BY <2>1, <2>2, <1>3
    <2> QED  BY <2>1, <2>2, <2>3, <1>2 DEF IInv, ShownInv
  <1> QED  BY <1>5, <1>6, <1>7, <1>9

\* The message of an event that is sent is one, and of a point is that point.
LEMMA MsgOfType ==
    ASSUME IInv, NEW c \in Conn, task[c] = "up"
    PROVE  /\ pc[c] = "send" => MsgOf(c) \in MsgType /\ MsgOf(c).kind # "point"
           /\ pc[c] = "handle" /\ ev[c].kind = "point" =>
                 /\ MsgOf(c) \in MsgType
                 /\ MsgOf(c) = [kind |-> "point", pt |-> ev[c].pt, v |-> ev[c].v]
                 /\ ev[c].pt \in Point /\ ev[c].v \in Version /\ ev[c].pt \in drew[c]
  <1>1. ident[c] \in Uid  BY DEF IInv, TaskInv
  <1>2. ASSUME pc[c] = "send"
        PROVE  MsgOf(c) \in MsgType /\ MsgOf(c).kind # "point"
    <2>1. ev[c].kind \in {"presence", "contact", "bye", "other"}
      BY <1>2 DEF IInv, TaskInv
    <2>2. MsgOf(c) = [kind |-> ev[c].kind, uid |-> ident[c]]
      BY <2>1 DEF MsgOf
    <2> QED  BY <2>1, <2>2, <1>1 DEF MsgType
  <1>3. ASSUME pc[c] = "handle", ev[c].kind = "point"
        PROVE  /\ MsgOf(c) \in MsgType
               /\ MsgOf(c) = [kind |-> "point", pt |-> ev[c].pt, v |-> ev[c].v]
               /\ ev[c].pt \in Point /\ ev[c].v \in Version /\ ev[c].pt \in drew[c]
    <2>1. ev[c] \in EventType /\ ev[c].pt \in drew[c]
      BY <1>3 DEF IInv, TaskInv
    <2> QED  BY <2>1, <1>3, PointEvent DEF MsgOf
  <1> QED  BY <1>2, <1>3

-----------------------------------------------------------------------------
(* Types and tasks.                                                        *)

\* The invariant holds before the first connection.
LEMMA InitInv == Init => IInv
  <1> SUFFICES ASSUME Init PROVE IInv  OBVIOUS
  <1>1. TypeOK
    BY EmptySeq, RelayAssumption DEF Init, TypeOK
  <1>2. TaskInv  BY DEF Init, TaskInv
  <1>3. KnownInv /\ QuietInv /\ ChanInv
    BY AboutEmpty DEF Init, KnownInv, QuietInv, ChanInv
  <1>4. ShownInv  BY DEF Init, ShownInv, Follows
  <1> QED  BY <1>1, <1>2, <1>3, <1>4 DEF IInv

\* What clients do keeps the types.
LEMMA EnvironmentType == IInv /\ Environment => TypeOK' /\ TaskInv'
  <1> SUFFICES ASSUME IInv, Environment PROVE TypeOK' /\ TaskInv'  OBVIOUS
  <1> USE RelayAssumption DEF IInv
  <1>1. ASSUME NEW c \in Conn, NEW u \in Uid, Accept(c, u) PROVE TypeOK' /\ TaskInv'
    <2>1. TypeOK'
      BY <1>1 DEF TypeOK, Accept, netVars, taskVars, mapVars, chanVars, viewVars, histVars
    <2>2. TaskInv'
      BY <1>1 DEF TypeOK, TaskInv, Accept, histVars
    <2> QED  BY <2>1, <2>2
  <1>2. ASSUME NEW c \in Conn, NEW how \in {"closed", "lost"}, Close(c, how)
        PROVE TypeOK' /\ TaskInv'
    <2>1. TypeOK'
      BY <1>2, EmptySeq DEF TypeOK, Close, taskVars, mapVars, histVars
    <2>2. TaskInv'
      BY <1>2 DEF TypeOK, TaskInv, Close, taskVars, histVars
    <2> QED  BY <2>1, <2>2
  <1>3. ASSUME NEW c \in Conn, NEW e \in EventType, Read(c, e) PROVE TypeOK' /\ TaskInv'
    <2>1. e.kind = "point" => e.pt \in Point
      BY PointEvent
    <2>2. drew' \in [Conn -> SUBSET Point] /\ \A d \in Conn : drew[d] \subseteq drew'[d]
      BY <1>3, <2>1 DEF TypeOK, Read
    <2>3. TypeOK'
      BY <1>3, <2>2 DEF TypeOK, Read, netVars, mapVars, chanVars, viewVars
    <2>4. TaskInv'
      <3>1. e.kind = "point" => e.pt \in drew'[c]
        BY <1>3 DEF TypeOK, Read
      <3> SUFFICES ASSUME NEW d \in Conn
                   PROVE  /\ task'[d] # "none" => ident'[d] \in Uid
                          /\ task'[d] = "none" => peer'[d] # "up" /\ pc'[d] = "idle" /\ ~replayed'[d]
                          /\ pc'[d] \in {"presences", "repeats", "handle", "map", "cache", "send"}
                                => ev'[d] \in EventType
                          /\ pc'[d] = "map" => ev'[d].kind \in {"presence", "contact"}
                          /\ pc'[d] \in {"cache", "send"}
                                => ev'[d].kind \in {"presence", "contact", "bye", "other"}
                          /\ pc'[d] \in {"presences", "repeats", "handle"} /\ ev'[d].kind = "point"
                                => ev'[d].pt \in drew'[d]
        BY DEF TaskInv
      <3>2. CASE d = c
        <4>1. /\ ev'[c] = e /\ pc'[c] \in {"presences", "handle"}
              /\ task'[c] = "up" /\ ident'[c] \in Uid
          BY <1>3 DEF TypeOK, TaskInv, Read, At, netVars
        <4> QED  BY <3>2, <3>1, <4>1
      <3>3. CASE d # c
        <4>1. /\ ev'[d] = ev[d] /\ pc'[d] = pc[d] /\ replayed'[d] = replayed[d]
              /\ task'[d] = task[d] /\ ident'[d] = ident[d] /\ drew'[d] = drew[d]
              /\ peer'[d] = peer[d]
          BY <1>3, <3>3 DEF TypeOK, Read, netVars
        <4> QED  BY <4>1 DEF TaskInv
      <3> QED  BY <3>2, <3>3
    <2> QED  BY <2>3, <2>4
  <1> QED  BY <1>1, <1>2, <1>3 DEF Environment

\* So do the steps of a task that broadcast nothing ...
LEMMA LocalType ==
    ASSUME IInv, NEW c \in Conn,
           \/ ReplayPresence(c) \/ ReplayRepeats(c) \/ Ping(c) \/ Other(c)
           \/ RemovePresence(c) \/ UpdateConnState(c) \/ UpdateUidMap(c)
           \/ CachePresence(c) \/ Receive(c) \/ Fail(c) \/ Cleanup(c) \/ Forget(c)
    PROVE  TypeOK' /\ TaskInv'
  <1> USE RelayAssumption DEF IInv, At
  <1>0. ident[c] \in Uid
    BY DEF TaskInv, ReplayPresence, ReplayRepeats, Ping, Other, RemovePresence, UpdateConnState,
           UpdateUidMap, CachePresence, Receive, Fail, Cleanup, Forget
  <1> USE <1>0
  <1>1. CASE ReplayPresence(c)
    <2>1. TypeOK'
      BY <1>1 DEF TypeOK, ReplayPresence, Goto, netVars, mapVars, chanVars, histVars
    <2>2. TaskInv'
      BY <1>1 DEF TypeOK, TaskInv, ReplayPresence, Goto, netVars, histVars
    <2> QED  BY <2>1, <2>2
  <1>2. CASE ReplayRepeats(c)
    <2>1. points' \in [Conn -> [Point -> Version \cup {None}]]
      <3>1. \A p \in Point : Shown(points[c][p], repeat[p]) \in Version \cup {None}
        BY DEF TypeOK, Shown
      <3> QED  BY <1>2, <3>1 DEF TypeOK, ReplayRepeats
    <2>2. TypeOK'
      BY <1>2, <2>1 DEF TypeOK, ReplayRepeats, Goto, netVars, mapVars, chanVars, histVars
    <2>3. TaskInv'
      BY <1>2 DEF TypeOK, TaskInv, ReplayRepeats, Goto, netVars, histVars
    <2> QED  BY <2>2, <2>3
  <1>3. CASE Ping(c)
    <2>1. TypeOK'
      BY <1>3 DEF TypeOK, Ping, Done, netVars, mapVars, chanVars, viewVars, histVars
    <2>2. TaskInv'
      BY <1>3 DEF TypeOK, TaskInv, Ping, Done, netVars, histVars
    <2> QED  BY <2>1, <2>2
  <1>4. CASE Other(c)
    <2>1. TypeOK'
      BY <1>4 DEF TypeOK, Other, Goto, netVars, mapVars, chanVars, viewVars, histVars
    <2>2. TaskInv'
      BY <1>4 DEF TypeOK, TaskInv, Other, Goto, netVars, histVars
    <2> QED  BY <2>1, <2>2
  <1>5. CASE RemovePresence(c)
    <2>1. TypeOK'
      BY <1>5 DEF TypeOK, RemovePresence, Goto, netVars, mapVars, chanVars, viewVars, histVars
    <2>2. TaskInv'
      BY <1>5 DEF TypeOK, TaskInv, RemovePresence, Goto, netVars, histVars
    <2> QED  BY <2>1, <2>2
  <1>6. CASE UpdateConnState(c)
    <2>1. TypeOK'
      BY <1>6 DEF TypeOK, UpdateConnState, Goto, netVars, chanVars, viewVars, histVars
    <2>2. TaskInv'
      BY <1>6 DEF TypeOK, TaskInv, UpdateConnState, Goto, netVars, histVars
    <2> QED  BY <2>1, <2>2
  <1>7. CASE UpdateUidMap(c)
    <2>1. TypeOK'
      BY <1>7 DEF TypeOK, UpdateUidMap, Goto, netVars, chanVars, viewVars, histVars
    <2>2. TaskInv'
      BY <1>7 DEF TypeOK, TaskInv, UpdateUidMap, Goto, netVars, histVars
    <2> QED  BY <2>1, <2>2
  <1>8. CASE CachePresence(c)
    <2>1. TypeOK'
      BY <1>8 DEF TypeOK, CachePresence, Goto, netVars, mapVars, chanVars, viewVars, histVars
    <2>2. TaskInv'
      BY <1>8 DEF TypeOK, TaskInv, CachePresence, Goto, netVars, histVars
    <2> QED  BY <2>1, <2>2
  <1>9. CASE Receive(c)
    <2> DEFINE m == Head(chan[c])
    <2>1. m \in MsgType /\ Tail(chan[c]) \in Seq(MsgType) /\ Len(Tail(chan[c])) <= Cap
      BY <1>9, HeadTailProperties, LenProperties DEF TypeOK, Receive
    <2>2. m.kind \in {"presence", "bye"} => m.uid \in Uid
      BY <2>1 DEF MsgType
    <2>3. ShowUid(c, m) \in SUBSET Uid
      <3> HIDE DEF m
      <3>1. CASE m.kind = "presence"  BY <2>2, <3>1 DEF TypeOK, ShowUid
      <3>2. CASE m.kind = "bye"  BY <3>2 DEF TypeOK, ShowUid
      <3>3. CASE m.kind \notin {"presence", "bye"}  BY <3>3 DEF TypeOK, ShowUid
      <3> QED  BY <3>1, <3>2, <3>3
    <2>4. points' \in [Conn -> [Point -> Version \cup {None}]]
      <3>1. m.kind = "point" => m.pt \in Point /\ m.v \in Version
        BY <2>1, PointMessage
      <3> QED  BY <1>9, <3>1 DEF TypeOK, Receive
    <2>5. /\ chan' \in [Conn -> Seq(MsgType)] /\ \A d \in Conn : Len(chan'[d]) <= Cap
          /\ view' \in [Conn -> SUBSET Uid]
      BY <1>9, <2>1, <2>3 DEF TypeOK, Receive
    <2>6. TypeOK'
      BY <1>9, <2>4, <2>5 DEF TypeOK, Receive, netVars, taskVars, mapVars, histVars
    <2>7. TaskInv'
      BY <1>9 DEF TypeOK, TaskInv, Receive, netVars, taskVars, histVars
    <2> QED  BY <2>6, <2>7
  <1>10. CASE Fail(c)
    <2>1. TypeOK'
      BY <1>10 DEF TypeOK, Fail, netVars, mapVars, chanVars, viewVars, histVars
    <2>2. TaskInv'
      BY <1>10 DEF TypeOK, TaskInv, Fail, netVars, histVars
    <2> QED  BY <2>1, <2>2
  <1>11. CASE Cleanup(c)
    <2>1. TypeOK'
      BY <1>11 DEF TypeOK, Cleanup, Goto, netVars, chanVars, viewVars, histVars
    <2>2. TaskInv'
      BY <1>11 DEF TypeOK, TaskInv, Cleanup, Goto, netVars, histVars
    <2> QED  BY <2>1, <2>2
  <1>12. CASE Forget(c)
    <2>1. TypeOK'
      BY <1>12 DEF TypeOK, Forget, Goto, netVars, chanVars, viewVars, histVars
    <2>2. TaskInv'
      BY <1>12 DEF TypeOK, TaskInv, Forget, Goto, netVars, histVars
    <2> QED  BY <2>1, <2>2
  <1> QED  BY <1>1, <1>2, <1>3, <1>4, <1>5, <1>6, <1>7, <1>8, <1>9, <1>10, <1>11, <1>12

\* ... and the broadcasts.
LEMMA BroadcastType ==
    ASSUME IInv,
           \/ \E c \in Conn : Repeat(c) \/ Send(c) \/ SendDisconnect(c)
           \/ Ticker
    PROVE  TypeOK' /\ TaskInv'
  <1> USE RelayAssumption DEF IInv, At
  <1>0. /\ Receivers \in SUBSET Conn /\ \A c \in Conn : Receivers \ {c} \in SUBSET Conn
        /\ \A c \in Conn : Receivers \ {c} \in SUBSET Receivers
        /\ \A u \in Uid : /\ [kind |-> "bye", uid |-> u] \in MsgType
                          /\ [kind |-> "presence", uid |-> u] \in MsgType
        /\ \A p \in Point : \A v \in Version : [kind |-> "point", pt |-> p, v |-> v] \in MsgType
    BY DEF Receivers, MsgType
  <1>1. ASSUME NEW c \in Conn, Repeat(c) PROVE TypeOK' /\ TaskInv'
    <2>1. MsgOf(c) \in MsgType /\ ev[c].pt \in Point /\ ev[c].v \in Version
      BY <1>1, MsgOfType DEF Repeat
    <2>2. TypeOK'
      BY <1>1, <1>0, <2>1, BroadcastEffect
      DEF TypeOK, Repeat, Done, netVars, mapVars, viewVars, histVars
    <2>3. TaskInv'
      BY <1>1 DEF TypeOK, TaskInv, Repeat, Done, netVars, histVars
    <2> QED  BY <2>2, <2>3
  <1>2. ASSUME NEW c \in Conn, Send(c) PROVE TypeOK' /\ TaskInv'
    <2>1. MsgOf(c) \in MsgType
      BY <1>2, MsgOfType DEF Send
    <2>2. TypeOK'
      BY <1>2, <1>0, <2>1, BroadcastEffect
      DEF TypeOK, Send, Done, netVars, mapVars, viewVars, histVars
    <2>3. TaskInv'
      BY <1>2 DEF TypeOK, TaskInv, Send, Done, netVars, histVars
    <2> QED  BY <2>2, <2>3
  <1>3. ASSUME NEW c \in Conn, SendDisconnect(c) PROVE TypeOK' /\ TaskInv'
    <2>1. [kind |-> "bye", uid |-> ident[c]] \in MsgType
      BY <1>3, <1>0 DEF SendDisconnect, TaskInv
    <2>2. TypeOK'
      BY <1>3, <1>0, <2>1, BroadcastEffect
      DEF TypeOK, SendDisconnect, netVars, mapVars, viewVars, histVars
    <2>3. TaskInv'
      BY <1>3 DEF TypeOK, TaskInv, SendDisconnect, netVars, histVars
    <2> QED  BY <2>2, <2>3
  <1>4. ASSUME NEW u \in Uid, TickPresence(u) PROVE TypeOK' /\ TaskInv'
    <2>1. TypeOK'
      BY <1>4, <1>0, BroadcastEffect
      DEF TypeOK, TickPresence, netVars, taskVars, mapVars, viewVars, histVars
    <2>2. TaskInv'
      BY <1>4 DEF TaskInv, TickPresence, netVars, taskVars, histVars
    <2> QED  BY <2>1, <2>2
  <1>5. ASSUME NEW p \in Point, TickPoint(p) PROVE TypeOK' /\ TaskInv'
    <2>0. repeat[p] \in Version
      BY <1>5 DEF TypeOK, TickPoint
    <2>1. TypeOK'
      BY <1>5, <1>0, <2>0, BroadcastEffect
      DEF TypeOK, TickPoint, netVars, taskVars, mapVars, viewVars, histVars
    <2>2. TaskInv'
      BY <1>5 DEF TaskInv, TickPoint, netVars, taskVars, histVars
    <2> QED  BY <2>1, <2>2
  <1> QED  BY <1>1, <1>2, <1>3, <1>4, <1>5 DEF Ticker

-----------------------------------------------------------------------------
(* Points.                                                                 *)

\* What clients do.
LEMMA EnvironmentPoints == IInv /\ Environment => KnownInv' /\ QuietInv' /\ ChanInv' /\ ShownInv'
  <1> SUFFICES ASSUME IInv, Environment PROVE KnownInv' /\ QuietInv' /\ ChanInv' /\ ShownInv'  OBVIOUS
  <1> USE DEF IInv
  \* A new connection has had no replay, and its channel is new.
  <1>1. ASSUME NEW c \in Conn, NEW u \in Uid, Accept(c, u)
        PROVE  KnownInv' /\ QuietInv' /\ ChanInv' /\ ShownInv'
    <2>0. UNCHANGED <<chan, lagged, points, repeat, drew, replayed, pc>> /\ ~replayed[c]
      BY <1>1 DEF Accept, TaskInv, chanVars, viewVars, histVars
    <2>1. /\ \A d \in Conn : d # c => peer'[d] = peer[d] /\ ident'[d] = ident[d]
          /\ chan[c] = <<>>
      BY <1>1 DEF Accept, TypeOK, TaskInv, QuietInv
    <2>2. KnownInv' /\ QuietInv'  BY <2>0, <2>1 DEF KnownInv, QuietInv
    <2>3. ChanInv'  BY <2>0, <2>1, AboutEmpty DEF ChanInv
    <2>4. ShownInv'  BY <2>0, <2>1 DEF ShownInv, Follows
    <2> QED  BY <2>2, <2>3, <2>4
  <1>2. ASSUME NEW c \in Conn, NEW how \in {"closed", "lost"}, Close(c, how)
        PROVE  KnownInv' /\ QuietInv' /\ ChanInv' /\ ShownInv'
    <2>1. /\ UNCHANGED <<ident, lagged, repeat, drew, replayed, pc>>
          /\ \A d \in Conn : d # c => /\ peer'[d] = peer[d] /\ chan'[d] = chan[d]
                                      /\ points'[d] = points[d]
          /\ peer'[c] # "up" /\ chan'[c] = <<>>
          /\ \A p \in Point : points'[c][p] = None
      BY <1>2 DEF Close, TypeOK, taskVars, histVars
    <2>2. KnownInv' /\ QuietInv'  BY <2>1, AboutEmpty DEF KnownInv, QuietInv
    <2>3. ChanInv'  BY <2>1 DEF ChanInv
    <2>4. ShownInv'  BY <2>1 DEF ShownInv, Follows
    <2> QED  BY <2>2, <2>3, <2>4
  \* The first event of a client starts the replay before it is handled.
  <1>3. ASSUME NEW c \in Conn, NEW e \in EventType, Read(c, e)
        PROVE  KnownInv' /\ QuietInv' /\ ChanInv' /\ ShownInv'
    <2>1. UNCHANGED <<peer, ident, repeat, chan, lagged, points>>
      BY <1>3 DEF Read, netVars, chanVars, viewVars
    <2>2. \A d \in Conn : /\ drew[d] \subseteq drew'[d]
                          /\ pc'[d] \notin {"presences", "repeats"} /\ replayed'[d]
                                 /\ ident[d] \notin WinTak
                              => pc[d] \notin {"presences", "repeats"} /\ replayed[d]
      BY <1>3 DEF Read, At, TypeOK
    <2> QED  BY <2>1, <2>2, PointsUnchanged
  <1> QED  BY <1>1, <1>2, <1>3 DEF Environment

\* The replay: a cached version replaces what the client shows, and a point that
\* is not cached was never sent to it.
LEMMA ReplayPoints ==
    ASSUME IInv, NEW c \in Conn, ReplayRepeats(c)
    PROVE  KnownInv' /\ QuietInv' /\ ChanInv' /\ ShownInv'
  <1> USE DEF IInv
  <1>1. /\ UNCHANGED <<peer, ident, lagged, repeat, drew, replayed, chan>>
        /\ pc[c] = "repeats"
        /\ \A d \in Conn : d # c => points'[d] = points[d] /\ pc'[d] = pc[d]
    BY DEF ReplayRepeats, Goto, At, TypeOK, netVars, chanVars, histVars
  <1>2. ASSUME NEW p \in Point, peer[c] = "up"
        PROVE  points'[c][p] = repeat[p]
    <2>1. points'[c][p] = Shown(points[c][p], repeat[p])
      BY <1>2 DEF ReplayRepeats, TypeOK
    <2> QED  BY <2>1 DEF Shown, KnownInv
  <1>3. peer[c] # "up" => points' = points
    BY DEF ReplayRepeats
  <1>4. KnownInv'  BY <1>1, <1>2, <1>3 DEF KnownInv
  <1>5. QuietInv' /\ ChanInv'  BY <1>1 DEF QuietInv, ChanInv
  <1>6. ShownInv'  BY <1>1, <1>2 DEF ShownInv, Follows
  <1> QED  BY <1>4, <1>5, <1>6

\* A message from the channel: when it was the last one about its point, it had
\* the cached version, which the client now shows.
LEMMA ReceivePoints ==
    ASSUME IInv, NEW c \in Conn, Receive(c)
    PROVE  KnownInv' /\ QuietInv' /\ ChanInv' /\ ShownInv'
  <1> USE DEF IInv
  <1> DEFINE q == chan[c]
             m == Head(chan[c])
  <1>1. /\ UNCHANGED <<peer, ident, lagged, repeat, drew, replayed, pc>>
        /\ \A d \in Conn : d # c => points'[d] = points[d] /\ chan'[d] = chan[d]
        /\ chan'[c] = Tail(q)
    BY DEF Receive, TypeOK, netVars, taskVars, histVars
  <1>2. q \in Seq(MsgType) /\ q # <<>> /\ m \in MsgType
    BY HeadTailProperties DEF Receive, TypeOK
  <1>3. \A p \in Point :
          points'[c][p] = IF m.kind = "point" /\ m.pt = p THEN m.v ELSE points[c][p]
    BY <1>2, PointMessage DEF Receive, TypeOK
  <1>4. ASSUME NEW p \in Point
        PROVE  /\ \A v : Ends(q, p, v) => Ends(Tail(q), p, v)
               /\ About(q, p) = {} => About(Tail(q), p) = {}
               /\ ~(m.kind = "point" /\ m.pt = p) /\ About(Tail(q), p) = {}
                     => About(q, p) = {}
               /\ \A v : m.kind = "point" /\ m.pt = p /\ About(Tail(q), p) = {}
                            /\ Ends(q, p, v) => m.v = v
    BY <1>2, TailAbout
  <1>5. ASSUME NEW p \in Point, About(q, p) = {}
        PROVE  ~(m.kind = "point" /\ m.pt = p)
    <2>1. m = q[1] /\ 1 \in DOMAIN q
      BY <1>2, HeadTailProperties, LenProperties, EmptySeq
    <2> QED  BY <2>1, <1>5 DEF About
  <1> HIDE DEF q, m
  <1>6. KnownInv'
    <2> SUFFICES ASSUME NEW d \in Conn, NEW p \in Point, repeat[p] = None
                 PROVE  points'[d][p] = None /\ About(chan'[d], p) = {}
      BY <1>1 DEF KnownInv
    <2>1. CASE d # c  BY <2>1, <1>1 DEF KnownInv
    <2>2. CASE d = c
      <3>1. About(q, p) = {} /\ points[c][p] = None  BY DEF KnownInv, q
      <3> QED  BY <3>1, <2>2, <1>1, <1>3, <1>4, <1>5
    <2> QED  BY <2>1, <2>2
  <1>7. ChanInv'
    <2> SUFFICES ASSUME NEW d \in Conn, NEW p \in Point,
                        peer[d] = "up", d \notin lagged, p \notin drew[d]
                 PROVE  Ends(chan'[d], p, repeat[p])
      BY <1>1 DEF ChanInv
    <2>1. CASE d # c  BY <2>1, <1>1 DEF ChanInv
    <2>2. CASE d = c
      <3>1. Ends(q, p, repeat[p])  BY <2>2 DEF ChanInv, q
      <3> QED  BY <3>1, <2>2, <1>1, <1>4
    <2> QED  BY <2>1, <2>2
  <1>8. ShownInv'
    <2> SUFFICES ASSUME NEW d \in Conn, NEW p \in Point,
                        Follows(d, p), About(chan'[d], p) = {}
                 PROVE  points'[d][p] = repeat[p]
      BY <1>1 DEF ShownInv, Follows
    <2>1. CASE d # c  BY <2>1, <1>1 DEF ShownInv
    <2>2. CASE d = c
      <3>1. Ends(q, p, repeat[p])  BY <2>2 DEF ChanInv, Follows, q
      <3>2. About(Tail(q), p) = {}  BY <2>2, <1>1
      <3>3. CASE m.kind = "point" /\ m.pt = p
        BY <3>1, <3>2, <3>3, <1>3, <1>4, <2>2
      <3>4. CASE ~(m.kind = "point" /\ m.pt = p)
        <4>1. About(chan[c], p) = {}  BY <3>2, <3>4, <1>4 DEF q
        <4> QED  BY <4>1, <3>4, <2>2, <1>3 DEF ShownInv
      <3> QED  BY <3>3, <3>4
    <2> QED  BY <2>1, <2>2
  <1>9. QuietInv'  BY <1>1, <1>2 DEF QuietInv, q
  <1> QED  BY <1>6, <1>7, <1>8, <1>9

\* The steps of a task that leave points and channels alone.
LEMMA LocalPoints ==
    ASSUME IInv, NEW c \in Conn,
           \/ ReplayPresence(c) \/ Ping(c) \/ Other(c) \/ RemovePresence(c)
           \/ UpdateConnState(c) \/ UpdateUidMap(c) \/ CachePresence(c)
           \/ Fail(c) \/ Cleanup(c) \/ Forget(c)
    PROVE  KnownInv' /\ QuietInv' /\ ChanInv' /\ ShownInv'
  <1>1. UNCHANGED <<peer, ident, repeat, chan, lagged, points, drew, replayed>>
    BY DEF ReplayPresence, Ping, Other, RemovePresence, UpdateConnState, UpdateUidMap,
           CachePresence, Fail, Cleanup, Forget, netVars, chanVars, viewVars, histVars
  <1>2. ASSUME NEW d \in Conn, pc'[d] \notin {"presences", "repeats"}
        PROVE  pc[d] \notin {"presences", "repeats"}
    BY <1>2 DEF IInv, TypeOK, ReplayPresence, Ping, Other, RemovePresence, UpdateConnState,
           UpdateUidMap, CachePresence, Fail, Cleanup, Forget, Goto, Done, At
  <1> QED  BY <1>1, <1>2, PointsUnchanged

\* The broadcasts.
LEMMA BroadcastPoints ==
    ASSUME IInv,
           \/ \E c \in Conn : Repeat(c) \/ Send(c) \/ SendDisconnect(c)
           \/ Ticker
    PROVE  KnownInv' /\ QuietInv' /\ ChanInv' /\ ShownInv'
  <1>0. /\ Receivers \in SUBSET Conn /\ \A c \in Conn : Receivers \ {c} \in SUBSET Conn
        /\ \A c \in Conn : Receivers \ {c} \in SUBSET Receivers
        /\ \A u \in Uid : /\ [kind |-> "bye", uid |-> u] \in MsgType
                          /\ [kind |-> "presence", uid |-> u] \in MsgType
        /\ \A p \in Point : \A v \in Version : [kind |-> "point", pt |-> p, v |-> v] \in MsgType
    BY DEF Receivers, MsgType
  <1>1. ASSUME NEW c \in Conn, Repeat(c) PROVE KnownInv' /\ QuietInv' /\ ChanInv' /\ ShownInv'
    <2> DEFINE m == MsgOf(c)
    <2>1. /\ m \in MsgType /\ m.kind = "point" /\ m.pt = ev[c].pt /\ m.v = ev[c].v
          /\ m.pt \in drew[c]
      BY <1>1, MsgOfType DEF Repeat, At
    <2>2. /\ Broadcast(Receivers \ {c}, m) /\ repeat' = [repeat EXCEPT ![m.pt] = m.v]
          /\ UNCHANGED <<peer, ident, replayed, drew, points>>
          /\ \A d \in Conn : pc'[d] \notin {"presences", "repeats"}
                               => pc[d] \notin {"presences", "repeats"}
      BY <1>1, <2>1 DEF Repeat, Done, At, netVars, viewVars, histVars, IInv, TypeOK
    <2>3. \A d \in Receivers \ (Receivers \ {c}) : m.pt \in drew[d]
      BY <2>1
    <2> HIDE DEF m
    <2> QED  BY <2>1, <2>2, <2>3, <1>0, BroadcastPoint
  <1>2. ASSUME NEW c \in Conn, Send(c) PROVE KnownInv' /\ QuietInv' /\ ChanInv' /\ ShownInv'
    <2>1. MsgOf(c) \in MsgType /\ MsgOf(c).kind # "point"
      BY <1>2, MsgOfType DEF Send, At
    <2>2. /\ Broadcast(Receivers \ {c}, MsgOf(c))
          /\ UNCHANGED <<peer, ident, replayed, drew, repeat, points>>
          /\ \A d \in Conn : pc'[d] \notin {"presences", "repeats"}
                               => pc[d] \notin {"presences", "repeats"}
      BY <1>2 DEF Send, Done, At, netVars, viewVars, histVars, IInv, TypeOK
    <2> QED  BY <2>1, <2>2, <1>0, BroadcastNoPoint
  <1>3. ASSUME NEW c \in Conn, SendDisconnect(c) PROVE KnownInv' /\ QuietInv' /\ ChanInv' /\ ShownInv'
    <2>1. [kind |-> "bye", uid |-> ident[c]] \in MsgType
      BY <1>3, <1>0 DEF SendDisconnect, IInv, TaskInv, At
    <2>2. /\ Broadcast(Receivers, [kind |-> "bye", uid |-> ident[c]])
          /\ UNCHANGED <<peer, ident, replayed, drew, repeat, points, pc>>
      BY <1>3 DEF SendDisconnect, netVars, viewVars, histVars
    <2> QED  BY <2>1, <2>2, <1>0, BroadcastNoPoint
  <1>4. ASSUME NEW u \in Uid, TickPresence(u) PROVE KnownInv' /\ QuietInv' /\ ChanInv' /\ ShownInv'
    <2>1. /\ Broadcast(Receivers, [kind |-> "presence", uid |-> u])
          /\ UNCHANGED <<peer, ident, replayed, drew, repeat, points, pc>>
      BY <1>4 DEF TickPresence, netVars, taskVars, viewVars, histVars
    <2> QED  BY <2>1, <1>0, BroadcastNoPoint
  <1>5. ASSUME NEW p \in Point, TickPoint(p) PROVE KnownInv' /\ QuietInv' /\ ChanInv' /\ ShownInv'
    <2> DEFINE m == [kind |-> "point", pt |-> p, v |-> repeat[p]]
    <2>1. m \in MsgType /\ m.kind = "point"
      BY <1>5, <1>0 DEF TickPoint, IInv, TypeOK
    <2>2. /\ Broadcast(Receivers, m) /\ repeat' = [repeat EXCEPT ![m.pt] = m.v]
          /\ UNCHANGED <<peer, ident, replayed, drew, points, pc>>
      BY <1>5 DEF TickPoint, IInv, TypeOK, netVars, taskVars, viewVars, histVars
    <2> HIDE DEF m
    <2> QED  BY <2>1, <2>2, <1>0, BroadcastPoint
  <1> QED  BY <1>1, <1>2, <1>3, <1>4, <1>5 DEF Ticker

-----------------------------------------------------------------------------
(* The theorems.                                                           *)

\* Every step keeps the invariant.
LEMMA StepInv == IInv /\ [Next]_vars => IInv'
  <1> SUFFICES ASSUME IInv, [Next]_vars PROVE IInv'  OBVIOUS
  <1>1. CASE Environment
    BY <1>1, EnvironmentType, EnvironmentPoints DEF IInv
  <1>2. ASSUME NEW c \in Conn, Work(c) PROVE IInv'
    <2>1. TypeOK' /\ TaskInv'
      BY <1>2, LocalType, BroadcastType DEF Work
    <2>2. KnownInv' /\ QuietInv' /\ ChanInv' /\ ShownInv'
      BY <1>2, ReplayPoints, ReceivePoints, LocalPoints, BroadcastPoints DEF Work
    <2> QED  BY <2>1, <2>2 DEF IInv
  <1>3. CASE Ticker
    BY <1>3, BroadcastType, BroadcastPoints DEF IInv
  <1>4. CASE UNCHANGED vars
    BY <1>4 DEF IInv, TypeOK, TaskInv, KnownInv, QuietInv, ChanInv, ShownInv, Follows, vars, netVars,
                taskVars, mapVars, chanVars, viewVars, histVars
  <1> QED  BY <1>1, <1>2, <1>3, <1>4 DEF Next

(* The invariant behind the theorems of this module holds of the relay.    *)
THEOREM Invariance == Spec => []IInv
  BY InitInv, StepInv, PTL DEF Spec

(* The relay keeps its types: no queue of the broadcast channel is longer  *)
(* than its capacity.                                                      *)
THEOREM TypeCorrect == Spec => []TypeOK
  <1>1. IInv => TypeOK  BY DEF IInv
  <1> QED  BY <1>1, Invariance, PTL

(* send_cached_events replays the repeat cache while other tasks write it  *)
(* and broadcast: whichever way the replay, the broadcasts and the ticker  *)
(* interleave, a client that follows a point ends up with the version that *)
(* the cache holds.                                                        *)
THEOREM PointsFollowed == Spec => []PointsConverge
  <1>1. IInv => PointsConverge
    BY DEF IInv, ChanInv, ShownInv, PointsConverge, Follows
  <1> QED  BY <1>1, Invariance, PTL

=============================================================================
