-------------------------- MODULE CotDelivery_proofs --------------------------
(***************************************************************************)
(* Proofs about the delivery of CoT messages, for any number of messages,  *)
(* sources and clients.                                                    *)
(***************************************************************************)
EXTENDS CotDelivery, FiniteSetTheorems, SequenceTheorems, TLAPS

\* What is on a pipe exists, and is not the answer of a component.
Shareable(m) == body[m] # NoBody /\ body[m].kind # "response"

BodyInv ==
    /\ \A p \in Svc \cup Src : \A i \in DOMAIN toCore[p] : Shareable(toCore[p][i])
    /\ \A s \in Svc : \A i \in DOMAIN toSvc[s] : Shareable(toSvc[s][i])
    /\ \A s \in Svc : \A i \in DOMAIN seen[s] : body[seen[s][i]] # NoBody
    /\ \A p \in Src : \A i \in DOMAIN sent[p] : body[sent[p][i]] # NoBody

\* How many messages of a source the core has passed on.
Passed(p) == Len(sent[p]) - Len(toCore[p])

\* The others wait on its pipe, in order; no message is sent twice.
SourceInv ==
    \A p \in Src :
        /\ Len(toCore[p]) <= Len(sent[p])
        /\ \A i \in DOMAIN toCore[p] : toCore[p][i] = sent[p][Passed(p) + i]
        /\ \A q \in Src : \A i \in DOMAIN sent[p], j \in DOMAIN sent[q] :
              sent[p][i] = sent[q][j] => p = q /\ i = j

\* Copies are only made of messages that were passed on ...
PassedInv ==
    \A s \in Svc, p \in Src : \A j \in DOMAIN sent[p] :
        /\ \A i \in DOMAIN toCore[s] : toCore[s][i] = sent[p][j] => j <= Passed(p)
        /\ \A i \in DOMAIN toSvc[s] : toSvc[s][i] = sent[p][j] => j <= Passed(p)

Before(q, m, i) == \E h \in 1 .. (i - 1) : q[h] = m

\* ... and those have all come to every service.
ArrivedInv ==
    \A s \in Svc, p \in Src : \A k \in 1 .. Passed(p) :
        Contains(seen[s], sent[p][k]) \/ Contains(toSvc[s], sent[p][k])

\* Before any copy of a message comes one of each earlier message of its source.
PipeInv ==
    \A s \in Svc, p \in Src : \A i \in DOMAIN toSvc[s], j \in DOMAIN sent[p] :
        toSvc[s][i] = sent[p][j] =>
            \A k \in 1 .. (j - 1) :
                Contains(seen[s], sent[p][k]) \/ Before(toSvc[s], sent[p][k], i)

IInv ==
    /\ TypeOK /\ BodyInv /\ SourceInv /\ PassedInv /\ ArrivedInv /\ PipeInv
    /\ SharedWasDelivered /\ FirstCopiesInOrder /\ CopiesBounded

-----------------------------------------------------------------------------
(* Sequences.                                                              *)

\* The elements of a sequence with one more.
LEMMA AppendFacts ==
    ASSUME NEW S, NEW q \in Seq(S), NEW m \in S
    PROVE  /\ Append(q, m) \in Seq(S) /\ Len(q) \in Nat /\ Len(Append(q, m)) = Len(q) + 1
           /\ DOMAIN q = 1 .. Len(q) /\ DOMAIN Append(q, m) = 1 .. (Len(q) + 1)
           /\ \A i \in 1 .. Len(q) : Append(q, m)[i] = q[i]
           /\ Append(q, m)[Len(q) + 1] = m
  BY AppendProperties, LenProperties

\* The elements of a sequence without the first.
LEMMA TailFacts ==
    ASSUME NEW S, NEW q \in Seq(S), q # <<>>
    PROVE  /\ Head(q) \in S /\ Tail(q) \in Seq(S)
           /\ Len(q) \in Nat \ {0} /\ Len(Tail(q)) = Len(q) - 1
           /\ DOMAIN q = 1 .. Len(q) /\ DOMAIN Tail(q) = 1 .. (Len(q) - 1)
           /\ Head(q) = q[1]
           /\ \A i \in 1 .. (Len(q) - 1) : Tail(q)[i] = q[i + 1]
  BY HeadTailProperties, LenProperties, EmptySeq

\* What an appended message adds to what a pipe holds.
LEMMA AppendHas ==
    ASSUME NEW S, NEW q \in Seq(S), NEW m \in S, NEW x
    PROVE  /\ Contains(Append(q, m), x) <=> Contains(q, x) \/ x = m
           /\ \A i \in 1 .. (Len(q) + 1) : Before(Append(q, m), x, i) <=> Before(q, x, i)
           /\ Before(q, x, Len(q) + 1) <=> Contains(q, x)
  <1>1. /\ Len(q) \in Nat /\ Len(Append(q, m)) = Len(q) + 1
        /\ \A i \in 1 .. Len(q) : Append(q, m)[i] = q[i]
        /\ Append(q, m)[Len(q) + 1] = m
    BY AppendFacts
  <1>2. Contains(Append(q, m), x) <=> Contains(q, x) \/ x = m
    BY <1>1 DEF Contains
  <1>3. \A i \in 1 .. (Len(q) + 1) : Before(Append(q, m), x, i) <=> Before(q, x, i)
    BY <1>1 DEF Before
  <1>4. Before(q, x, Len(q) + 1) <=> Contains(q, x)
    BY <1>1 DEF Before, Contains
  <1> QED  BY <1>2, <1>3, <1>4

\* What taking the first message leaves.
LEMMA TailHas ==
    ASSUME NEW S, NEW q \in Seq(S), q # <<>>, NEW x
    PROVE  /\ Contains(q, x) <=> x = Head(q) \/ Contains(Tail(q), x)
           /\ \A i \in 1 .. (Len(q) - 1) :
                 Before(q, x, i + 1) => x = Head(q) \/ Before(Tail(q), x, i)
           /\ ~Before(q, x, 1)
  <1>1. /\ Len(q) \in Nat \ {0} /\ Len(Tail(q)) = Len(q) - 1
        /\ Head(q) = q[1]
        /\ \A i \in 1 .. (Len(q) - 1) : Tail(q)[i] = q[i + 1]
    BY TailFacts
  <1>2. ASSUME Contains(q, x), x # Head(q) PROVE Contains(Tail(q), x)
    <2>1. PICK h \in 1 .. Len(q) : q[h] = x  BY <1>2 DEF Contains
    <2>2. h - 1 \in 1 .. (Len(q) - 1) /\ (h - 1) + 1 = h
      BY <2>1, <1>1, <1>2
    <2>3. Tail(q)[h - 1] = q[h]  BY <2>2, <1>1
    <2> QED  BY <2>1, <2>2, <2>3, <1>1 DEF Contains
  <1>3. ASSUME Contains(Tail(q), x) PROVE Contains(q, x)
    <2>1. PICK h \in 1 .. (Len(q) - 1) : Tail(q)[h] = x  BY <1>3, <1>1 DEF Contains
    <2>2. h + 1 \in 1 .. Len(q) /\ q[h + 1] = x  BY <2>1, <1>1
    <2> QED  BY <2>2 DEF Contains
  <1>4. ASSUME x = Head(q) PROVE Contains(q, x)
    BY <1>1, <1>4 DEF Contains
  <1>5. ASSUME NEW i \in 1 .. (Len(q) - 1), Before(q, x, i + 1), x # Head(q)
        PROVE  Before(Tail(q), x, i)
    <2>1. PICK h \in 1 .. i : q[h] = x  BY <1>5, <1>1 DEF Before
    <2>2. h - 1 \in 1 .. (i - 1) /\ (h - 1) + 1 = h /\ h - 1 \in 1 .. (Len(q) - 1)
      BY <2>1, <1>1, <1>5
    <2>3. Tail(q)[h - 1] = q[h]  BY <2>2, <1>1
    <2> QED  BY <2>1, <2>2, <2>3 DEF Before
  <1>6. ~Before(q, x, 1)  BY DEF Before
  <1> QED  BY <1>2, <1>3, <1>4, <1>5, <1>6

\* The elements of a sequence without one of them.
LEMMA Removed ==
    ASSUME NEW S, NEW q \in Seq(S), NEW i \in DOMAIN q
    PROVE  /\ RemoveAt(q, i) \in Seq(S)
           /\ \A j \in DOMAIN RemoveAt(q, i) : \E k \in DOMAIN q : RemoveAt(q, i)[j] = q[k]
  <1> DEFINE a == SubSeq(q, 1, i - 1)
             b == SubSeq(q, i + 1, Len(q))
  <1>1. Len(q) \in Nat /\ i \in 1 .. Len(q) /\ DOMAIN q = 1 .. Len(q)
        /\ \A j \in 1 .. Len(q) : q[j] \in S
    BY LenProperties
  <1>2. /\ a \in Seq(S) /\ Len(a) = i - 1
        /\ \A j \in 1 .. (i - 1) : a[j] = q[j]
    BY <1>1, SubSeqProperties
  <1>3. /\ b \in Seq(S) /\ Len(b) = Len(q) - i
        /\ \A j \in 1 .. (Len(q) - i) : b[j] = q[i + j]
    BY <1>1, SubSeqProperties
  <1>4. RemoveAt(q, i) = a \o b
    BY DEF RemoveAt
  <1> HIDE DEF a, b
  <1>5. /\ a \o b \in Seq(S) /\ Len(a \o b) = Len(q) - 1
        /\ \A j \in 1 .. (Len(q) - 1) :
              (a \o b)[j] = IF j <= i - 1 THEN a[j] ELSE b[j - (i - 1)]
    <2>1. /\ a \o b \in Seq(S) /\ Len(a \o b) = Len(a) + Len(b)
          /\ \A j \in 1 .. (Len(a) + Len(b)) :
                (a \o b)[j] = IF j <= Len(a) THEN a[j] ELSE b[j - Len(a)]
      BY <1>2, <1>3, ConcatProperties
    <2>2. Len(a) + Len(b) = Len(q) - 1
      BY <1>1, <1>2, <1>3
    <2> QED  BY <2>1, <2>2, <1>2
  <1>6. ASSUME NEW j \in 1 .. (Len(q) - 1)
        PROVE  \E k \in 1 .. Len(q) : (a \o b)[j] = q[k]
    <2>1. CASE j <= i - 1
      BY <1>1, <1>2, <1>5, <2>1
    <2>2. CASE ~(j <= i - 1)
      <3>1. PICK k \in 1 .. (Len(q) - i) : k = j - (i - 1)
        BY <1>1, <2>2
      <3>2. (a \o b)[j] = q[i + k] /\ i + k \in 1 .. Len(q)
        BY <1>1, <1>3, <1>5, <2>2, <3>1
      <3> QED  BY <3>2
    <2> QED  BY <2>1, <2>2
  <1>7. DOMAIN (a \o b) = 1 .. (Len(q) - 1)
    BY <1>5, LenProperties
  <1> QED  BY <1>1, <1>4, <1>5, <1>6, <1>7

-----------------------------------------------------------------------------
(* How many copies a pipe holds.                                           *)

Places(q, x) == {i \in DOMAIN q : q[i] = x}

\* The number of copies is that of the places where they are.
LEMMA PlacesFinite ==
    ASSUME NEW S, NEW q \in Seq(S), NEW x
    PROVE  /\ IsFiniteSet(Places(q, x)) /\ Copies(q, x) \in Nat
           /\ Copies(q, x) = Cardinality(Places(q, x))
  <1>1. DOMAIN q = 1 .. Len(q) /\ Len(q) \in Nat  BY LenProperties
  <1>2. IsFiniteSet(1 .. Len(q))  BY <1>1, FS_Interval
  <1>3. IsFiniteSet(Places(q, x))  BY <1>1, <1>2, FS_Subset DEF Places
  <1> QED  BY <1>3, FS_CardinalityType DEF Copies, Places

\* A pipe without a message has no copy of it.
LEMMA CopiesNone ==
    ASSUME NEW S, NEW q \in Seq(S), NEW x, ~Contains(q, x)
    PROVE  Copies(q, x) = 0
  <1>1. DOMAIN q = 1 .. Len(q)  BY LenProperties
  <1>2. Places(q, x) = {}  BY <1>1 DEF Places, Contains
  <1> QED  BY <1>2, PlacesFinite, FS_EmptySet

\* One more copy of what is appended.
LEMMA CopiesAppend ==
    ASSUME NEW S, NEW q \in Seq(S), NEW m \in S, NEW x
    PROVE  Copies(Append(q, m), x) = Copies(q, x) + (IF x = m THEN 1 ELSE 0)
  <1>1. /\ Append(q, m) \in Seq(S) /\ Len(q) \in Nat
        /\ DOMAIN q = 1 .. Len(q) /\ DOMAIN Append(q, m) = 1 .. (Len(q) + 1)
        /\ \A i \in 1 .. Len(q) : Append(q, m)[i] = q[i]
        /\ Append(q, m)[Len(q) + 1] = m
    BY AppendFacts
  <1>2. Copies(q, x) \in Nat /\ IsFiniteSet(Places(q, x)) /\ Copies(q, x) = Cardinality(Places(q, x))
    BY PlacesFinite
  <1>3. Copies(Append(q, m), x) = Cardinality(Places(Append(q, m), x))
    BY <1>1, PlacesFinite
  <1>4. CASE x = m
    <2>1. Places(Append(q, m), x) = Places(q, x) \cup {Len(q) + 1}
      BY <1>1, <1>4 DEF Places
    <2>2. Len(q) + 1 \notin Places(q, x)
      BY <1>1 DEF Places
    <2>3. Cardinality(Places(q, x) \cup {Len(q) + 1}) = Cardinality(Places(q, x)) + 1
      BY <1>2, <2>2, FS_AddElement
    <2> QED  BY <1>2, <1>3, <1>4, <2>1, <2>3
  <1>5. CASE x # m
    <2>1. Places(Append(q, m), x) = Places(q, x)
      BY <1>1, <1>5 DEF Places
    <2> QED  BY <1>2, <1>3, <1>5, <2>1
  <1> QED  BY <1>4, <1>5

\* One copy less of what is taken.
LEMMA CopiesTail ==
    ASSUME NEW S, NEW q \in Seq(S), q # <<>>, NEW x
    PROVE  Copies(q, x) = Copies(Tail(q), x) + (IF x = Head(q) THEN 1 ELSE 0)
  <1> DEFINE R == Places(q, x) \ {1}
             f == [i \in Places(Tail(q), x) |-> i + 1]
  <1>1. /\ Tail(q) \in Seq(S) /\ Len(q) \in Nat \ {0}
        /\ DOMAIN q = 1 .. Len(q) /\ DOMAIN Tail(q) = 1 .. (Len(q) - 1)
        /\ Head(q) = q[1]
        /\ \A i \in 1 .. (Len(q) - 1) : Tail(q)[i] = q[i + 1]
    BY TailFacts
  <1>2. /\ Copies(q, x) \in Nat /\ IsFiniteSet(Places(q, x))
        /\ Copies(q, x) = Cardinality(Places(q, x))
    BY PlacesFinite
  <1>3. /\ Copies(Tail(q), x) \in Nat /\ IsFiniteSet(Places(Tail(q), x))
        /\ Copies(Tail(q), x) = Cardinality(Places(Tail(q), x))
    BY <1>1, PlacesFinite
  <1>4. f \in Bijection(Places(Tail(q), x), R)
    <2>1. \A i \in Places(Tail(q), x) : i \in 1 .. (Len(q) - 1) /\ i + 1 \in R
      BY <1>1 DEF Places
    <2>2. ASSUME NEW j \in R PROVE \E i \in Places(Tail(q), x) : f[i] = j
      <3>1. j \in 1 .. Len(q) /\ j # 1 /\ q[j] = x
        BY <1>1 DEF Places
      <3>2. j - 1 \in 1 .. (Len(q) - 1) /\ (j - 1) + 1 = j
        BY <3>1, <1>1
      <3>3. j - 1 \in Places(Tail(q), x)
        BY <3>1, <3>2, <1>1 DEF Places
      <3> QED  BY <3>2, <3>3
    <2>3. f \in [Places(Tail(q), x) -> R]  BY <2>1
    <2>4. \A i, j \in Places(Tail(q), x) : f[i] = f[j] => i = j
      BY <2>1, <1>1
    <2>5. f \in Injection(Places(Tail(q), x), R)
      BY <2>3, <2>4 DEF Injection, IsInjective
    <2>6. f \in Surjection(Places(Tail(q), x), R)
      BY <2>2, <2>3 DEF Surjection
    <2> QED  BY <2>5, <2>6 DEF Bijection
  <1>5. Cardinality(R) = Cardinality(Places(Tail(q), x))
    BY <1>3, <1>4, FS_Bijection DEF ExistsBijection
  <1>6. CASE x = Head(q)
    <2>1. 1 \in Places(q, x)  BY <1>1, <1>6 DEF Places
    <2>2. Cardinality(R) = Cardinality(Places(q, x)) - 1
      BY <1>2, <2>1, FS_RemoveElement
    <2> QED  BY <1>2, <1>3, <1>5, <1>6, <2>2
  <1>7. CASE x # Head(q)
    <2>1. R = Places(q, x)  BY <1>1, <1>7 DEF Places
    <2>2. Cardinality(Places(q, x)) = Cardinality(Places(Tail(q), x))
      BY <2>1, <1>5
    <2> HIDE DEF R, f
    <2> QED  BY <1>2, <1>3, <1>7, <2>2
  <1> QED  BY <1>6, <1>7

-----------------------------------------------------------------------------
(* The first state, and the steps that leave the pipes alone.              *)

\* The invariant holds while all pipes are empty.
LEMMA InitInv == Init => IInv
  <1> SUFFICES ASSUME Init PROVE IInv  OBVIOUS
  <1> USE DeliveryAssumption
  <1>1. TypeOK
    BY EmptySeq DEF Init, TypeOK
  <1>2. /\ \A p \in Svc \cup Src : toCore[p] = <<>>
        /\ \A s \in Svc : toSvc[s] = <<>> /\ seen[s] = <<>>
        /\ \A p \in Src : sent[p] = <<>>
        /\ Len(<<>>) = 0 /\ <<>> \in Seq(Msg)
    BY EmptySeq DEF Init
  <1>3. DOMAIN <<>> = {}  OBVIOUS
  <1>4. BodyInv /\ SourceInv /\ PassedInv /\ PipeInv /\ FirstCopiesInOrder
    BY <1>2, <1>3 DEF BodyInv, SourceInv, PassedInv, PipeInv, FirstCopiesInOrder
  <1>5. ArrivedInv
    <2>1. \A p \in Src : Passed(p) = 0  BY <1>2 DEF Passed
    <2> QED  BY <2>1 DEF ArrivedInv
  <1>6. SharedWasDelivered
    BY <1>2, <1>3 DEF SharedWasDelivered, ToSet
  <1>7. CopiesBounded
    <2>1. ASSUME NEW m \in Msg PROVE Copies(<<>>, m) = 0
      <3>1. ~Contains(<<>>, m)  BY <1>2 DEF Contains
      <3> QED  BY <1>2, <3>1, CopiesNone
    <2> QED  BY <1>2, <2>1 DEF CopiesBounded
  <1> QED  BY <1>1, <1>4, <1>5, <1>6, <1>7 DEF IInv

\* What the pipes and the histories alone decide stays as they stay.
LEMMA PipesUnchanged ==
    ASSUME IInv, UNCHANGED <<toCore, toSvc, sent, seen>>
    PROVE  /\ SourceInv' /\ PassedInv' /\ ArrivedInv' /\ PipeInv'
           /\ FirstCopiesInOrder' /\ CopiesBounded'
  <1>1. SourceInv'  BY DEF IInv, SourceInv, Passed
  <1>2. PassedInv'  BY DEF IInv, PassedInv, Passed
  <1>3. ArrivedInv'  BY DEF IInv, ArrivedInv, Passed
  <1>4. PipeInv'  BY DEF IInv, PipeInv
  <1>5. FirstCopiesInOrder'  BY DEF IInv, FirstCopiesInOrder
  <1>6. CopiesBounded'  BY DEF IInv, CopiesBounded
  <1> QED  BY <1>1, <1>2, <1>3, <1>4, <1>5, <1>6

\* What clients got they keep, and those that are reached have got the event.
LEMMA DeliverEffect ==
    ASSUME TypeOK, NEW e \in Event, NEW cs, Deliver(e, cs)
    PROVE  /\ got' \in [Client -> [Event -> 0 .. 2]]
           /\ \A c \in Client, x \in Event : got[c][x] > 0 => got'[c][x] > 0
           /\ \A c \in Client : c \in cs => got'[c][e] > 0
  <1>1. \A n \in 0 .. 2 : Again(n) \in 0 .. 2 /\ Again(n) > 0
    BY DEF Again
  <1>2. \A c \in Client, x \in Event : got[c][x] \in 0 .. 2
    BY DEF TypeOK
  <1>3. \A c \in Client :
          got'[c] = IF c \in cs THEN [got[c] EXCEPT ![e] = Again(got[c][e])] ELSE got[c]
    BY DEF Deliver
  <1>4. \A c \in Client : got'[c] \in [Event -> 0 .. 2]
    <2> TAKE c \in Client
    <2>1. got[c] \in [Event -> 0 .. 2] /\ got[c][e] \in 0 .. 2  BY DEF TypeOK
    <2>2. [got[c] EXCEPT ![e] = Again(got[c][e])] \in [Event -> 0 .. 2]
      BY <1>1, <2>1
    <2> QED  BY <1>3, <2>1, <2>2
  <1>5. got' = [c \in Client |-> got'[c]]
    BY DEF Deliver
  <1>6. \A c \in Client, x \in Event :
          got'[c][x] = IF c \in cs /\ x = e THEN Again(got[c][e]) ELSE got[c][x]
    BY <1>3 DEF TypeOK
  <1> QED  BY <1>1, <1>2, <1>4, <1>5, <1>6

\* An answer of a component does not go over the pipes.
LEMMA ResponseInv ==
    ASSUME IInv, NEW s \in Svc, NEW m \in Msg, NEW b \in Body,
           BroadcastComponentResponse(s, m, b)
    PROVE  IInv'
  <1> USE DEF IInv
  <1>1. /\ UNCHANGED <<toCore, toSvc, queue, sock, sent, seen>>
        /\ body[m] = NoBody /\ body' = [body EXCEPT ![m] = b]
    BY DEF BroadcastComponentResponse
  <1>2. PICK cs : Deliver(m, cs)
    BY DEF BroadcastComponentResponse
  <1>3. /\ got' \in [Client -> [Event -> 0 .. 2]]
        /\ \A c \in Client, x \in Event : got[c][x] > 0 => got'[c][x] > 0
    BY <1>2, DeliverEffect DEF Event
  <1>4. TypeOK'
    BY <1>1, <1>3 DEF TypeOK
  <1>5. \A x \in Msg : body[x] # NoBody => body'[x] = body[x]
    BY <1>1 DEF TypeOK
  <1>6. /\ \A p \in Svc \cup Src : \A i \in DOMAIN toCore[p] : toCore[p][i] \in Msg
        /\ \A t \in Svc : \A i \in DOMAIN toSvc[t] : toSvc[t][i] \in Msg
        /\ \A t \in Svc : \A i \in DOMAIN seen[t] : seen[t][i] \in Msg
        /\ \A p \in Src : \A i \in DOMAIN sent[p] : sent[p][i] \in Msg
    BY ElementOfSeq, LenProperties DEF TypeOK
  <1>7. BodyInv'
    BY <1>1, <1>5, <1>6 DEF BodyInv, Shareable
  <1>8. SharedWasDelivered'
    <2> SUFFICES ASSUME NEW t \in Svc, NEW x \in ToSet(toCore[t]), NEW c \in ToSet(queue[t]),
                        Addressed(c, body'[x]), sock[c] = "ok"
                 PROVE  got'[c][x] > 0
      BY <1>1 DEF SharedWasDelivered
    <2>1. x \in Msg /\ body[x] # NoBody
      BY <1>6 DEF ToSet, BodyInv, Shareable
    <2>2. c \in Client
      BY ElementOfSeq, LenProperties DEF ToSet, TypeOK
    <2>3. got[c][x] > 0
      BY <2>1, <1>5 DEF SharedWasDelivered
    <2> QED  BY <2>1, <2>2, <2>3, <1>3 DEF Event
  <1> QED  BY <1>1, <1>4, <1>7, <1>8, PipesUnchanged

\* Fewer clients can be sent to.
LEMMA BreakInv ==
    ASSUME IInv, NEW c \in Client, Break(c)
    PROVE  IInv'
  <1> USE DEF IInv
  <1>1. /\ UNCHANGED <<body, toCore, toSvc, queue, got, sent, seen>>
        /\ \A d \in Client : sock'[d] = "ok" => sock[d] = "ok"
    BY DEF Break, TypeOK
  <1>2. TypeOK'
    BY DEF Break, TypeOK
  <1>3. BodyInv'
    BY <1>1 DEF BodyInv, Shareable
  <1>4. \A s \in Svc : \A d \in ToSet(queue[s]) : d \in Client
    BY ElementOfSeq, LenProperties DEF ToSet, TypeOK
  <1>5. SharedWasDelivered'
    BY <1>1, <1>4 DEF SharedWasDelivered
  <1> QED  BY <1>1, <1>2, <1>3, <1>5, PipesUnchanged

\* A service has fewer clients, which keep what they got.
LEMMA DisconnectionInv ==
    ASSUME IInv, NEW s \in Svc, NEW c \in Client, HandleDisconnection(s, c)
    PROVE  IInv'
  <1> USE DEF IInv
  <1>1. UNCHANGED <<body, toCore, toSvc, sock, sent, seen>>
    BY DEF HandleDisconnection
  <1>2. PICK i \in DOMAIN queue[s] : queue' = [queue EXCEPT ![s] = RemoveAt(queue[s], i)]
    BY DEF HandleDisconnection
  <1>3. PICK cs : Deliver(c, cs)
    BY DEF HandleDisconnection
  <1>4. /\ got' \in [Client -> [Event -> 0 .. 2]]
        /\ \A d \in Client, x \in Event : got[d][x] > 0 => got'[d][x] > 0
    BY <1>3, DeliverEffect DEF Event
  <1>5. queue[s] \in Seq(Client)
    BY DEF TypeOK
  <1>6. /\ RemoveAt(queue[s], i) \in Seq(Client)
        /\ ToSet(RemoveAt(queue[s], i)) \subseteq ToSet(queue[s])
    <2>1. /\ RemoveAt(queue[s], i) \in Seq(Client)
          /\ \A j \in DOMAIN RemoveAt(queue[s], i) :
                \E k \in DOMAIN queue[s] : RemoveAt(queue[s], i)[j] = queue[s][k]
      BY <1>5, Removed
    <2> QED  BY <2>1 DEF ToSet
  <1>7. TypeOK'
    BY <1>1, <1>2, <1>4, <1>6 DEF TypeOK
  <1>8. BodyInv'
    BY <1>1 DEF BodyInv, Shareable
  <1>9. SharedWasDelivered'
    <2> SUFFICES ASSUME NEW t \in Svc, NEW x \in ToSet(toCore[t]), NEW d \in ToSet(queue'[t]),
                        Addressed(d, body[x]), sock[d] = "ok"
                 PROVE  got'[d][x] > 0
      BY <1>1 DEF SharedWasDelivered
    <2>1. x \in Msg
      BY ElementOfSeq, LenProperties DEF ToSet, TypeOK
    <2>2. d \in ToSet(queue[t])
      BY <1>2, <1>6 DEF TypeOK
    <2>3. d \in Client
      BY <2>2, ElementOfSeq, LenProperties DEF ToSet, TypeOK
    <2>4. got[d][x] > 0
      BY <2>2 DEF SharedWasDelivered
    <2> QED  BY <2>1, <2>3, <2>4, <1>4 DEF Event
  <1> QED  BY <1>1, <1>7, <1>8, <1>9, PipesUnchanged

-----------------------------------------------------------------------------
(* A source sends a message: it is new to all pipes.                       *)

\* Arithmetic for the number of messages that were passed on.
LEMMA Difference ==
    ASSUME NEW a \in Nat, NEW b \in Nat, b <= a
    PROVE  /\ a - b \in Nat /\ a - b <= a /\ (a - b) + (b + 1) = a + 1
           /\ \A i \in 1 .. b : (a - b) + i \in 1 .. a
  OBVIOUS

\* The same as an equation, to be cited without its definition.
LEMMA PassedValue ==
    ASSUME NEW q
    PROVE  Passed(q) = Len(sent[q]) - Len(toCore[q])
  BY DEF Passed

\* The message is new: no pipe and no history has it.
LEMMA PutInv ==
    ASSUME IInv, NEW p \in Src, NEW m \in Msg, NEW b \in Body, Put(p, m, b)
    PROVE  IInv'
  <1> USE DEF IInv
  <1>1. /\ body[m] = NoBody /\ b.kind # "response" /\ b # NoBody /\ p \notin Svc
        /\ body'[m] = b /\ \A x \in Msg : x # m => body'[x] = body[x]
        /\ UNCHANGED <<toSvc, queue, sock, got, seen>>
    BY DeliveryAssumption DEF Put, TypeOK
  <1>2. /\ toCore[p] \in Seq(Msg) /\ sent[p] \in Seq(Msg)
        /\ toCore' = [toCore EXCEPT ![p] = Append(toCore[p], m)]
        /\ sent' = [sent EXCEPT ![p] = Append(sent[p], m)]
    BY DEF Put, TypeOK
  <1>3. /\ toCore'[p] = Append(toCore[p], m) /\ sent'[p] = Append(sent[p], m)
        /\ \A q \in Svc \cup Src : q # p => toCore'[q] = toCore[q]
        /\ \A q \in Src : q # p => sent'[q] = sent[q]
    BY <1>2 DEF TypeOK
  <1>4. /\ Append(toCore[p], m) \in Seq(Msg) /\ Append(sent[p], m) \in Seq(Msg)
        /\ Len(toCore[p]) \in Nat /\ Len(Append(toCore[p], m)) = Len(toCore[p]) + 1
        /\ Len(sent[p]) \in Nat /\ Len(Append(sent[p], m)) = Len(sent[p]) + 1
        /\ DOMAIN toCore[p] = 1 .. Len(toCore[p])
        /\ DOMAIN Append(toCore[p], m) = 1 .. (Len(toCore[p]) + 1)
        /\ DOMAIN sent[p] = 1 .. Len(sent[p])
        /\ DOMAIN Append(sent[p], m) = 1 .. (Len(sent[p]) + 1)
        /\ \A i \in 1 .. Len(toCore[p]) : Append(toCore[p], m)[i] = toCore[p][i]
        /\ Append(toCore[p], m)[Len(toCore[p]) + 1] = m
        /\ \A i \in 1 .. Len(sent[p]) : Append(sent[p], m)[i] = sent[p][i]
        /\ Append(sent[p], m)[Len(sent[p]) + 1] = m
    BY <1>2, AppendFacts
  <1>5. TypeOK'
    <2>1. body' \in [Msg -> Body \cup {NoBody}]
      BY DEF Put, TypeOK
    <2> QED  BY <1>1, <1>2, <1>4, <2>1 DEF TypeOK
  <1>6. /\ \A q \in Svc \cup Src : \A i \in DOMAIN toCore[q] : toCore[q][i] \in Msg \ {m}
        /\ \A t \in Svc : \A i \in DOMAIN toSvc[t] : toSvc[t][i] \in Msg \ {m}
        /\ \A t \in Svc : \A i \in DOMAIN seen[t] : seen[t][i] \in Msg \ {m}
        /\ \A q \in Src : \A i \in DOMAIN sent[q] : sent[q][i] \in Msg \ {m}
    BY <1>1, ElementOfSeq, LenProperties DEF TypeOK, BodyInv, Shareable
  <1>7. \A q \in Src : \A j \in DOMAIN sent'[q] :
           \/ j \in DOMAIN sent[q] /\ sent'[q][j] = sent[q][j]
           \/ q = p /\ j = Len(sent[p]) + 1 /\ sent'[q][j] = m
    <2> TAKE q \in Src
    <2>1. CASE q = p
      <3>1. \A j \in 1 .. (Len(sent[p]) + 1) : j \in 1 .. Len(sent[p]) \/ j = Len(sent[p]) + 1
        BY <1>4
      <3> QED  BY <2>1, <3>1, <1>3, <1>4
    <2>2. CASE q # p  BY <2>2, <1>3
    <2> QED  BY <2>1, <2>2
  <1>8. \A q \in Src : /\ \A j \in DOMAIN sent[q] : sent'[q][j] = sent[q][j]
                       /\ DOMAIN sent[q] = 1 .. Len(sent[q]) /\ Len(sent[q]) \in Nat
                       /\ Len(toCore[q]) \in Nat
    BY <1>3, <1>4, LenProperties DEF TypeOK
  <1>9. \A q \in Src : Passed(q)' = Passed(q) /\ Passed(q) \in Nat /\ Passed(q) <= Len(sent[q])
    <2> TAKE q \in Src
    <2>1. Len(toCore[q]) <= Len(sent[q])  BY DEF SourceInv
    <2>2. Len(sent'[q]) - Len(toCore'[q]) = Len(sent[q]) - Len(toCore[q])
      <3>1. CASE q = p
        BY <3>1, <1>3, <1>4
      <3>2. CASE q # p
        BY <3>2, <1>3
      <3> QED  BY <3>1, <3>2
    <2>3. Len(sent[q]) \in Nat /\ Len(toCore[q]) \in Nat  BY <1>8
    <2>4. Passed(q) \in Nat /\ Passed(q) <= Len(sent[q])  BY <2>1, <2>3, PassedValue, Difference
    <2>5. Passed(q)' = Passed(q)  BY <2>2 DEF Passed
    <2> QED  BY <2>4, <2>5
  <1>20. \A q \in Svc \cup Src : \A i \in DOMAIN toCore'[q] :
           \/ i \in DOMAIN toCore[q] /\ toCore'[q][i] = toCore[q][i]
           \/ q = p /\ i = Len(toCore[p]) + 1 /\ toCore'[q][i] = m
    <2> TAKE q \in Svc \cup Src
    <2>1. CASE q = p
      <3>1. \A i \in 1 .. (Len(toCore[p]) + 1) :
               i \in 1 .. Len(toCore[p]) \/ i = Len(toCore[p]) + 1
        BY <1>4
      <3> QED  BY <2>1, <3>1, <1>3, <1>4
    <2>2. CASE q # p  BY <2>2, <1>3
    <2> QED  BY <2>1, <2>2
  <1>10. BodyInv'
    <2>1. ASSUME NEW q \in Svc \cup Src, NEW i \in DOMAIN toCore'[q]
          PROVE  Shareable(toCore[q][i])'
      <3>1. CASE toCore'[q][i] = m
        BY <3>1, <1>1 DEF Shareable
      <3>2. CASE i \in DOMAIN toCore[q] /\ toCore'[q][i] = toCore[q][i]
        <4>1. body'[toCore[q][i]] = body[toCore[q][i]]  BY <3>2, <1>1, <1>6
        <4>2. Shareable(toCore[q][i])  BY <3>2 DEF BodyInv
        <4> QED  BY <3>2, <4>1, <4>2 DEF Shareable
      <3> QED  BY <3>1, <3>2, <1>20
    <2>2. \A t \in Svc : \A i \in DOMAIN toSvc'[t] : Shareable(toSvc[t][i])'
      <3> TAKE t \in Svc
      <3> SUFFICES ASSUME NEW i \in DOMAIN toSvc[t] PROVE Shareable(toSvc[t][i])'  BY <1>1
      <3>1. body'[toSvc[t][i]] = body[toSvc[t][i]]  BY <1>1, <1>6
      <3>2. Shareable(toSvc[t][i])  BY DEF BodyInv
      <3> QED  BY <3>1, <3>2, <1>1 DEF Shareable
    <2>3. \A t \in Svc : \A i \in DOMAIN seen'[t] : body'[seen'[t][i]] # NoBody
      BY <1>1, <1>6 DEF BodyInv
    <2>4. \A q \in Src : \A i \in DOMAIN sent'[q] : body'[sent'[q][i]] # NoBody
      BY <1>1, <1>6, <1>7 DEF BodyInv
    <2> QED  BY <2>1, <2>2, <2>3, <2>4 DEF BodyInv
  <1>11. SourceInv'
    <2> SUFFICES ASSUME NEW q \in Src
                 PROVE  /\ Len(toCore'[q]) <= Len(sent'[q])
                        /\ \A i \in DOMAIN toCore'[q] : toCore'[q][i] = sent'[q][Passed(q)' + i]
                        /\ \A r \in Src : \A i \in DOMAIN sent'[q], j \in DOMAIN sent'[r] :
                              sent'[q][i] = sent'[r][j] => q = r /\ i = j
      BY DEF SourceInv
    <2>1. Len(toCore'[q]) <= Len(sent'[q])
      <3>1. Len(toCore[q]) <= Len(sent[q])  BY DEF SourceInv
      <3>2. CASE q = p  BY <3>1, <3>2, <1>3, <1>4
      <3>3. CASE q # p  BY <3>1, <3>3, <1>3
      <3> QED  BY <3>2, <3>3
    <2>2. ASSUME NEW i \in DOMAIN toCore'[q] PROVE toCore'[q][i] = sent'[q][Passed(q)' + i]
      <3>1. CASE q = p /\ i = Len(toCore[p]) + 1 /\ toCore'[q][i] = m
        <4>0. Passed(q)' = Passed(q)  BY <1>9
        <4>1. Passed(q)' + i = Len(sent[p]) + 1
          <5>1. Len(toCore[p]) <= Len(sent[p])  BY DEF SourceInv
          <5> QED  BY <3>1, <4>0, <5>1, <1>4, PassedValue, Difference
        <4> QED  BY <3>1, <4>1, <1>3, <1>4
      <3>2. CASE i \in DOMAIN toCore[q] /\ toCore'[q][i] = toCore[q][i]
        <4>2. i \in 1 .. Len(toCore[q])
          BY <3>2, LenProperties DEF TypeOK
        <4>3. Passed(q) + i \in DOMAIN sent[q]
          <5>1. Len(sent[q]) \in Nat /\ Len(toCore[q]) \in Nat /\ DOMAIN sent[q] = 1 .. Len(sent[q])
            BY <1>8
          <5>2. Len(toCore[q]) <= Len(sent[q])  BY DEF SourceInv
          <5> QED  BY <4>2, <5>1, <5>2, PassedValue, Difference
        <4> QED  BY <3>2, <4>3, <1>8, <1>9 DEF SourceInv
      <3> QED  BY <3>1, <3>2, <1>20
    <2>3. \A r \in Src : \A i \in DOMAIN sent'[q], j \in DOMAIN sent'[r] :
             sent'[q][i] = sent'[r][j] => q = r /\ i = j
      BY <1>6, <1>7 DEF SourceInv
    <2> QED  BY <2>1, <2>2, <2>3
  <1>12. \A t \in Svc : toCore'[t] = toCore[t]
    BY <1>1, <1>3
  <1>13. PassedInv'
    BY <1>1, <1>6, <1>7, <1>9, <1>12 DEF PassedInv
  <1>14. ArrivedInv'
    <2>1. \A q \in Src : \A k \in 1 .. Passed(q) : sent'[q][k] = sent[q][k]
      BY <1>8, <1>9
    <2> QED  BY <2>1, <1>1, <1>9 DEF ArrivedInv
  <1>15. \A q \in Src : \A j \in DOMAIN sent[q] : \A k \in 1 .. (j - 1) : sent'[q][k] = sent[q][k]
    BY <1>8
  <1>16. PipeInv'
    BY <1>1, <1>6, <1>7, <1>15 DEF PipeInv
  <1>17. FirstCopiesInOrder'
    BY <1>1, <1>6, <1>7, <1>15 DEF FirstCopiesInOrder
  <1>18. SharedWasDelivered'
    <2> SUFFICES ASSUME NEW t \in Svc, NEW x \in ToSet(toCore[t]), NEW c \in ToSet(queue[t]),
                        Addressed(c, body'[x]), sock[c] = "ok"
                 PROVE  got[c][x] > 0
      BY <1>1, <1>12 DEF SharedWasDelivered
    <2>1. body'[x] = body[x]
      BY <1>1, <1>6 DEF ToSet
    <2> QED  BY <2>1 DEF SharedWasDelivered
  <1>19. CopiesBounded'
    BY <1>1, <1>12 DEF CopiesBounded
  <1> QED  BY <1>5, <1>10, <1>11, <1>13, <1>14, <1>16, <1>17, <1>18, <1>19

-----------------------------------------------------------------------------
(* The core passes a message on.                                           *)

\* What is known of every source.
LEMMA SourceFacts ==
    ASSUME IInv, NEW q \in Src
    PROVE  /\ Len(sent[q]) \in Nat /\ DOMAIN sent[q] = 1 .. Len(sent[q])
           /\ Len(toCore[q]) \in Nat /\ DOMAIN toCore[q] = 1 .. Len(toCore[q])
           /\ Passed(q) \in Nat /\ Passed(q) <= Len(sent[q])
           /\ Len(toCore[q]) > 0 => Passed(q) + 1 \in DOMAIN sent[q]
  <1>1. /\ Len(sent[q]) \in Nat /\ DOMAIN sent[q] = 1 .. Len(sent[q])
        /\ Len(toCore[q]) \in Nat /\ DOMAIN toCore[q] = 1 .. Len(toCore[q])
    BY LenProperties DEF IInv, TypeOK
  <1>2. Len(toCore[q]) <= Len(sent[q])
    BY DEF IInv, SourceInv
  <1>3. Len(toCore[q]) > 0 => 1 \in 1 .. Len(toCore[q])
    BY <1>1
  <1> QED  BY <1>1, <1>2, <1>3, PassedValue, Difference

\* One pipe into the core loses its first message, other services get it.
LEMMA CheckPipeInv ==
    ASSUME IInv, NEW p \in Svc \cup Src, CheckPipe(p)
    PROVE  IInv'
  <1> DEFINE m == Head(toCore[p])
  <1>1. /\ UNCHANGED <<body, queue, sock, got, sent, seen>>
        /\ toCore[p] \in Seq(Msg) /\ toCore[p] # <<>>
        /\ toCore' = [toCore EXCEPT ![p] = Tail(toCore[p])]
        /\ toSvc' = [s \in Svc |-> IF s = p THEN toSvc[s] ELSE Append(toSvc[s], m)]
    BY DEF CheckPipe, ShareWithOthers, IInv, TypeOK
  <1>2. /\ m \in Msg /\ Tail(toCore[p]) \in Seq(Msg)
        /\ Len(toCore[p]) \in Nat \ {0} /\ Len(Tail(toCore[p])) = Len(toCore[p]) - 1
        /\ DOMAIN toCore[p] = 1 .. Len(toCore[p])
        /\ DOMAIN Tail(toCore[p]) = 1 .. (Len(toCore[p]) - 1)
        /\ m = toCore[p][1] /\ 1 \in DOMAIN toCore[p]
        /\ \A i \in 1 .. (Len(toCore[p]) - 1) : Tail(toCore[p])[i] = toCore[p][i + 1]
    BY <1>1, TailFacts
  <1> HIDE DEF m
  <1>3. /\ toCore'[p] = Tail(toCore[p])
        /\ \A q \in Svc \cup Src : q # p => toCore'[q] = toCore[q]
        /\ \A s \in Svc : s = p => toSvc'[s] = toSvc[s]
        /\ \A s \in Svc : s # p => toSvc'[s] = Append(toSvc[s], m)
    BY <1>1 DEF IInv, TypeOK
  <1>4. ASSUME NEW s \in Svc
        PROVE  /\ toSvc[s] \in Seq(Msg) /\ Append(toSvc[s], m) \in Seq(Msg)
               /\ Len(toSvc[s]) \in Nat /\ DOMAIN toSvc[s] = 1 .. Len(toSvc[s])
               /\ DOMAIN Append(toSvc[s], m) = 1 .. (Len(toSvc[s]) + 1)
               /\ \A i \in 1 .. Len(toSvc[s]) : Append(toSvc[s], m)[i] = toSvc[s][i]
               /\ Append(toSvc[s], m)[Len(toSvc[s]) + 1] = m
    <2>1. toSvc[s] \in Seq(Msg)  BY DEF IInv, TypeOK
    <2> QED  BY <2>1, <1>2, AppendFacts
  <1>5. TypeOK'
    BY <1>1, <1>2, <1>4 DEF IInv, TypeOK
  <1>6. ASSUME NEW s \in Svc, NEW i \in DOMAIN toSvc'[s]
        PROVE  \/ i \in DOMAIN toSvc[s] /\ toSvc'[s][i] = toSvc[s][i]
               \/ s # p /\ i = Len(toSvc[s]) + 1 /\ toSvc'[s][i] = m
    <2>1. CASE s = p  BY <2>1, <1>3
    <2>2. CASE s # p
      <3>1. i \in 1 .. (Len(toSvc[s]) + 1)  BY <2>2, <1>3, <1>4
      <3>2. i \in 1 .. Len(toSvc[s]) \/ i = Len(toSvc[s]) + 1  BY <3>1, <1>4
      <3> QED  BY <2>2, <3>2, <1>3, <1>4
    <2> QED  BY <2>1, <2>2
  <1>7. ASSUME NEW q \in Svc \cup Src, NEW i \in DOMAIN toCore'[q]
        PROVE  \E j \in DOMAIN toCore[q] : toCore'[q][i] = toCore[q][j]
    <2>1. CASE q = p
      <3>1. i \in 1 .. (Len(toCore[p]) - 1)  BY <2>1, <1>2, <1>3
      <3>2. i + 1 \in 1 .. Len(toCore[p])  BY <3>1, <1>2
      <3> QED  BY <2>1, <3>1, <3>2, <1>2, <1>3
    <2>2. CASE q # p  BY <2>2, <1>3
    <2> QED  BY <2>1, <2>2
  <1>8. BodyInv'
    <2>1. Shareable(m)  BY <1>2 DEF IInv, BodyInv
    <2>2. \A q \in Svc \cup Src : \A i \in DOMAIN toCore'[q] : Shareable(toCore[q][i])'
      BY <1>1, <1>7 DEF IInv, BodyInv, Shareable
    <2>3. \A s \in Svc : \A i \in DOMAIN toSvc'[s] : Shareable(toSvc[s][i])'
      BY <1>1, <1>6, <2>1 DEF IInv, BodyInv, Shareable
    <2> QED  BY <1>1, <2>2, <2>3 DEF IInv, BodyInv
  \* A message of a source that goes on is the next one of that source.
  <1>9. ASSUME NEW q \in Src
        PROVE  /\ Passed(q)' \in Nat /\ Passed(q) <= Passed(q)'
               /\ q # p => Passed(q)' = Passed(q)
               /\ q = p => Passed(q)' = Passed(q) + 1 /\ sent[q][Passed(q) + 1] = m
                           /\ Passed(q) + 1 \in DOMAIN sent[q]
    <2>1. /\ Len(sent[q]) \in Nat /\ Len(toCore[q]) \in Nat /\ Passed(q) \in Nat
          /\ Len(toCore[q]) > 0 => Passed(q) + 1 \in DOMAIN sent[q]
      BY SourceFacts
    <2>2. Passed(q)' = Len(sent[q]) - Len(toCore'[q])
      BY <1>1 DEF Passed
    <2>3. CASE q # p
      <3>1. Passed(q)' = Passed(q)  BY <2>2, <2>3, <1>3, PassedValue
      <3> QED  BY <2>1, <2>3, <3>1
    <2>4. CASE q = p
      <3>1. Len(toCore'[q]) = Len(toCore[q]) - 1 /\ Len(toCore[q]) > 0
        BY <2>4, <1>2, <1>3
      <3>2. Passed(q)' = Passed(q) + 1
        <4>1. \A a, b \in Nat : a - (b - 1) = (a - b) + 1  OBVIOUS
        <4>2. Len(sent[q]) - (Len(toCore[q]) - 1) = Passed(q) + 1
          BY <4>1, <2>1, PassedValue
        <4> QED  BY <4>2, <2>2, <3>1
      <3>3. toCore[q][1] = sent[q][Passed(q) + 1]
        BY <2>4, <1>2 DEF IInv, SourceInv
      <3> QED  BY <2>1, <2>4, <3>1, <3>2, <3>3, <1>2
    <2> QED  BY <2>3, <2>4
  <1>10. SourceInv'
    <2> SUFFICES ASSUME NEW q \in Src
                 PROVE  /\ Len(toCore'[q]) <= Len(sent[q])
                        /\ \A i \in DOMAIN toCore'[q] : toCore'[q][i] = sent[q][Passed(q)' + i]
      BY <1>1 DEF IInv, SourceInv
    <2>0. /\ Len(toCore[q]) <= Len(sent[q]) /\ Len(sent[q]) \in Nat /\ Len(toCore[q]) \in Nat
          /\ Passed(q) \in Nat
          /\ \A i \in DOMAIN toCore[q] : toCore[q][i] = sent[q][Passed(q) + i]
      BY SourceFacts DEF IInv, SourceInv
    <2>1. CASE q # p  BY <2>0, <2>1, <1>3, <1>9
    <2>2. CASE q = p
      <3>1. Len(toCore'[q]) <= Len(sent[q])  BY <2>0, <2>2, <1>2, <1>3
      <3>2. ASSUME NEW i \in DOMAIN toCore'[q] PROVE toCore'[q][i] = sent[q][Passed(q)' + i]
        <4>1. i \in 1 .. (Len(toCore[p]) - 1)  BY <2>2, <1>2, <1>3
        <4>2. i + 1 \in DOMAIN toCore[q] /\ toCore'[q][i] = toCore[q][i + 1]
          BY <4>1, <2>2, <1>2, <1>3
        <4>3. Passed(q) + (i + 1) = Passed(q)' + i
          <5>1. Passed(q)' = Passed(q) + 1 /\ i \in Nat  BY <2>2, <1>9, <4>1
          <5> QED  BY <5>1, <2>0
        <4> QED  BY <4>2, <4>3, <2>0
      <3> QED  BY <3>1, <3>2
    <2> QED  BY <2>1, <2>2
  \* A copy that goes on has been passed on before.
  <1>11. ASSUME NEW q \in Src, NEW j \in DOMAIN sent[q], m = sent[q][j]
         PROVE  j <= Passed(q)' /\ \A k \in 1 .. (j - 1) : k \in 1 .. Passed(q)
    <2>0. Passed(q) \in Nat /\ DOMAIN sent[q] = 1 .. Len(sent[q]) /\ Len(sent[q]) \in Nat
      BY SourceFacts
    <2>1. CASE p \in Svc
      <3>1. j <= Passed(q)  BY <2>1, <1>2, <1>11 DEF IInv, PassedInv
      <3> QED  BY <3>1, <2>0, <1>9
    <2>2. CASE p \in Src
      <3>1. Passed(p) + 1 \in DOMAIN sent[p] /\ sent[p][Passed(p) + 1] = m
        BY <2>2, <1>9
      <3>2. q = p /\ j = Passed(p) + 1
        BY <2>2, <3>1, <1>11 DEF IInv, SourceInv
      <3> QED  BY <3>2, <2>0, <1>9
    <2> QED  BY <2>1, <2>2
  <1>12. PassedInv'
    <2> SUFFICES ASSUME NEW s \in Svc, NEW q \in Src, NEW j \in DOMAIN sent[q]
                 PROVE  /\ \A i \in DOMAIN toCore'[s] :
                              toCore'[s][i] = sent[q][j] => j <= Passed(q)'
                        /\ \A i \in DOMAIN toSvc'[s] :
                              toSvc'[s][i] = sent[q][j] => j <= Passed(q)'
      BY <1>1 DEF PassedInv
    <2>0. /\ Passed(q) \in Nat /\ Passed(q)' \in Nat /\ Passed(q) <= Passed(q)' /\ j \in Nat
      BY SourceFacts, <1>9
    <2>1. j <= Passed(q) => j <= Passed(q)'  BY <2>0
    <2>2. \A i \in DOMAIN toCore'[s] : toCore'[s][i] = sent[q][j] => j <= Passed(q)'
      BY <2>1, <1>7 DEF IInv, PassedInv
    <2>3. ASSUME NEW i \in DOMAIN toSvc'[s], toSvc'[s][i] = sent[q][j] PROVE j <= Passed(q)'
      <3>1. CASE i \in DOMAIN toSvc[s] /\ toSvc'[s][i] = toSvc[s][i]
        BY <2>1, <2>3, <3>1 DEF IInv, PassedInv
      <3>2. CASE toSvc'[s][i] = m
        BY <2>3, <3>2, <1>11
      <3> QED  BY <3>1, <3>2, <1>6
    <2> QED  BY <2>2, <2>3
  <1>13. ASSUME NEW s \in Svc, NEW x, Contains(toSvc[s], x)
         PROVE  Contains(toSvc'[s], x)
    <2>1. toSvc[s] \in Seq(Msg) /\ m \in Msg  BY <1>2, <1>4
    <2>2. Contains(Append(toSvc[s], m), x)  BY <2>1, <1>13, AppendHas
    <2> QED  BY <2>2, <1>3, <1>13
  <1>14. ArrivedInv'
    <2> SUFFICES ASSUME NEW s \in Svc, NEW q \in Src, NEW k \in 1 .. Passed(q)'
                 PROVE  Contains(seen[s], sent[q][k]) \/ Contains(toSvc'[s], sent[q][k])
      BY <1>1 DEF ArrivedInv
    <2>1. CASE k \in 1 .. Passed(q)
      <3>1. Contains(seen[s], sent[q][k]) \/ Contains(toSvc[s], sent[q][k])
        BY <2>1 DEF IInv, ArrivedInv
      <3> QED  BY <3>1, <1>13
    <2>2. CASE k \notin 1 .. Passed(q)
      <3>0. Passed(q) \in Nat  BY SourceFacts
      <3>1. q = p  BY <2>2, <1>9
      <3>2. k = Passed(q) + 1
        <4>1. Passed(q)' = Passed(q) + 1  BY <3>1, <1>9
        <4> QED  BY <4>1, <2>2, <3>0
      <3>3. s # p  BY <3>1, DeliveryAssumption
      <3>4. sent[q][k] = m  BY <3>1, <3>2, <1>9
      <3>5. Contains(Append(toSvc[s], m), m)  BY <1>2, <1>4, AppendHas
      <3> QED  BY <3>3, <3>4, <3>5, <1>3
    <2> QED  BY <2>1, <2>2
  <1>15. PipeInv'
    <2> SUFFICES ASSUME NEW s \in Svc, NEW q \in Src, NEW i \in DOMAIN toSvc'[s],
                        NEW j \in DOMAIN sent[q], toSvc'[s][i] = sent[q][j],
                        NEW k \in 1 .. (j - 1)
                 PROVE  Contains(seen[s], sent[q][k]) \/ Before(toSvc'[s], sent[q][k], i)
      BY <1>1 DEF PipeInv
    <2>1. CASE i \in DOMAIN toSvc[s] /\ toSvc'[s][i] = toSvc[s][i]
      <3>1. Contains(seen[s], sent[q][k]) \/ Before(toSvc[s], sent[q][k], i)
        BY <2>1 DEF IInv, PipeInv
      <3>2. i \in 1 .. (Len(toSvc[s]) + 1)  BY <2>1, <1>4
      <3>3. Before(Append(toSvc[s], m), sent[q][k], i) <=> Before(toSvc[s], sent[q][k], i)
        <4>1. toSvc[s] \in Seq(Msg) /\ m \in Msg  BY <1>2, <1>4
        <4> DEFINE x == sent[q][k]
        <4> HIDE DEF x
        <4>2. Before(Append(toSvc[s], m), x, i) <=> Before(toSvc[s], x, i)
          BY <3>2, <4>1, AppendHas
        <4> QED  BY <4>2 DEF x
      <3> QED  BY <3>1, <3>3, <1>3
    <2>2. CASE s # p /\ i = Len(toSvc[s]) + 1 /\ toSvc'[s][i] = m
      <3>1. k \in 1 .. Passed(q)  BY <2>2, <1>11
      <3>2. Contains(seen[s], sent[q][k]) \/ Contains(toSvc[s], sent[q][k])
        BY <3>1 DEF IInv, ArrivedInv
      <3>3. i \in 1 .. (Len(toSvc[s]) + 1)  BY <2>2, <1>4
      <3>4. /\ Before(Append(toSvc[s], m), sent[q][k], i) <=> Before(toSvc[s], sent[q][k], i)
            /\ Before(toSvc[s], sent[q][k], Len(toSvc[s]) + 1) <=> Contains(toSvc[s], sent[q][k])
        BY <3>3, <1>2, <1>4, AppendHas
      <3> QED  BY <2>2, <3>2, <3>4, <1>3
    <2> QED  BY <2>1, <2>2, <1>6
  <1>16. FirstCopiesInOrder'
    BY <1>1 DEF IInv, FirstCopiesInOrder
  <1>17. SharedWasDelivered'
    <2>1. \A s \in Svc : ToSet(toCore'[s]) \subseteq ToSet(toCore[s])
      BY <1>7 DEF ToSet
    <2> QED  BY <1>1, <2>1 DEF IInv, SharedWasDelivered
  <1>18. CopiesBounded'
    <2> SUFFICES ASSUME NEW x \in Msg, NEW s \in Svc, NEW t \in Svc, s # t
                 PROVE  Copies(toSvc'[s], x) + Copies(toCore'[s], x)
                           + Copies(toSvc'[t], x) + Copies(toCore'[t], x) <= 2
      BY DEF CopiesBounded
    <2>1. \A u \in Svc : /\ toSvc[u] \in Seq(Msg) /\ toCore[u] \in Seq(Msg)
                         /\ Copies(toSvc[u], x) \in Nat /\ Copies(toCore[u], x) \in Nat
      BY PlacesFinite DEF IInv, TypeOK
    <2>2. Copies(toSvc[s], x) + Copies(toCore[s], x)
             + Copies(toSvc[t], x) + Copies(toCore[t], x) <= 2
      BY DEF IInv, CopiesBounded
    <2>0. PICK d \in 0 .. 1 : d = (IF x = m THEN 1 ELSE 0)
      OBVIOUS
    <2>3. ASSUME NEW u \in Svc, u # p
          PROVE  Copies(toSvc'[u], x) = Copies(toSvc[u], x) + d
      <3>1. Copies(Append(toSvc[u], m), x) = Copies(toSvc[u], x) + (IF x = m THEN 1 ELSE 0)
        BY <2>1, <1>2, CopiesAppend
      <3> QED  BY <3>1, <2>0, <2>3, <1>3
    <2>4. \A u \in Svc : u # p => Copies(toCore'[u], x) = Copies(toCore[u], x)
      BY <1>3
    <2>5. Copies(toCore[p], x) = Copies(toCore'[p], x) + d
      <3>1. Copies(toCore[p], x) = Copies(Tail(toCore[p]), x) + (IF x = m THEN 1 ELSE 0)
        BY <1>1, CopiesTail DEF m
      <3> QED  BY <3>1, <2>0, <1>3
    <2>6. Copies(toCore'[p], x) \in Nat
      BY <1>2, <1>3, PlacesFinite
    <2>7. CASE p \in Svc
      <3>1. p = s \/ p = t
        BY <2>7, DeliveryAssumption
      <3>2. Copies(toSvc'[p], x) = Copies(toSvc[p], x)
        BY <2>7, <1>3
      <3>3. CASE p = s
        <4>1. /\ Copies(toSvc'[t], x) = Copies(toSvc[t], x) + d
              /\ Copies(toCore'[t], x) = Copies(toCore[t], x)
          BY <3>3, <2>3, <2>4
        <4>2. /\ Copies(toSvc'[s], x) = Copies(toSvc[s], x)
              /\ Copies(toCore[s], x) = Copies(toCore'[s], x) + d
              /\ Copies(toCore'[s], x) \in Nat
          BY <3>2, <3>3, <2>5, <2>6
        <4> QED  BY <4>1, <4>2, <2>0, <2>1, <2>2
      <3>4. CASE p = t
        <4>1. /\ Copies(toSvc'[s], x) = Copies(toSvc[s], x) + d
              /\ Copies(toCore'[s], x) = Copies(toCore[s], x)
          BY <3>4, <2>3, <2>4
        <4>2. /\ Copies(toSvc'[t], x) = Copies(toSvc[t], x)
              /\ Copies(toCore[t], x) = Copies(toCore'[t], x) + d
              /\ Copies(toCore'[t], x) \in Nat
          BY <3>2, <3>4, <2>5, <2>6
        <4> QED  BY <4>1, <4>2, <2>0, <2>1, <2>2
      <3> QED  BY <3>1, <3>3, <3>4
    \* The first time a message is passed on there is no copy of it.
    <2>8. CASE p \in Src
      <3>1. s # p /\ t # p  BY <2>8, DeliveryAssumption
      <3>2. CASE x # m
        <4>1. d = 0  BY <3>2, <2>0
        <4>2. /\ Copies(toSvc'[s], x) = Copies(toSvc[s], x) + 0
              /\ Copies(toSvc'[t], x) = Copies(toSvc[t], x) + 0
              /\ Copies(toCore'[s], x) = Copies(toCore[s], x)
              /\ Copies(toCore'[t], x) = Copies(toCore[t], x)
          BY <3>1, <4>1, <2>3, <2>4
        <4> QED  BY <4>2, <2>1, <2>2
      <3>3. CASE x = m
        <4>1. Passed(p) + 1 \in DOMAIN sent[p] /\ sent[p][Passed(p) + 1] = x /\ Passed(p) \in Nat
          BY <2>8, <3>3, <1>9, SourceFacts
        <4>2. ~(Passed(p) + 1 <= Passed(p))  BY <4>1
        <4>3. \A u \in Svc : ~Contains(toCore[u], x) /\ ~Contains(toSvc[u], x)
          <5>1. \A u \in Svc : /\ \A i \in DOMAIN toCore[u] : toCore[u][i] # x
                               /\ \A i \in DOMAIN toSvc[u] : toSvc[u][i] # x
            BY <2>8, <4>1, <4>2 DEF IInv, PassedInv
          <5>2. \A u \in Svc : /\ DOMAIN toCore[u] = 1 .. Len(toCore[u])
                               /\ DOMAIN toSvc[u] = 1 .. Len(toSvc[u])
            BY <2>1, LenProperties
          <5> QED  BY <5>1, <5>2 DEF Contains
        <4>4. \A u \in Svc : Copies(toCore[u], x) = 0 /\ Copies(toSvc[u], x) = 0
          BY <2>1, <4>3, CopiesNone
        <4>5. d = 1  BY <3>3, <2>0
        <4>6. /\ Copies(toSvc'[s], x) = 1 /\ Copies(toSvc'[t], x) = 1
              /\ Copies(toCore'[s], x) = 0 /\ Copies(toCore'[t], x) = 0
          BY <3>1, <4>4, <4>5, <2>3, <2>4
        <4> QED  BY <4>6
      <3> QED  BY <3>2, <3>3
    <2> QED  BY <2>7, <2>8
  <1> QED  BY <1>5, <1>8, <1>10, <1>12, <1>14, <1>15, <1>16, <1>17, <1>18 DEF IInv

-----------------------------------------------------------------------------
(* A CoT service sends a message to its clients.                           *)

\* When the service hands it on, every client it is for has been reached.
LEMMA AllReached ==
    ASSUME IInv, NEW s \in Svc, NEW m \in Msg, Shareable(m), Succeeds(s, body[m]),
           NEW c \in ToSet(queue[s]), Addressed(c, body[m])
    PROVE  c \in Reached(queue[s], Targets(s, body[m]))
  <1>1. PICK i \in DOMAIN queue[s] : queue[s][i] = c
    BY DEF ToSet
  <1>2. body[m] \in Bodies /\ body[m].kind # "response"
    BY DeliveryAssumption DEF IInv, TypeOK, Shareable
  <1>3. body[m].kind \in {"all", "room", "marti"}
    BY <1>2 DEF Bodies
  <1>4. body[m].kind # "marti"
    <2> SUFFICES ASSUME body[m].kind = "marti" PROVE FALSE  OBVIOUS
    <2>1. queue[s] = <<>>  BY DEF Succeeds
    <2> QED  BY <2>1, <1>1
  <1>5. i \in Targets(s, body[m])
    BY <1>1, <1>3, <1>4 DEF Addressed, Targets
  <1>6. \A k \in Targets(s, body[m]) : sock[queue[s][k]] = "ok"
    BY DEF Succeeds
  <1> QED  BY <1>1, <1>5, <1>6 DEF Reached

\* A service takes the first message of its share pipe and may hand it back.
LEMMA HandleSharedDataInv ==
    ASSUME IInv, NEW s \in Svc, HandleSharedData(s)
    PROVE  IInv'
  <1> DEFINE m == Head(toSvc[s])
             b == body[m]
  <1>1. /\ UNCHANGED <<body, queue, sock, sent>>
        /\ toSvc[s] \in Seq(Msg) /\ toSvc[s] # <<>>
        /\ toSvc' = [toSvc EXCEPT ![s] = Tail(toSvc[s])]
        /\ Deliver(m, Reached(queue[s], Targets(s, b)))
        /\ toCore' = IF Succeeds(s, b)
                     THEN [toCore EXCEPT ![s] = Append(toCore[s], m)]
                     ELSE toCore
        /\ seen' = [seen EXCEPT ![s] = IF Contains(seen[s], m) THEN seen[s] ELSE Append(seen[s], m)]
    BY DEF HandleSharedData, IInv, TypeOK
  <1>2. /\ m \in Msg /\ Tail(toSvc[s]) \in Seq(Msg)
        /\ Len(toSvc[s]) \in Nat \ {0} /\ Len(Tail(toSvc[s])) = Len(toSvc[s]) - 1
        /\ DOMAIN toSvc[s] = 1 .. Len(toSvc[s])
        /\ DOMAIN Tail(toSvc[s]) = 1 .. (Len(toSvc[s]) - 1)
        /\ m = toSvc[s][1] /\ 1 \in DOMAIN toSvc[s]
        /\ \A i \in 1 .. (Len(toSvc[s]) - 1) : Tail(toSvc[s])[i] = toSvc[s][i + 1]
    BY <1>1, TailFacts
  <1>3. ASSUME NEW x
        PROVE  /\ Contains(toSvc[s], x) <=> x = m \/ Contains(Tail(toSvc[s]), x)
               /\ \A i \in 1 .. (Len(toSvc[s]) - 1) :
                     Before(toSvc[s], x, i + 1) => x = m \/ Before(Tail(toSvc[s]), x, i)
               /\ ~Before(toSvc[s], x, 1)
               /\ Copies(toSvc[s], x) = Copies(Tail(toSvc[s]), x) + (IF x = m THEN 1 ELSE 0)
    <2>1. Copies(toSvc[s], x) = Copies(Tail(toSvc[s]), x) + (IF x = m THEN 1 ELSE 0)
      BY <1>1, CopiesTail
    <2> QED  BY <2>1, <1>1, TailHas
  <1> HIDE DEF m, b
  <1>4. /\ toSvc'[s] = Tail(toSvc[s]) /\ \A t \in Svc : t # s => toSvc'[t] = toSvc[t]
        /\ \A q \in Svc \cup Src : q # s => toCore'[q] = toCore[q]
        /\ \/ Succeeds(s, b) /\ toCore'[s] = Append(toCore[s], m)
           \/ toCore'[s] = toCore[s]
        /\ \A t \in Svc : t # s => seen'[t] = seen[t]
        /\ \/ ~Contains(seen[s], m) /\ seen'[s] = Append(seen[s], m)
           \/ Contains(seen[s], m) /\ seen'[s] = seen[s]
    BY <1>1 DEF IInv, TypeOK
  <1>5. /\ toCore[s] \in Seq(Msg) /\ Append(toCore[s], m) \in Seq(Msg)
        /\ Len(toCore[s]) \in Nat /\ DOMAIN toCore[s] = 1 .. Len(toCore[s])
        /\ DOMAIN Append(toCore[s], m) = 1 .. (Len(toCore[s]) + 1)
        /\ \A i \in 1 .. Len(toCore[s]) : Append(toCore[s], m)[i] = toCore[s][i]
        /\ Append(toCore[s], m)[Len(toCore[s]) + 1] = m
    <2>1. toCore[s] \in Seq(Msg)  BY DEF IInv, TypeOK
    <2> QED  BY <2>1, <1>2, AppendFacts
  <1>6. /\ seen[s] \in Seq(Msg) /\ Append(seen[s], m) \in Seq(Msg)
        /\ Len(seen[s]) \in Nat /\ DOMAIN seen[s] = 1 .. Len(seen[s])
        /\ DOMAIN Append(seen[s], m) = 1 .. (Len(seen[s]) + 1)
        /\ \A i \in 1 .. Len(seen[s]) : Append(seen[s], m)[i] = seen[s][i]
        /\ Append(seen[s], m)[Len(seen[s]) + 1] = m
    <2>1. seen[s] \in Seq(Msg)  BY DEF IInv, TypeOK
    <2> QED  BY <2>1, <1>2, AppendFacts
  <1>7. /\ got' \in [Client -> [Event -> 0 .. 2]]
        /\ \A c \in Client, x \in Event : got[c][x] > 0 => got'[c][x] > 0
        /\ \A c \in Client : c \in Reached(queue[s], Targets(s, b)) => got'[c][m] > 0
    BY <1>1, <1>2, DeliverEffect DEF IInv, Event
  <1>8. TypeOK'
    BY <1>1, <1>2, <1>5, <1>6, <1>7 DEF IInv, TypeOK
  <1>9. s \notin Src /\ \A q \in Src : toCore'[q] = toCore[q]
    BY <1>4, DeliveryAssumption
  <1>10. \A q \in Src : Passed(q)' = Passed(q)
    BY <1>1, <1>9 DEF Passed
  <1>11. ASSUME NEW t \in Svc, NEW i \in DOMAIN toCore'[t]
         PROVE  \/ i \in DOMAIN toCore[t] /\ toCore'[t][i] = toCore[t][i]
                \/ t = s /\ toCore'[t][i] = m /\ Succeeds(s, b)
    <2>1. CASE t # s  BY <2>1, <1>4
    <2>2. CASE t = s /\ toCore'[s] = toCore[s]  BY <2>2
    <2>3. CASE t = s /\ Succeeds(s, b) /\ toCore'[s] = Append(toCore[s], m)
      <3>1. i \in 1 .. (Len(toCore[s]) + 1)  BY <2>3, <1>5
      <3>2. i \in 1 .. Len(toCore[s]) \/ i = Len(toCore[s]) + 1  BY <3>1, <1>5
      <3> QED  BY <2>3, <3>2, <1>5
    <2> QED  BY <2>1, <2>2, <2>3, <1>4
  <1>12. ASSUME NEW t \in Svc, NEW i \in DOMAIN toSvc'[t]
         PROVE  \/ t # s /\ i \in DOMAIN toSvc[t] /\ toSvc'[t][i] = toSvc[t][i]
                \/ /\ t = s /\ i \in 1 .. (Len(toSvc[s]) - 1)
                   /\ i + 1 \in DOMAIN toSvc[s] /\ toSvc'[t][i] = toSvc[s][i + 1]
    <2>1. CASE t # s  BY <2>1, <1>4
    <2>2. CASE t = s
      <3>1. i \in 1 .. (Len(toSvc[s]) - 1)  BY <2>2, <1>2, <1>4
      <3>2. i + 1 \in 1 .. Len(toSvc[s])  BY <3>1, <1>2
      <3> QED  BY <2>2, <3>1, <3>2, <1>2, <1>4
    <2> QED  BY <2>1, <2>2
  <1>13. ASSUME NEW t \in Svc, NEW i \in DOMAIN seen'[t]
         PROVE  \/ i \in DOMAIN seen[t] /\ seen'[t][i] = seen[t][i]
                \/ t = s /\ i = Len(seen[s]) + 1 /\ seen'[t][i] = m
    <2>1. CASE t # s  BY <2>1, <1>4
    <2>2. CASE t = s /\ seen'[s] = seen[s]  BY <2>2
    <2>3. CASE t = s /\ seen'[s] = Append(seen[s], m)
      <3>1. i \in 1 .. (Len(seen[s]) + 1)  BY <2>3, <1>6
      <3>2. i \in 1 .. Len(seen[s]) \/ i = Len(seen[s]) + 1  BY <3>1, <1>6
      <3> QED  BY <2>3, <3>2, <1>6
    <2> QED  BY <2>1, <2>2, <2>3, <1>4
  <1>14. ASSUME NEW x
         PROVE  /\ Contains(seen'[s], x) <=> Contains(seen[s], x) \/ x = m
    <2>1. CASE seen'[s] = Append(seen[s], m)
      BY <2>1, <1>2, <1>6, AppendHas
    <2>2. CASE Contains(seen[s], m) /\ seen'[s] = seen[s]
      BY <2>2
    <2> QED  BY <2>1, <2>2, <1>4
  <1>15. Shareable(m) /\ body[m] # NoBody
    BY <1>2 DEF IInv, BodyInv, Shareable
  <1>16. BodyInv'
    <2>1. \A t \in Svc : \A i \in DOMAIN toCore'[t] : Shareable(toCore[t][i])'
      BY <1>1, <1>11, <1>15 DEF IInv, BodyInv, Shareable
    <2>2. \A q \in Src : \A i \in DOMAIN toCore'[q] : Shareable(toCore[q][i])'
      BY <1>1, <1>9 DEF IInv, BodyInv, Shareable
    <2>3. \A t \in Svc : \A i \in DOMAIN toSvc'[t] : Shareable(toSvc[t][i])'
      BY <1>1, <1>12 DEF IInv, BodyInv, Shareable
    <2>4. \A t \in Svc : \A i \in DOMAIN seen'[t] : body'[seen'[t][i]] # NoBody
      BY <1>1, <1>13, <1>15 DEF IInv, BodyInv
    <2> QED  BY <1>1, <2>1, <2>2, <2>3, <2>4 DEF IInv, BodyInv
  <1>17. SourceInv'
    BY <1>1, <1>9, <1>10 DEF IInv, SourceInv
  <1>18. PassedInv'
    <2> SUFFICES ASSUME NEW t \in Svc, NEW q \in Src, NEW j \in DOMAIN sent[q]
                 PROVE  /\ \A i \in DOMAIN toCore'[t] :
                              toCore'[t][i] = sent[q][j] => j <= Passed(q)
                        /\ \A i \in DOMAIN toSvc'[t] :
                              toSvc'[t][i] = sent[q][j] => j <= Passed(q)
      BY <1>1, <1>10 DEF PassedInv
    <2>1. m = sent[q][j] => j <= Passed(q)
      BY <1>2 DEF IInv, PassedInv
    <2>2. \A i \in DOMAIN toCore'[t] : toCore'[t][i] = sent[q][j] => j <= Passed(q)
      BY <2>1, <1>11 DEF IInv, PassedInv
    <2>3. \A i \in DOMAIN toSvc'[t] : toSvc'[t][i] = sent[q][j] => j <= Passed(q)
      BY <1>12 DEF IInv, PassedInv
    <2> QED  BY <2>2, <2>3
  <1>19. ArrivedInv'
    <2> SUFFICES ASSUME NEW t \in Svc, NEW q \in Src, NEW k \in 1 .. Passed(q)
                 PROVE  Contains(seen'[t], sent[q][k]) \/ Contains(toSvc'[t], sent[q][k])
      BY <1>1, <1>10 DEF ArrivedInv
    <2> DEFINE x == sent[q][k]
    <2>1. Contains(seen[t], x) \/ Contains(toSvc[t], x)
      BY DEF IInv, ArrivedInv
    <2> HIDE DEF x
    <2>2. CASE t = s
      <3>1. Contains(toSvc[s], x) => x = m \/ Contains(toSvc'[s], x)  BY <1>3, <1>4
      <3> QED  BY <2>1, <2>2, <3>1, <1>14 DEF x
    <2>3. CASE t # s
      BY <2>1, <2>3, <1>4 DEF x
    <2> QED  BY <2>2, <2>3
  <1>20. PipeInv'
    <2> SUFFICES ASSUME NEW t \in Svc, NEW q \in Src, NEW i \in DOMAIN toSvc'[t],
                        NEW j \in DOMAIN sent[q], toSvc'[t][i] = sent[q][j],
                        NEW k \in 1 .. (j - 1)
                 PROVE  Contains(seen'[t], sent[q][k]) \/ Before(toSvc'[t], sent[q][k], i)
      BY <1>1 DEF PipeInv
    <2>1. CASE t # s /\ i \in DOMAIN toSvc[t] /\ toSvc'[t][i] = toSvc[t][i]
      BY <2>1, <1>4 DEF IInv, PipeInv
    <2>2. CASE /\ t = s /\ i \in 1 .. (Len(toSvc[s]) - 1)
               /\ i + 1 \in DOMAIN toSvc[s] /\ toSvc'[t][i] = toSvc[s][i + 1]
      <3> DEFINE x == sent[q][k]
      <3>1. Contains(seen[s], x) \/ Before(toSvc[s], x, i + 1)
        BY <2>2 DEF IInv, PipeInv
      <3> HIDE DEF x
      <3>2. Before(toSvc[s], x, i + 1) => x = m \/ Before(toSvc'[s], x, i)
        BY <2>2, <1>3, <1>4
      <3> QED  BY <2>2, <3>1, <3>2, <1>14 DEF x
    <2> QED  BY <2>1, <2>2, <1>12
  <1>21. FirstCopiesInOrder'
    <2>0. sent' = sent  BY <1>1
    <2> SUFFICES ASSUME NEW t \in Svc, NEW q \in Src, NEW i \in DOMAIN seen'[t],
                        NEW j \in DOMAIN sent[q], seen'[t][i] = sent[q][j],
                        NEW k \in 1 .. (j - 1)
                 PROVE  \E h \in 1 .. (i - 1) : seen'[t][h] = sent[q][k]
      BY <2>0 DEF FirstCopiesInOrder
    <2>1. CASE i \in DOMAIN seen[t] /\ seen'[t][i] = seen[t][i]
      <3>1. PICK h \in 1 .. (i - 1) : seen[t][h] = sent[q][k]
        BY <2>1 DEF IInv, FirstCopiesInOrder
      <3>2. DOMAIN seen[t] = 1 .. Len(seen[t]) /\ Len(seen[t]) \in Nat
        BY LenProperties DEF IInv, TypeOK
      <3>3. h \in 1 .. Len(seen[t])
        BY <2>1, <3>2
      <3>4. seen'[t][h] = seen[t][h]
        BY <3>3, <1>4, <1>6
      <3> QED  BY <3>1, <3>4
    <2>2. CASE t = s /\ i = Len(seen[s]) + 1 /\ seen'[t][i] = m
      <3>1. Contains(seen[s], sent[q][k]) \/ Before(toSvc[s], sent[q][k], 1)
        BY <2>2, <1>2 DEF IInv, PipeInv
      <3>2. Contains(seen[s], sent[q][k])
        BY <3>1, <1>3
      <3>3. PICK h \in 1 .. Len(seen[s]) : seen[s][h] = sent[q][k]
        BY <3>2 DEF Contains
      <3>4. seen'[s][h] = seen[s][h]
        BY <1>4, <1>6
      <3>5. h \in 1 .. (i - 1)
        BY <2>2, <1>6
      <3> QED  BY <2>2, <3>3, <3>4, <3>5
    <2> QED  BY <2>1, <2>2, <1>13
  <1>22. SharedWasDelivered'
    <2> SUFFICES ASSUME NEW t \in Svc, NEW i \in DOMAIN toCore'[t], NEW c \in ToSet(queue[t]),
                        Addressed(c, body[toCore'[t][i]]), sock[c] = "ok"
                 PROVE  got'[c][toCore'[t][i]] > 0
      BY <1>1 DEF SharedWasDelivered, ToSet
    <2>1. c \in Client
      BY ElementOfSeq, LenProperties DEF IInv, TypeOK, ToSet
    <2>2. CASE i \in DOMAIN toCore[t] /\ toCore'[t][i] = toCore[t][i]
      <3>1. toCore[t][i] \in Msg
        BY <2>2, ElementOfSeq, LenProperties DEF IInv, TypeOK
      <3>2. got[c][toCore[t][i]] > 0
        BY <2>2 DEF IInv, SharedWasDelivered, ToSet
      <3> QED  BY <2>1, <2>2, <3>1, <3>2, <1>7 DEF Event
    <2>3. CASE t = s /\ toCore'[t][i] = m /\ Succeeds(s, b)
      <3>1. c \in Reached(queue[s], Targets(s, body[m]))
        BY <2>3, <1>2, <1>15, AllReached DEF b
      <3> QED  BY <2>1, <2>3, <3>1, <1>7 DEF b
    <2> QED  BY <2>2, <2>3, <1>11
  <1>23. CopiesBounded'
    <2> SUFFICES ASSUME NEW x \in Msg, NEW t \in Svc, NEW u \in Svc, t # u
                 PROVE  Copies(toSvc'[t], x) + Copies(toCore'[t], x)
                           + Copies(toSvc'[u], x) + Copies(toCore'[u], x) <= 2
      BY DEF CopiesBounded
    <2>1. \A v \in Svc : Copies(toSvc[v], x) \in Nat /\ Copies(toCore[v], x) \in Nat
      BY PlacesFinite DEF IInv, TypeOK
    <2>2. Copies(toSvc[t], x) + Copies(toCore[t], x)
             + Copies(toSvc[u], x) + Copies(toCore[u], x) <= 2
      BY DEF IInv, CopiesBounded
    <2>3. \A v \in Svc : v # s => /\ Copies(toSvc'[v], x) = Copies(toSvc[v], x)
                                  /\ Copies(toCore'[v], x) = Copies(toCore[v], x)
      BY <1>4
    <2>4. PICK d \in 0 .. 1 : d = (IF x = m THEN 1 ELSE 0)
      OBVIOUS
    <2>5. Copies(toSvc[s], x) = Copies(toSvc'[s], x) + d /\ Copies(toSvc'[s], x) \in Nat
      BY <2>4, <1>2, <1>3, <1>4, PlacesFinite
    <2>6. Copies(Append(toCore[s], m), x) = Copies(toCore[s], x) + d
      <3>1. Copies(Append(toCore[s], m), x) = Copies(toCore[s], x) + (IF x = m THEN 1 ELSE 0)
        BY <1>2, <1>5, CopiesAppend
      <3> QED  BY <2>4, <3>1
    <2>7. Copies(toCore'[s], x) = Copies(toCore[s], x) \/ Copies(toCore'[s], x) = Copies(toCore[s], x) + d
      BY <2>6, <1>4
    <2>8. CASE t # s /\ u # s
      BY <2>8, <2>2, <2>3
    <2>9. CASE t = s
      <3>1. /\ Copies(toSvc'[u], x) = Copies(toSvc[u], x)
            /\ Copies(toCore'[u], x) = Copies(toCore[u], x)
        BY <2>9, <2>3
      <3> QED  BY <2>9, <3>1, <2>1, <2>2, <2>4, <2>5, <2>7
    <2>10. CASE u = s
      <3>1. /\ Copies(toSvc'[t], x) = Copies(toSvc[t], x)
            /\ Copies(toCore'[t], x) = Copies(toCore[t], x)
        BY <2>10, <2>3
      <3> QED  BY <2>10, <3>1, <2>1, <2>2, <2>4, <2>5, <2>7
    <2> QED  BY <2>8, <2>9, <2>10
  <1> QED  BY <1>8, <1>16, <1>17, <1>18, <1>19, <1>20, <1>21, <1>22, <1>23 DEF IInv

-----------------------------------------------------------------------------
(* The theorems.                                                           *)

\* Every step keeps the invariant.
LEMMA StepInv == IInv /\ [Next]_vars => IInv'
  <1> SUFFICES ASSUME IInv, [Next]_vars PROVE IInv'  OBVIOUS
  <1>1. CASE Next
    BY <1>1, PutInv, CheckPipeInv, HandleSharedDataInv, ResponseInv, BreakInv, DisconnectionInv
    DEF Next, Core
  <1>2. CASE UNCHANGED vars
    <2>1. UNCHANGED <<toCore, toSvc, sent, seen>>  BY <1>2 DEF vars
    <2>2. TypeOK' /\ BodyInv' /\ SharedWasDelivered'
      BY <1>2 DEF vars, IInv, TypeOK, BodyInv, Shareable, SharedWasDelivered
    <2> QED  BY <2>1, <2>2, PipesUnchanged DEF IInv
  <1> QED  BY <1>1, <1>2

(* The invariant behind the theorems of this module holds of the delivery. *)
THEOREM Invariance == Spec => []IInv
  BY InitInv, StepInv, PTL DEF Spec

(* The pipes hold messages only, checkPipes unwraps what came in a list.   *)
THEOREM TypeCorrect == Spec => []TypeOK
  <1>1. IInv => TypeOK  BY DEF IInv
  <1> QED  BY <1>1, Invariance, PTL

(* sendDataInQueue: what a service hands on to the core has reached each   *)
(* of its clients that it is for and that can still be sent to.            *)
THEOREM HandedOnWasDelivered == Spec => []SharedWasDelivered
  <1>1. IInv => SharedWasDelivered  BY DEF IInv
  <1> QED  BY <1>1, Invariance, PTL

(* checkPipes and the share pipes: the first copies of the messages of a   *)
(* source come to each service in the order they were sent.                *)
THEOREM InOrder == Spec => []FirstCopiesInOrder
  <1>1. IInv => FirstCopiesInOrder  BY DEF IInv
  <1> QED  BY <1>1, Invariance, PTL

(* The copies of a message that two services send back and forth over the  *)
(* core stay two: the core hands each one only to the other service.       *)
THEOREM CopiesStayTwo == Spec => []CopiesBounded
  <1>1. IInv => CopiesBounded  BY DEF IInv
  <1> QED  BY <1>1, Invariance, PTL

=============================================================================
