------------------------ MODULE OrderGatewayProofs ------------------------
(***************************************************************************)
(* Proofs about the gateway's threads for every size of the two queues and *)
(* any number of datagrams: types and shutdown, from an invariant that is  *)
(* the type invariant together with PublisherLeavesOne, and the order of   *)
(* the quotes.                                                             *)
(***************************************************************************)
EXTENDS OrderGateway, TLAPS, SequenceTheorems

(* Pushing onto a bounded queue, dropping its oldest entry when it is      *)
(* full, yields a queue of entries within the bound.                       *)
LEMMA PushType ==
    ASSUME NEW queue \in Seq(Bbo), NEW max \in Nat \ {0}, Len(queue) <= max,
           NEW bbo \in Bbo
    PROVE  /\ PushDroppingOldest(queue, max, bbo) \in Seq(Bbo)
           /\ Len(PushDroppingOldest(queue, max, bbo)) <= max
           /\ Len(PushDroppingOldest(queue, max, bbo)) <= Len(queue) + 1
<1>1. CASE Len(queue) >= max
  <2>1. queue # <<>>
    BY <1>1
  <2>2. Tail(queue) \in Seq(Bbo) /\ Len(Tail(queue)) = Len(queue) - 1
    BY <2>1
  <2> QED BY <1>1, <2>2 DEF PushDroppingOldest
<1>2. CASE Len(queue) < max
  BY <1>2 DEF PushDroppingOldest
<1> QED BY <1>1, <1>2

GatewayInvariant == TypeOK /\ PublisherLeavesOne

LEMMA InitGateway == Init => GatewayInvariant
<1> SUFFICES ASSUME Init PROVE GatewayInvariant
  OBVIOUS
<1>1. TypeOK
  <2>1. running \in BOOLEAN /\ lRunning \in BOOLEAN
        /\ socketOpen \in BOOLEAN /\ ioStopped \in BOOLEAN
    BY DEF Init
  <2> QED BY <2>1, GatewayAssumption DEF Init, TypeOK, NoBbo
<1>2. PublisherLeavesOne
  BY DEF Init, PublisherLeavesOne
<1> QED BY <1>1, <1>2 DEF GatewayInvariant

LEMMA AsioStep ==
    ASSUME GatewayInvariant, Asio
    PROVE  GatewayInvariant'
<1> USE GatewayAssumption
<1> USE DEF GatewayInvariant, ioVars, asioVars, readerVars, publisherVars
<1>1. CASE ThreadFunc
  <2>1. ioStopped' \in BOOLEAN
    BY <1>1 DEF ThreadFunc, TypeOK
  <2>2. TypeOK'
    BY <1>1, <2>1 DEF ThreadFunc, TypeOK
  <2>3. PublisherLeavesOne'
    BY <1>1 DEF ThreadFunc, TypeOK, PublisherLeavesOne
  <2> QED BY <2>2, <2>3
<1>2. CASE OnReceive
  BY <1>2 DEF OnReceive, TypeOK, PublisherLeavesOne, Bbo, NoBbo
<1>3. CASE ProcessBbo
  <2>1. asioBbo \in Bbo
    BY <1>3 DEF ProcessBbo, TypeOK
  <2>2. lQueue' \in Seq(Bbo) /\ Len(lQueue') <= ListenerMax
    BY <1>3, <2>1, PushType DEF ProcessBbo, TypeOK
  <2>3. TypeOK'
    BY <1>3, <2>2 DEF ProcessBbo, TypeOK, NoBbo
  <2>4. PublisherLeavesOne'
    BY <1>3 DEF ProcessBbo, PublisherLeavesOne
  <2> QED BY <2>3, <2>4
<1>4. CASE Rearm
  BY <1>4 DEF Rearm, TypeOK, PublisherLeavesOne
<1>5. CASE OnReceiveError
  BY <1>5 DEF OnReceiveError, TypeOK, PublisherLeavesOne
<1>6. CASE RunReturns
  BY <1>6 DEF RunReturns, TypeOK, PublisherLeavesOne
<1> QED BY <1>1, <1>2, <1>3, <1>4, <1>5, <1>6 DEF Asio

(* The reader: what it pushes after the publisher ended is its last BBO,   *)
(* because the test of running_ comes before the next one is taken.        *)
LEMMA ReaderStep ==
    ASSUME GatewayInvariant, Reader
    PROVE  GatewayInvariant'
<1> USE GatewayAssumption
<1> USE DEF GatewayInvariant, ioVars, asioVars, readerVars, publisherVars
<1>1. CASE ReaderLoop
  BY <1>1 DEF ReaderLoop, TypeOK, PublisherLeavesOne
<1>2. CASE LazyStart
  BY <1>2 DEF LazyStart, TypeOK, PublisherLeavesOne
<1>3. CASE Run
  BY <1>3 DEF Run, TypeOK, PublisherLeavesOne
<1>4. CASE TestPredicate
  BY <1>4 DEF TestPredicate, TypeOK, PublisherLeavesOne
<1>5. CASE FallAsleep
  BY <1>5 DEF FallAsleep, TypeOK, PublisherLeavesOne
<1>6. CASE TakeBbo
  <2>1. Head(lQueue) \in Bbo /\ Tail(lQueue) \in Seq(Bbo)
        /\ Len(Tail(lQueue)) <= ListenerMax
    BY <1>6 DEF TakeBbo, TypeOK
  <2> QED BY <1>6, <2>1 DEF TakeBbo, TypeOK, PublisherLeavesOne, Bbo, NoBbo
<1>7. CASE ListenerStopped
  <2>1. running' \in BOOLEAN
    BY <1>7 DEF ListenerStopped, TypeOK
  <2>2. TypeOK'
    BY <1>7, <2>1 DEF ListenerStopped, TypeOK
  <2>3. PublisherLeavesOne'
    BY <1>7 DEF ListenerStopped, TypeOK, PublisherLeavesOne
  <2> QED BY <2>2, <2>3
<1>8. CASE PushToGateway
  <2>1. readerBbo \in Bbo
    BY <1>8 DEF PushToGateway, TypeOK
  <2>2. /\ gQueue' \in Seq(Bbo) /\ Len(gQueue') <= GatewayMax
        /\ Len(gQueue') <= Len(gQueue) + 1
    BY <1>8, <2>1, PushType DEF PushToGateway, TypeOK
  <2>3. TypeOK'
    BY <1>8, <2>2 DEF PushToGateway, TypeOK, NoBbo
  <2>4. publisherPc = "ended" => Len(gQueue) = 0
    BY <1>8 DEF PushToGateway, PublisherLeavesOne, TypeOK
  <2>5. PublisherLeavesOne'
    BY <1>8, <2>2, <2>4 DEF PushToGateway, PublisherLeavesOne
  <2> QED BY <2>3, <2>5
<1> QED BY <1>1, <1>2, <1>3, <1>4, <1>5, <1>6, <1>7, <1>8 DEF Reader

LEMMA PublisherStep ==
    ASSUME GatewayInvariant, PublishBBO \/ PublisherEnds
    PROVE  GatewayInvariant'
<1> USE GatewayAssumption
<1> USE DEF GatewayInvariant, ioVars, asioVars, readerVars, publisherVars
<1>1. CASE PublishBBO
  <2>1. /\ Head(gQueue) \in Bbo /\ Tail(gQueue) \in Seq(Bbo)
        /\ Len(Tail(gQueue)) <= GatewayMax
    BY <1>1 DEF PublishBBO, TypeOK
  <2>2. Append(published, Head(gQueue)) \in Seq(Bbo)
    BY <2>1 DEF TypeOK
  <2> QED BY <1>1, <2>1, <2>2 DEF PublishBBO, TypeOK, PublisherLeavesOne
<1>2. CASE PublisherEnds
  BY <1>2 DEF PublisherEnds, TypeOK, PublisherLeavesOne
<1> QED BY <1>1, <1>2

LEMMA MainStep ==
    ASSUME GatewayInvariant, Signal \/ Stop
    PROVE  GatewayInvariant'
<1> USE GatewayAssumption
<1> USE DEF GatewayInvariant, ioVars, asioVars, readerVars, publisherVars
<1>1. CASE Signal
  <2>1. running' \in BOOLEAN
    BY <1>1 DEF Signal, TypeOK
  <2>2. TypeOK'
    BY <1>1, <2>1 DEF Signal, TypeOK
  <2>3. PublisherLeavesOne'
    BY <1>1 DEF Signal, TypeOK, PublisherLeavesOne
  <2> QED BY <2>2, <2>3
<1>2. CASE StopListener
  <2>1. lRunning' \in BOOLEAN
    BY <1>2 DEF StopListener, TypeOK
  <2>2. TypeOK'
    BY <1>2, <2>1 DEF StopListener, TypeOK
  <2>3. PublisherLeavesOne'
    BY <1>2 DEF StopListener, TypeOK, PublisherLeavesOne
  <2> QED BY <2>2, <2>3
<1>3. CASE CloseSocket
  <2>1. socketOpen' \in BOOLEAN
    BY <1>3 DEF CloseSocket, TypeOK
  <2>2. TypeOK'
    BY <1>3, <2>1 DEF CloseSocket, TypeOK
  <2>3. PublisherLeavesOne'
    BY <1>3 DEF CloseSocket, TypeOK, PublisherLeavesOne
  <2> QED BY <2>2, <2>3
<1>4. CASE StopIo
  <2>1. ioStopped' \in BOOLEAN
    BY <1>4 DEF StopIo, TypeOK
  <2>2. TypeOK'
    BY <1>4, <2>1 DEF StopIo, TypeOK
  <2>3. PublisherLeavesOne'
    BY <1>4 DEF StopIo, TypeOK, PublisherLeavesOne
  <2> QED BY <2>2, <2>3
<1>5. CASE NotifyReaders
  BY <1>5 DEF NotifyReaders, TypeOK, PublisherLeavesOne
<1>6. CASE JoinAsio
  <2>1. TypeOK'
    BY <1>6 DEF JoinAsio, TypeOK
  <2>2. PublisherLeavesOne'
    BY <1>6 DEF JoinAsio, TypeOK, PublisherLeavesOne
  <2> QED BY <2>1, <2>2
<1>7. CASE JoinThreads
  BY <1>7 DEF JoinThreads, TypeOK, PublisherLeavesOne
<1> QED BY <1>1, <1>2, <1>3, <1>4, <1>5, <1>6, <1>7 DEF Stop

LEMMA GatewayStep == GatewayInvariant /\ [Next]_vars => GatewayInvariant'
<1> SUFFICES ASSUME GatewayInvariant, [Next]_vars PROVE GatewayInvariant'
  OBVIOUS
<1>1. CASE UNCHANGED vars
  BY <1>1 DEF vars, ioVars, asioVars, readerVars, publisherVars,
     GatewayInvariant, TypeOK, PublisherLeavesOne
<1> QED BY <1>1, AsioStep, ReaderStep, PublisherStep, MainStep DEF Next

---------------------------------------------------------------------------
(* Types of the threads' places and of the queues, which never exceed      *)
(* their limits.                                                           *)
THEOREM GatewayTypeCorrect == Spec => []TypeOK
<1>1. GatewayInvariant => TypeOK
  BY DEF GatewayInvariant
<1> QED BY <1>1, InitGateway, GatewayStep, PTL DEF Spec

(* When stop() returns, at most one BBO that was taken from the listener   *)
(* has not been published, whatever the sizes of the queues.               *)
THEOREM StopLeavesOneHolds == Spec => []StopLeavesOne
<1>1. GatewayInvariant => StopLeavesOne
  BY DEF GatewayInvariant, PublisherLeavesOne, StopLeavesOne
<1> QED BY <1>1, InitGateway, GatewayStep, PTL DEF Spec

---------------------------------------------------------------------------
(* The order of the quotes.  A step leaves the stream of all quotes held   *)
(* as it is, appends the newest, or takes one out of its middle.           *)

Increasing(s) == \A i \in 1..(Len(s) - 1) : s[i] < s[i + 1]

(* A sequence is its head followed by its tail.                            *)
LEMMA HeadThenTail ==
    ASSUME NEW S, NEW s \in Seq(S), s # <<>>
    PROVE  /\ Head(s) \in S /\ Tail(s) \in Seq(S)
           /\ s = <<Head(s)>> \o Tail(s)
<1>1. /\ Head(s) \in S /\ Tail(s) \in Seq(S) /\ Len(Tail(s)) = Len(s) - 1
      /\ \A i \in 1..Len(Tail(s)) : Tail(s)[i] = s[i + 1]
  BY HeadTailProperties
<1>2. Len(s) \in Nat /\ Len(s) >= 1 /\ Head(s) = s[1]
  BY EmptySeq, LenProperties
<1>3. <<Head(s)>> \in Seq(S) /\ Len(<<Head(s)>>) = 1 /\ <<Head(s)>>[1] = Head(s)
  BY <1>1
<1>4. /\ <<Head(s)>> \o Tail(s) \in Seq(S) /\ Len(<<Head(s)>> \o Tail(s)) = Len(s)
      /\ \A i \in 1..Len(s) : (<<Head(s)>> \o Tail(s))[i] =
             IF i <= 1 THEN <<Head(s)>>[i] ELSE Tail(s)[i - 1]
  <2>1. 1 + Len(Tail(s)) = Len(s)
    BY <1>1, <1>2
  <2> QED BY <1>1, <1>3, <2>1, ConcatProperties
<1>5. ASSUME NEW i \in 1..Len(s)
      PROVE  (<<Head(s)>> \o Tail(s))[i] = s[i]
  <2>1. CASE i = 1
    BY <1>2, <1>3, <1>4, <2>1
  <2>2. CASE i > 1
    <3>1. i - 1 \in 1..Len(Tail(s)) /\ (i - 1) + 1 = i
      BY <1>1, <1>2, <2>2
    <3>2. Tail(s)[i - 1] = s[i]
      BY <1>1, <3>1
    <3> QED BY <1>4, <2>2, <3>2
  <2> QED BY <1>2, <2>1, <2>2
<1> QED BY <1>1, <1>4, <1>5, SeqEqual

(* The elements of a concatenation, by their place in either half.         *)
LEMMA ConcatAt ==
    ASSUME NEW S, NEW a \in Seq(S), NEW b \in Seq(S)
    PROVE  /\ a \o b \in Seq(S) /\ Len(a) \in Nat /\ Len(b) \in Nat
           /\ Len(a \o b) = Len(a) + Len(b)
           /\ \A i \in 1..Len(a) : (a \o b)[i] = a[i]
           /\ \A j \in 1..Len(b) : (a \o b)[Len(a) + j] = b[j]
<1>1. Len(a) \in Nat /\ Len(b) \in Nat
  BY LenProperties
<1>2. /\ a \o b \in Seq(S) /\ Len(a \o b) = Len(a) + Len(b)
      /\ \A i \in 1..(Len(a) + Len(b)) :
           (a \o b)[i] = IF i <= Len(a) THEN a[i] ELSE b[i - Len(a)]
  BY ConcatProperties
<1>3. ASSUME NEW i \in 1..Len(a) PROVE (a \o b)[i] = a[i]
  <2>1. i \in 1..(Len(a) + Len(b)) /\ i <= Len(a)
    BY <1>1
  <2> QED BY <1>2, <2>1
<1>4. ASSUME NEW j \in 1..Len(b) PROVE (a \o b)[Len(a) + j] = b[j]
  <2>1. /\ Len(a) + j \in 1..(Len(a) + Len(b)) /\ ~(Len(a) + j <= Len(a))
        /\ (Len(a) + j) - Len(a) = j
    BY <1>1
  <2> QED BY <1>2, <2>1
<1> QED BY <1>1, <1>2, <1>3, <1>4

(* An element taken out of the middle leaves the rest in order.            *)
LEMMA TakenOut ==
    ASSUME NEW S, S \subseteq Nat,
           NEW a \in Seq(S), NEW x \in S, NEW b \in Seq(S),
           Increasing(a \o (<<x>> \o b))
    PROVE  Increasing(a \o b)
<1> DEFINE xb == <<x>> \o b
           s == a \o xb
           t == a \o b
           n == Len(a)
           m == Len(b)
<1>1. /\ xb \in Seq(S) /\ Len(xb) = m + 1 /\ xb[1] = x
      /\ \A j \in 1..m : xb[j + 1] = b[j]
  <2>1. <<x>> \in Seq(S) /\ Len(<<x>>) = 1 /\ <<x>>[1] = x
    OBVIOUS
  <2>2. \A j \in 1..m : 1 + j = j + 1
    BY LenProperties
  <2>3. m \in Nat /\ 1 \in 1..1 /\ 1 + m = m + 1
    BY LenProperties
  <2>4. /\ xb \in Seq(S) /\ Len(xb) = 1 + m
        /\ \A i \in 1..1 : xb[i] = <<x>>[i]
        /\ \A j \in 1..m : xb[1 + j] = b[j]
    BY <2>1, ConcatAt
  <2> QED BY <2>1, <2>2, <2>3, <2>4
<1> HIDE DEF xb
<1>2. /\ s \in Seq(S) /\ n \in Nat /\ m \in Nat /\ Len(s) = n + (m + 1)
      /\ \A i \in 1..n : s[i] = a[i]
      /\ \A j \in 1..(m + 1) : s[n + j] = xb[j]
  <2>1. /\ s \in Seq(S) /\ n \in Nat /\ Len(s) = n + Len(xb)
        /\ \A i \in 1..n : s[i] = a[i]
        /\ \A j \in 1..Len(xb) : s[n + j] = xb[j]
    <3>1. xb \in Seq(S)
      BY <1>1
    <3> QED BY <3>1, ConcatAt
  <2>2. m \in Nat
    BY LenProperties
  <2> QED BY <1>1, <2>1, <2>2
<1>3. /\ Len(t) = n + m
      /\ \A i \in 1..n : t[i] = a[i]
      /\ \A j \in 1..m : t[n + j] = b[j]
  BY ConcatAt
<1>4. \A i \in 1..Len(s) : s[i] \in Nat
  BY <1>2, ElementOfSeq
<1>5. Increasing(s)
  BY DEF xb
<1> HIDE DEF s, t, n, m
<1>6. \A i \in 1..(n + m) : s[i] < s[i + 1]
  BY <1>2, <1>5 DEF Increasing
<1>7. ASSUME NEW j \in 1..m
      PROVE  /\ t[n + j] = s[n + (j + 1)] /\ s[n + (j + 1)] = s[(n + j) + 1]
             /\ n + j \in 1..(n + m)
  <2>1. j + 1 \in 1..(m + 1) /\ n + (j + 1) = (n + j) + 1 /\ n + j \in 1..(n + m)
    BY <1>2
  <2> QED BY <1>1, <1>2, <1>3, <2>1
<1>8. ASSUME NEW i \in 1..(Len(t) - 1) PROVE t[i] < t[i + 1]
  <2>1. i \in 1..(n + m) /\ i + 1 \in 1..(n + m)
    BY <1>2, <1>3
  <2>2. CASE i + 1 <= n
    <3>1. i \in 1..n /\ i + 1 \in 1..n
      BY <1>2, <2>1, <2>2
    <3>2. t[i] = s[i] /\ t[i + 1] = s[i + 1]
      BY <1>2, <1>3, <3>1
    <3> QED BY <1>6, <2>1, <3>2
  <2>3. CASE i = n
    <3>1. i \in 1..n /\ 1 \in 1..m /\ n + 1 = i + 1
      BY <1>2, <2>1, <2>3
    <3>2. t[i] = s[i]
      BY <1>2, <1>3, <3>1
    <3>3. t[i + 1] = s[(i + 1) + 1]
      BY <1>7, <3>1
    <3>4. s[i] < s[i + 1] /\ s[i + 1] < s[(i + 1) + 1]
      BY <1>6, <2>1
    <3>5. i \in 1..Len(s) /\ i + 1 \in 1..Len(s) /\ (i + 1) + 1 \in 1..Len(s)
      BY <1>2, <2>1
    <3>6. s[i] \in Nat /\ s[i + 1] \in Nat /\ s[(i + 1) + 1] \in Nat
      BY <1>4, <3>5
    <3> QED BY <3>2, <3>3, <3>4, <3>6
  <2>4. CASE i > n
    <3> DEFINE j == i - n
    <3>1. /\ j \in 1..m /\ j + 1 \in 1..m /\ n + j = i /\ n + (j + 1) = i + 1
      BY <1>2, <2>1, <2>4
    <3> HIDE DEF j
    <3>2. t[i] = s[i + 1]
      BY <1>7, <3>1
    <3>3. t[i + 1] = s[(i + 1) + 1]
      BY <1>7, <3>1
    <3> QED BY <1>6, <2>1, <3>2, <3>3
  <2> QED BY <1>2, <2>1, <2>2, <2>3, <2>4
<1> QED BY <1>8 DEF Increasing, t

(* Ordered(s, n): in order, and the newest of all is n, or none if n is 0. *)
NewestIs(s, n) == IF n = 0 THEN s = <<>> ELSE s # <<>> /\ Newest(s) = n
Ordered(s, n) == Increasing(s) /\ NewestIs(s, n)

(* A quote newer than all others goes to the end.                          *)
LEMMA OrderedAppend ==
    ASSUME NEW S, S \subseteq Nat, NEW s \in Seq(S), NEW n \in Nat, n + 1 \in S,
           Ordered(s, n)
    PROVE  Ordered(s \o <<n + 1>>, n + 1)
<1> DEFINE t == s \o <<n + 1>>
<1>1. <<n + 1>> \in Seq(S) /\ Len(<<n + 1>>) = 1 /\ <<n + 1>>[1] = n + 1
  OBVIOUS
<1>2. /\ t \in Seq(S) /\ Len(s) \in Nat /\ Len(t) = Len(s) + 1
      /\ \A i \in 1..Len(s) : t[i] = s[i]
      /\ t[Len(s) + 1] = n + 1
  BY <1>1, ConcatAt
<1> HIDE DEF t
<1>3. \A i \in 1..(Len(s) - 1) : s[i] < s[i + 1]
  BY DEF Ordered, Increasing
<1>4. Len(s) > 0 => s[Len(s)] = n
  <2>1. s = <<>> => Len(s) = 0
    BY EmptySeq
  <2> QED BY <2>1 DEF Ordered, NewestIs, Newest
<1>5. ASSUME NEW i \in 1..(Len(t) - 1) PROVE t[i] < t[i + 1]
  <2>1. i \in 1..Len(s) /\ t[i] = s[i]
    BY <1>2
  <2>2. CASE i = Len(s)
    BY <1>2, <1>4, <2>1, <2>2
  <2>3. CASE i < Len(s)
    <3>1. i \in 1..(Len(s) - 1) /\ i + 1 \in 1..Len(s)
      BY <1>2, <2>1, <2>3
    <3> QED BY <1>2, <1>3, <2>1, <3>1
  <2> QED BY <1>2, <2>1, <2>2, <2>3
<1>6. Increasing(t)
  BY <1>5 DEF Increasing
<1>7. t # <<>> /\ Newest(t) = n + 1
  BY <1>2, EmptySeq DEF Newest
<1> QED BY <1>6, <1>7 DEF Ordered, NewestIs, t

(* What is taken out has something newer behind it.                        *)
LEMMA OrderedTakenOut ==
    ASSUME NEW S, S \subseteq Nat,
           NEW a \in Seq(S), NEW x \in S, NEW b \in Seq(S), b # <<>>,
           NEW n \in Nat, Ordered(a \o (<<x>> \o b), n)
    PROVE  Ordered(a \o b, n)
<1>1. Increasing(a \o b)
  <2>1. Increasing(a \o (<<x>> \o b))
    BY DEF Ordered
  <2> QED BY <2>1, TakenOut
<1>2. Len(b) \in Nat /\ Len(b) >= 1 /\ Len(a) \in Nat /\ Len(b) \in 1..Len(b)
  BY EmptySeq, LenProperties
<1> DEFINE xb == <<x>> \o b
<1>3. xb \in Seq(S) /\ Len(xb) = 1 + Len(b) /\ xb[1 + Len(b)] = b[Len(b)]
  <2>1. <<x>> \in Seq(S) /\ Len(<<x>>) = 1
    OBVIOUS
  <2>2. /\ xb \in Seq(S) /\ Len(xb) = 1 + Len(b)
        /\ \A j \in 1..Len(b) : xb[1 + j] = b[j]
    BY <2>1, ConcatAt
  <2> QED BY <1>2, <2>2
<1> HIDE DEF xb
<1>4. Len(a \o xb) = Len(a) + Len(xb) /\ (a \o xb)[Len(a) + Len(xb)] = xb[Len(xb)]
  <2>1. Len(xb) \in 1..Len(xb)
    BY <1>2, <1>3
  <2> QED BY <1>3, <2>1, ConcatAt
<1>5. Len(a \o b) = Len(a) + Len(b) /\ (a \o b)[Len(a) + Len(b)] = b[Len(b)]
  BY <1>2, ConcatAt
<1>6. Newest(a \o xb) = Newest(a \o b)
  BY <1>3, <1>4, <1>5 DEF Newest
<1>7. a \o xb # <<>> /\ a \o b # <<>>
  BY <1>2, <1>3, <1>4, <1>5, EmptySeq
<1>8. NewestIs(a \o xb, n)
  BY DEF Ordered, xb
<1> QED BY <1>1, <1>6, <1>7, <1>8 DEF Ordered, NewestIs

(* What moves from the head of one queue to the end of another.            *)
LEMMA HeadMoves ==
    ASSUME NEW S, NEW a \in Seq(S), NEW s \in Seq(S), s # <<>>
    PROVE  (a \o <<Head(s)>>) \o Tail(s) = a \o s
<1>1. <<Head(s)>> \in Seq(S) /\ Tail(s) \in Seq(S) /\ s = <<Head(s)>> \o Tail(s)
  BY HeadThenTail
<1> QED BY <1>1, ConcatAssociative

(* Two ways to group four sequences.                                       *)
Associates(s, t, u) == (s \o t) \o u = s \o (t \o u)
Regroups(x, q, b, r) ==
    /\ ((x \o q) \o b) \o r = x \o (q \o (b \o r))
    /\ (x \o (q \o b)) \o r = x \o (q \o (b \o r))

LEMMA AllAssociate ==
    ASSUME NEW S, NEW s \in Seq(S), NEW t \in Seq(S), NEW u \in Seq(S)
    PROVE  Associates(s, t, u) /\ s \o t \in Seq(S)
<1>1. s \o t \in Seq(S)
  BY ConcatProperties
<1>2. Associates(s, t, u)
  BY ConcatAssociative DEF Associates
<1> QED BY <1>1, <1>2

LEMMA Regroup ==
    ASSUME NEW S, NEW x \in Seq(S), NEW q \in Seq(S), NEW b \in Seq(S), NEW r \in Seq(S)
    PROVE  /\ Regroups(x, q, b, r)
           /\ b \o r \in Seq(S) /\ q \o (b \o r) \in Seq(S)
<1>1. x \o q \in Seq(S) /\ b \o r \in Seq(S) /\ q \o b \in Seq(S)
  BY AllAssociate
<1>2. q \o (b \o r) \in Seq(S)
  BY <1>1, AllAssociate
<1>3. Associates(x, q, b) /\ Associates(q, b, r) /\ Associates(x, q \o b, r)
  BY <1>1, AllAssociate
<1> QED BY <1>1, <1>2, <1>3 DEF Associates, Regroups

(* A push between x and r of the quote that stood there, into a queue that *)
(* may have to drop its oldest entry for it.                               *)
LEMMA PushKeepsOrder ==
    ASSUME NEW S, S \subseteq Nat,
           NEW x \in Seq(S), NEW q \in Seq(S), NEW bbo \in S,
           NEW r \in Seq(S), NEW max \in Nat \ {0}, NEW n \in Nat,
           Ordered(((x \o q) \o <<bbo>>) \o r, n)
    PROVE  Ordered((x \o PushDroppingOldest(q, max, bbo)) \o r, n)
<1>1. PICK b \in Seq(S) : b = <<bbo>> /\ Len(b) = 1
  <2>1. <<bbo>> \in Seq(S) /\ Len(<<bbo>>) = 1
    OBVIOUS
  <2> QED BY <2>1
<1>2. Ordered(((x \o q) \o b) \o r, n)
  BY <1>1
<1>3. \A s \in Seq(S) : Append(s, bbo) = s \o b
  BY <1>1, AppendIsConcat
<1>4. CASE Len(q) >= max
  <2>1. q # <<>>
    BY <1>4, EmptySeq
  <2>2. PICK h \in Seq(S), t \in Seq(S) : h = <<Head(q)>> /\ t = Tail(q) /\ q = h \o t
                                          /\ Head(q) \in S
    <3>1. Head(q) \in S /\ Tail(q) \in Seq(S) /\ q = <<Head(q)>> \o Tail(q)
      BY <2>1, HeadThenTail
    <3>2. <<Head(q)>> \in Seq(S)
      BY <3>1
    <3> QED BY <3>1, <3>2
  <2>3. PICK w \in Seq(S) : w = t \o (b \o r)
    BY Regroup
  <2>4. ((x \o q) \o b) \o r = x \o (h \o w)
    <3>1. ((x \o q) \o b) \o r = x \o (q \o (b \o r))
      <4>1. Regroups(x, q, b, r)
        BY Regroup
      <4> QED BY <4>1 DEF Regroups
    <3>2. (h \o t) \o (b \o r) = h \o (t \o (b \o r))
      <4>1. b \o r \in Seq(S)
        BY AllAssociate
      <4>2. Associates(h, t, b \o r)
        BY <4>1, AllAssociate
      <4> QED BY <4>2 DEF Associates
    <3> QED BY <2>2, <2>3, <3>1, <3>2
  <2>5. w # <<>>
    <3>1. b \o r \in Seq(S) /\ Len(b \o r) = 1 + Len(r) /\ Len(r) \in Nat
      BY <1>1, ConcatProperties, LenProperties
    <3>2. Len(w) = Len(t) + Len(b \o r) /\ Len(t) \in Nat
      BY <2>3, <3>1, ConcatProperties, LenProperties
    <3>3. Len(w) > 0
      BY <3>1, <3>2
    <3> QED BY <3>3, EmptySeq
  <2>6. Ordered(x \o w, n)
    <3>1. Ordered(x \o (<<Head(q)>> \o w), n)
      BY <1>2, <2>2, <2>4
    <3> QED BY <2>2, <2>5, <3>1, OrderedTakenOut
  <2>7. (x \o Append(Tail(q), bbo)) \o r = x \o w
    <3>1. (x \o (t \o b)) \o r = x \o w
      <4>1. Regroups(x, t, b, r)
        BY Regroup
      <4> QED BY <2>3, <4>1 DEF Regroups
    <3> QED BY <1>3, <2>2, <3>1
  <2> QED BY <1>4, <2>6, <2>7 DEF PushDroppingOldest
<1>5. CASE ~(Len(q) >= max)
  <2>1. Regroups(x, q, b, r)
    BY Regroup
  <2>2. Ordered((x \o (q \o b)) \o r, n)
    BY <1>2, <2>1 DEF Regroups
  <2> QED BY <1>3, <1>5, <2>2 DEF PushDroppingOldest
<1> QED BY <1>4, <1>5

---------------------------------------------------------------------------
(* The stream and the five steps that touch it.                            *)
Joined(a, b, c, d, e) == (((a \o b) \o c) \o d) \o e

(* OnReceive: the asio thread holds the newest.                            *)
LEMMA JoinedReceives ==
    ASSUME NEW S, S \subseteq Nat, NEW a \in Seq(S), NEW b \in Seq(S), NEW c \in Seq(S),
           NEW d \in Seq(S), NEW n \in Nat, n + 1 \in S,
           Ordered(Joined(a, b, c, d, <<>>), n)
    PROVE  Ordered(Joined(a, b, c, d, <<n + 1>>), n + 1)
<1>1. PICK w \in Seq(S) : w = ((a \o b) \o c) \o d
  <2>1. a \o b \in Seq(S)
    BY AllAssociate
  <2>2. (a \o b) \o c \in Seq(S)
    BY <2>1, AllAssociate
  <2>3. ((a \o b) \o c) \o d \in Seq(S)
    BY <2>2, AllAssociate
  <2> QED BY <2>3
<1>2. Ordered(w \o <<>>, n)
  BY <1>1 DEF Joined
<1>3. w \o <<>> = w
  BY ConcatEmptySeq
<1>4. Ordered(w \o <<n + 1>>, n + 1)
  BY <1>2, <1>3, OrderedAppend
<1> QED BY <1>1, <1>4 DEF Joined

(* ProcessBbo: from the asio thread into the listener's queue.             *)
LEMMA JoinedProcesses ==
    ASSUME NEW S, S \subseteq Nat, NEW a \in Seq(S), NEW b \in Seq(S), NEW c \in Seq(S),
           NEW d \in Seq(S), NEW bbo \in S, NEW max \in Nat \ {0}, NEW n \in Nat,
           Ordered(Joined(a, b, c, d, <<bbo>>), n)
    PROVE  Ordered(Joined(a, b, c, PushDroppingOldest(d, max, bbo), <<>>), n)
<1>1. PICK w \in Seq(S) : w = (a \o b) \o c
  <2>1. a \o b \in Seq(S)
    BY AllAssociate
  <2>2. (a \o b) \o c \in Seq(S)
    BY <2>1, AllAssociate
  <2> QED BY <2>2
<1>2. <<>> \in Seq(S) /\ <<bbo>> \in Seq(S)
  OBVIOUS
<1>3. Ordered(((w \o d) \o <<bbo>>) \o <<>>, n)
  <2>1. w \o d \in Seq(S)
    BY AllAssociate
  <2>2. (w \o d) \o <<bbo>> \in Seq(S)
    BY <1>2, <2>1, AllAssociate
  <2>3. ((w \o d) \o <<bbo>>) \o <<>> = (w \o d) \o <<bbo>>
    BY <2>2, ConcatEmptySeq
  <2> QED BY <1>1, <2>3 DEF Joined
<1>4. Ordered((w \o PushDroppingOldest(d, max, bbo)) \o <<>>, n)
  BY <1>2, <1>3, PushKeepsOrder
<1> QED BY <1>1, <1>4 DEF Joined

(* TakeBbo: from the listener's queue into the reader's hand.              *)
LEMMA JoinedTakes ==
    ASSUME NEW S, NEW a \in Seq(S), NEW b \in Seq(S), NEW d \in Seq(S), NEW e \in Seq(S),
           d # <<>>
    PROVE  Joined(a, b, <<Head(d)>>, Tail(d), e) = Joined(a, b, <<>>, d, e)
<1>1. PICK w \in Seq(S) : w = a \o b
  <2>1. a \o b \in Seq(S)
    BY AllAssociate
  <2> QED BY <2>1
<1>2. w \o <<>> = w
  BY ConcatEmptySeq
<1>3. (w \o <<Head(d)>>) \o Tail(d) = w \o d
  BY HeadMoves
<1> QED BY <1>1, <1>2, <1>3 DEF Joined

(* PublishBBO: from the gateway's queue to the published.                  *)
LEMMA JoinedPublishes ==
    ASSUME NEW S, NEW a \in Seq(S), NEW b \in Seq(S), NEW c, NEW d, NEW e, b # <<>>
    PROVE  Joined(Append(a, Head(b)), Tail(b), c, d, e) = Joined(a, b, c, d, e)
<1>1. (a \o <<Head(b)>>) \o Tail(b) = a \o b
  BY HeadMoves
<1>2. Head(b) \in S
  BY HeadThenTail
<1>3. Append(a, Head(b)) = a \o <<Head(b)>>
  BY <1>2, AppendIsConcat
<1> QED BY <1>1, <1>3 DEF Joined

(* A push yields a sequence over the same set.                             *)
LEMMA PushIsSeq ==
    ASSUME NEW S, NEW q \in Seq(S), NEW bbo \in S, NEW max \in Nat \ {0}
    PROVE  PushDroppingOldest(q, max, bbo) \in Seq(S)
<1>1. CASE Len(q) >= max
  <2>1. q # <<>>
    BY <1>1, EmptySeq
  <2>2. Tail(q) \in Seq(S)
    BY <2>1, HeadThenTail
  <2> QED BY <1>1, <2>2, AppendProperties DEF PushDroppingOldest
<1>2. CASE ~(Len(q) >= max)
  BY <1>2, AppendProperties DEF PushDroppingOldest
<1> QED BY <1>1, <1>2

(* PushToGateway: from the reader's hand into the gateway's queue.         *)
LEMMA JoinedPushes ==
    ASSUME NEW S, S \subseteq Nat, NEW a \in Seq(S), NEW b \in Seq(S), NEW d \in Seq(S),
           NEW e \in Seq(S), NEW bbo \in S, NEW max \in Nat \ {0}, NEW n \in Nat,
           Ordered(Joined(a, b, <<bbo>>, d, e), n)
    PROVE  Ordered(Joined(a, PushDroppingOldest(b, max, bbo), <<>>, d, e), n)
<1>1. <<bbo>> \in Seq(S) /\ a \o b \in Seq(S) /\ d \o e \in Seq(S)
  <2>1. <<bbo>> \in Seq(S)
    OBVIOUS
  <2> QED BY <2>1, AllAssociate
<1>2. (a \o b) \o <<bbo>> \in Seq(S)
  BY <1>1, AllAssociate
<1>3. Associates((a \o b) \o <<bbo>>, d, e)
  BY <1>2, AllAssociate
<1>4. Ordered(((a \o b) \o <<bbo>>) \o (d \o e), n)
  BY <1>3 DEF Associates, Joined
<1>5. Ordered((a \o PushDroppingOldest(b, max, bbo)) \o (d \o e), n)
  BY <1>1, <1>4, PushKeepsOrder
<1>6. PICK w \in Seq(S) : w = a \o PushDroppingOldest(b, max, bbo)
  <2>1. PushDroppingOldest(b, max, bbo) \in Seq(S)
    BY PushIsSeq
  <2>2. a \o PushDroppingOldest(b, max, bbo) \in Seq(S)
    BY <2>1, AllAssociate
  <2> QED BY <2>2
<1>7. Associates(w, d, e)
  BY AllAssociate
<1>8. w \o <<>> = w
  BY ConcatEmptySeq
<1>9. Ordered((w \o d) \o e, n)
  BY <1>5, <1>6, <1>7 DEF Associates
<1> QED BY <1>6, <1>8, <1>9 DEF Joined

---------------------------------------------------------------------------
(* A thread that holds a quote is at the step that passes it on, and only  *)
(* a listener whose thread was joined is started again.                    *)
HeldWhereDue ==
    /\ asioPc # "process" => asioBbo = NoBbo
    /\ readerPc # "push" => readerBbo = NoBbo
    /\ readerPc = "start" => ~lRunning
    /\ (~lRunning /\ lMutex = "free") => asioPc = "ended"

(* Together they are inductive: what the stream holds is in order.         *)
OrderInvariant == GatewayInvariant /\ HeldWhereDue /\ Ordered(Stream, arrived)

(* Every step keeps quotes where they are due.                             *)
LEMMA HeldStep ==
    ASSUME GatewayInvariant, HeldWhereDue, [Next]_vars
    PROVE  HeldWhereDue'
<1> USE DEF HeldWhereDue, ioVars, asioVars, readerVars, publisherVars
<1>1. CASE UNCHANGED vars
  BY <1>1 DEF vars
<1>2. CASE Asio
  BY <1>2 DEF Asio, ThreadFunc, OnReceive, ProcessBbo, Rearm, OnReceiveError, RunReturns
<1>3. CASE Reader
  BY <1>3 DEF Reader, ReaderLoop, LazyStart, Run, TestPredicate, FallAsleep, TakeBbo,
     ListenerStopped, PushToGateway
<1>4. CASE PublishBBO \/ PublisherEnds \/ Signal
  BY <1>4 DEF PublishBBO, PublisherEnds, Signal
<1>5. CASE Stop
  BY <1>5 DEF Stop, StopListener, CloseSocket, StopIo, NotifyReaders, JoinAsio, JoinThreads
<1> QED BY <1>1, <1>2, <1>3, <1>4, <1>5 DEF Next

(* The types of the pieces of the stream.                                  *)
LEMMA StreamPieces ==
    ASSUME GatewayInvariant
    PROVE  /\ Bbo \subseteq Nat
           /\ published \in Seq(Bbo) /\ gQueue \in Seq(Bbo) /\ lQueue \in Seq(Bbo)
           /\ Held(readerBbo) \in Seq(Bbo) /\ Held(asioBbo) \in Seq(Bbo)
           /\ Held(NoBbo) = <<>> /\ \A bbo \in Bbo : Held(bbo) = <<bbo>>
           /\ Stream = Joined(published, gQueue, Held(readerBbo), lQueue, Held(asioBbo))
           /\ Stream \in Seq(Bbo)
           /\ arrived \in 0..MaxPackets
<1>1. /\ published \in Seq(Bbo) /\ gQueue \in Seq(Bbo) /\ lQueue \in Seq(Bbo)
      /\ readerBbo \in Bbo \cup {NoBbo} /\ asioBbo \in Bbo \cup {NoBbo}
      /\ arrived \in 0..MaxPackets
  BY DEF GatewayInvariant, TypeOK
<1>2. Bbo \subseteq Nat /\ NoBbo \notin Bbo
  BY GatewayAssumption DEF Bbo, NoBbo
<1>3. Held(NoBbo) = <<>> /\ \A bbo \in Bbo : Held(bbo) = <<bbo>>
  BY <1>2 DEF Held
<1>4. Held(readerBbo) \in Seq(Bbo) /\ Held(asioBbo) \in Seq(Bbo)
  <2>1. <<>> \in Seq(Bbo) /\ \A bbo \in Bbo : <<bbo>> \in Seq(Bbo)
    OBVIOUS
  <2> QED BY <1>1, <1>3, <2>1
<1>5. Stream = Joined(published, gQueue, Held(readerBbo), lQueue, Held(asioBbo))
  BY DEF Stream, Joined
<1>6. Stream \in Seq(Bbo)
  <2>1. published \o gQueue \in Seq(Bbo)
    BY <1>1, AllAssociate
  <2>2. (published \o gQueue) \o Held(readerBbo) \in Seq(Bbo)
    BY <1>4, <2>1, AllAssociate
  <2>3. ((published \o gQueue) \o Held(readerBbo)) \o lQueue \in Seq(Bbo)
    BY <1>1, <2>2, AllAssociate
  <2>4. (((published \o gQueue) \o Held(readerBbo)) \o lQueue) \o Held(asioBbo) \in Seq(Bbo)
    BY <1>4, <2>3, AllAssociate
  <2> QED BY <1>5, <2>4 DEF Joined
<1> QED BY <1>1, <1>2, <1>3, <1>4, <1>5, <1>6

(* Every step keeps the stream in order.                                   *)
LEMMA OrderStep == OrderInvariant /\ [Next]_vars => OrderInvariant'
<1> SUFFICES ASSUME OrderInvariant, [Next]_vars PROVE OrderInvariant'
  OBVIOUS
<1> USE DEF OrderInvariant, ioVars, asioVars, readerVars, publisherVars
<1>1. GatewayInvariant' /\ HeldWhereDue'
  BY GatewayStep, HeldStep
<1>2. /\ Bbo \subseteq Nat
      /\ published \in Seq(Bbo) /\ gQueue \in Seq(Bbo) /\ lQueue \in Seq(Bbo)
      /\ Held(readerBbo) \in Seq(Bbo) /\ Held(asioBbo) \in Seq(Bbo)
      /\ Held(NoBbo) = <<>> /\ \A bbo \in Bbo : Held(bbo) = <<bbo>>
      /\ Stream = Joined(published, gQueue, Held(readerBbo), lQueue, Held(asioBbo))
      /\ arrived \in 0..MaxPackets
  BY StreamPieces
<1>3. Stream' = Joined(published', gQueue', Held(readerBbo'), lQueue', Held(asioBbo'))
  BY DEF Stream, Joined, Held
<1>4. Ordered(Joined(published, gQueue, Held(readerBbo), lQueue, Held(asioBbo)), arrived)
  BY <1>2
<1>5. ListenerMax \in Nat \ {0} /\ GatewayMax \in Nat \ {0} /\ MaxPackets \in Nat
  BY GatewayAssumption
<1> DEFINE StillOrdered ==
      Ordered(Joined(published', gQueue', Held(readerBbo'), lQueue', Held(asioBbo')), arrived')
<1>6. ASSUME OnReceive PROVE StillOrdered
  <2>1. /\ arrived' = arrived + 1 /\ asioBbo' = arrived + 1 /\ arrived + 1 \in Bbo
        /\ asioBbo = NoBbo /\ arrived \in Nat
        /\ UNCHANGED <<published, gQueue, readerBbo, lQueue>>
    BY <1>2, <1>5, <1>6 DEF OnReceive, HeldWhereDue, Bbo
  <2>2. Held(asioBbo) = <<>> /\ Held(asioBbo') = <<arrived + 1>>
    BY <1>2, <2>1
  <2>3. Ordered(Joined(published, gQueue, Held(readerBbo), lQueue, <<arrived + 1>>), arrived + 1)
    BY <1>2, <1>4, <2>1, <2>2, JoinedReceives
  <2> QED BY <2>1, <2>2, <2>3
<1>7. ASSUME ProcessBbo PROVE StillOrdered
  <2>1. /\ asioBbo \in Bbo /\ asioBbo' = NoBbo /\ arrived \in Nat
        /\ lQueue' = PushDroppingOldest(lQueue, ListenerMax, asioBbo)
        /\ UNCHANGED <<published, gQueue, readerBbo, arrived>>
    BY <1>2, <1>5, <1>7 DEF ProcessBbo, GatewayInvariant, TypeOK
  <2>2. Held(asioBbo) = <<asioBbo>> /\ Held(asioBbo') = <<>>
    BY <1>2, <2>1
  <2>3. Ordered(Joined(published, gQueue, Held(readerBbo), lQueue', <<>>), arrived)
    BY <1>2, <1>4, <1>5, <2>1, <2>2, JoinedProcesses
  <2> QED BY <2>1, <2>2, <2>3
<1>8. ASSUME TakeBbo PROVE StillOrdered
  <2>1. /\ readerBbo = NoBbo /\ readerBbo' = Head(lQueue) /\ lQueue # <<>>
        /\ lQueue' = Tail(lQueue)
        /\ UNCHANGED <<published, gQueue, asioBbo, arrived>>
    BY <1>8 DEF TakeBbo, HeldWhereDue
  <2>2. Held(readerBbo) = <<>> /\ Held(readerBbo') = <<Head(lQueue)>>
    <3>1. Head(lQueue) \in Bbo
      BY <1>2, <2>1, HeadThenTail
    <3> QED BY <1>2, <2>1, <3>1
  <2>3. Joined(published, gQueue, <<Head(lQueue)>>, Tail(lQueue), Held(asioBbo))
          = Joined(published, gQueue, <<>>, lQueue, Held(asioBbo))
    BY <1>2, <2>1, JoinedTakes
  <2> QED BY <1>4, <2>1, <2>2, <2>3
<1>9. ASSUME PushToGateway PROVE StillOrdered
  <2>1. /\ readerBbo \in Bbo /\ readerBbo' = NoBbo /\ arrived \in Nat
        /\ gQueue' = PushDroppingOldest(gQueue, GatewayMax, readerBbo)
        /\ UNCHANGED <<published, lQueue, asioBbo, arrived>>
    BY <1>2, <1>5, <1>9 DEF PushToGateway, GatewayInvariant, TypeOK
  <2>2. Held(readerBbo) = <<readerBbo>> /\ Held(readerBbo') = <<>>
    BY <1>2, <2>1
  <2>3. Ordered(Joined(published, gQueue', <<>>, lQueue, Held(asioBbo)), arrived)
    BY <1>2, <1>4, <1>5, <2>1, <2>2, JoinedPushes
  <2> QED BY <2>1, <2>2, <2>3
<1>10. ASSUME PublishBBO PROVE StillOrdered
  <2>1. /\ gQueue # <<>> /\ published' = Append(published, Head(gQueue))
        /\ gQueue' = Tail(gQueue)
        /\ UNCHANGED <<readerBbo, lQueue, asioBbo, arrived>>
    BY <1>10 DEF PublishBBO
  <2>2. Joined(Append(published, Head(gQueue)), Tail(gQueue), Held(readerBbo), lQueue, Held(asioBbo))
          = Joined(published, gQueue, Held(readerBbo), lQueue, Held(asioBbo))
    BY <1>2, <2>1, JoinedPublishes
  <2> QED BY <1>4, <2>1, <2>2
<1>11. ASSUME UNCHANGED <<published, gQueue, readerBbo, lQueue, asioBbo, arrived>>
       PROVE  StillOrdered
  BY <1>4, <1>11
<1>12. \/ OnReceive \/ ProcessBbo \/ TakeBbo \/ PushToGateway \/ PublishBBO
       \/ UNCHANGED <<published, gQueue, readerBbo, lQueue, asioBbo, arrived>>
  <2>1. CASE UNCHANGED vars
    BY <2>1 DEF vars
  <2>2. CASE Asio
    BY <2>2 DEF Asio, ThreadFunc, Rearm, OnReceiveError, RunReturns
  <2>3. CASE Reader
    BY <2>3 DEF Reader, ReaderLoop, LazyStart, Run, TestPredicate, FallAsleep, ListenerStopped
  <2>4. CASE PublisherEnds \/ Signal
    BY <2>4 DEF PublisherEnds, Signal
  <2>5. CASE Stop
    BY <2>5 DEF Stop, StopListener, CloseSocket, StopIo, NotifyReaders, JoinAsio, JoinThreads
  <2> QED BY <2>1, <2>2, <2>3, <2>4, <2>5 DEF Next
<1>13. StillOrdered
  BY <1>6, <1>7, <1>8, <1>9, <1>10, <1>11, <1>12
<1> QED BY <1>1, <1>3, <1>13

(* No quote overtakes another between the socket and publishBBO, none is   *)
(* published twice and the newest is never dropped, however small the      *)
(* queues are and wherever the threads are stopped.                        *)
THEOREM NewestKeptInOrderHolds == Spec => []NewestKeptInOrder
<1>1. Init => OrderInvariant
  <2> SUFFICES ASSUME Init PROVE OrderInvariant
    OBVIOUS
  <2>1. GatewayInvariant
    BY InitGateway
  <2>2. HeldWhereDue
    BY DEF Init, HeldWhereDue
  <2>3. Stream = <<>> /\ arrived = 0
    <3>1. <<>> \in Seq(Bbo)
      BY EmptySeq
    <3>2. <<>> \o <<>> = <<>>
      BY <3>1, ConcatEmptySeq
    <3> QED BY <3>2 DEF Init, Stream, Held
  <2>4. Ordered(<<>>, 0)
    <3>1. Len(<<>>) = 0
      BY EmptySeq
    <3> QED BY <3>1 DEF Ordered, Increasing, NewestIs
  <2> QED BY <2>1, <2>2, <2>3, <2>4 DEF OrderInvariant
<1>2. OrderInvariant => NewestKeptInOrder
  <2> SUFFICES ASSUME OrderInvariant PROVE NewestKeptInOrder
    OBVIOUS
  <2> QED BY DEF OrderInvariant, Ordered, Increasing, NewestIs, NewestKeptInOrder
<1> QED BY <1>1, <1>2, OrderStep, PTL DEF Spec
===========================================================================
