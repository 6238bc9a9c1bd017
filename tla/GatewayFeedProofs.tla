------------------------ MODULE GatewayFeedProofs -------------------------
(***************************************************************************)
(* Two theorems about the life of the gateway, for every set of clients    *)
(* and sinks, any room in the connections, any number of BBOs and signals. *)
(*                                                                         *)
(* What main, the signal handler and the two threads do to each other is   *)
(* LifeInvariant, which no other part of the state can disturb.  For the   *)
(* feed, FeedInvariant numbers everything between the listener and each    *)
(* client's main loop: queue, BBO in hand, writes posted, write in         *)
(* progress, lines on the way and lines read.  Every step moves one number *)
(* from one of these places to the next; only a broadcast copies it to     *)
(* all clients, in an order nobody knows (SetToSeqEnumerates).             *)
(***************************************************************************)
EXTENDS GatewayFeed, FiniteSetTheorems, SequenceTheorems, TLAPS

-----------------------------------------------------------------------------
(* Types                                                                   *)

LEMMA InitFeedTyped == Init => FeedTypeOK
  <1> SUFFICES ASSUME Init PROVE FeedTypeOK
    OBVIOUS
  <1>1. main \in MainStep /\ handler \in StopStep /\ signals \in Nat
    BY DEF Init, MainStep, Before, StopStep
  <1>2. running \in BOOLEAN /\ died \in BOOLEAN /\ early \in BOOLEAN
    BY DEF Init
  <1>3. thread \in [Thread -> {"none", "run", "ended", "joined"}]
    BY DEF Init
  <1>4. segment \in {"none", "empty", "sized", "built"} /\ sinks \subseteq Sink
    BY DEF Init
  <1>5. arrived \in Nat /\ queue \in Seq(Nat) /\ taken \in Nat
    BY DEF Init
  <1>6. posted \in Seq(Write) /\ writing \in Write \union {NoLine}
    BY DEF Init
  <1>7. listed \subseteq Client /\ pipe \in [Client -> Seq(Nat)] /\ got \in [Client -> Seq(Nat)]
    BY DEF Init
  <1>8. conn \in [Client -> {"out", "pending", "open", "closed", "left", "ended"}]
    BY DEF Init
  <1> QED
    BY <1>1, <1>2, <1>3, <1>4, <1>5, <1>6, <1>7, <1>8 DEF FeedTypeOK

LEMMA JoinKeepsTypes ==
    ASSUME FeedTypeOK, NEW t, NEW from, NEW to \in StopStep, JoinThread(t, from, to)
    PROVE  FeedTypeOK'
  <1>1. /\ thread' = [thread EXCEPT ![t] = "joined"] \/ thread' = thread
        /\ handler' = to
        /\ UNCHANGED <<main, signals, running, segment, sinks, died, early, arrived,
                       queue, taken, posted, writing, listed, conn, pipe, got>>
    BY DEF JoinThread, bboVars, ioVars, clientVars
  <1>2. thread' \in [Thread -> {"none", "run", "ended", "joined"}]
    BY <1>1 DEF FeedTypeOK
  <1> QED BY <1>1, <1>2 DEF FeedTypeOK

LEMMA MainKeepsTypes ==
    ASSUME FeedTypeOK, Main
    PROVE  FeedTypeOK'
  <1> USE DEF FeedTypeOK, MainStep, Before, StopStep, Thread, MainAt, MainGoes,
              lifeVars, bboVars, ioVars, clientVars
  <1>1. CASE UnlinkSegment
    BY <1>1 DEF UnlinkSegment
  <1>2. CASE CreateSegment
    BY <1>2 DEF CreateSegment
  <1>3. CASE TruncateSegment
    BY <1>3 DEF TruncateSegment
  <1>4. CASE BuildRing
    BY <1>4 DEF BuildRing
  <1>5. CASE CreateTcpServer
    BY <1>5 DEF CreateTcpServer
  <1>6. CASE CreateSinks
    BY <1>6 DEF CreateSinks
  <1>7. CASE Listen
    BY <1>7 DEF Listen
  <1>8. CASE ConstructorThrows
    BY <1>8 DEF ConstructorThrows
  <1>9. CASE SetRunning
    BY <1>9 DEF SetRunning
  <1>10. CASE StartThreads
    BY <1>10 DEF StartThreads
  <1>11. CASE WaitReturns
    BY <1>11 DEF WaitReturns
  <1>12. CASE JoinReader
    BY <1>12, JoinKeepsTypes DEF JoinReader
  <1>13. CASE JoinPublisher
    BY <1>13, JoinKeepsTypes DEF JoinPublisher
  <1>14. CASE Disconnect
    BY <1>14 DEF Disconnect
  <1>15. CASE DestroyRing
    BY <1>15 DEF DestroyRing
  <1>16. CASE DestroyThreads
    BY <1>16 DEF DestroyThreads
  <1>17. CASE CloseSockets
    <2>1. conn' \in [Client -> {"out", "pending", "open", "closed", "left", "ended"}]
      BY <1>17 DEF CloseSockets
    <2>2. posted' \in Seq(Write)
      BY <1>17, EmptySeq DEF CloseSockets
    <2> QED BY <1>17, <2>1, <2>2 DEF CloseSockets
  <1>18. CASE JoinIo
    BY <1>18 DEF JoinIo
  <1> QED
    BY <1>1, <1>2, <1>3, <1>4, <1>5, <1>6, <1>7, <1>8, <1>9, <1>10, <1>11, <1>12,
       <1>13, <1>14, <1>15, <1>16, <1>17, <1>18 DEF Main

-----------------------------------------------------------------------------
(* The life of the gateway                                                 *)

LEMMA InitLife == Init => LifeInvariant
  BY DEF Init, LifeInvariant, StopPlaces, ThreadsJoined, Gone, BothGone, Awake,
         Before, Thread

LEMMA MainKeepsLife ==
    ASSUME FeedTypeOK, LifeInvariant, Main
    PROVE  LifeInvariant'
  <1> USE DEF LifeInvariant, StopPlaces, ThreadsJoined, Gone, BothGone, Awake,
              Before, Thread, MainAt, MainGoes, lifeVars
  <1>0. thread \in [Thread -> {"none", "run", "ended", "joined"}]
    BY DEF FeedTypeOK
  <1>1. CASE UnlinkSegment
    BY <1>1 DEF UnlinkSegment
  <1>2. CASE CreateSegment
    BY <1>2 DEF CreateSegment
  <1>3. CASE TruncateSegment
    BY <1>3 DEF TruncateSegment
  <1>4. CASE BuildRing
    BY <1>4 DEF BuildRing
  <1>5. CASE CreateTcpServer
    BY <1>0, <1>5 DEF CreateTcpServer
  <1>6. CASE CreateSinks
    BY <1>6 DEF CreateSinks
  <1>7. CASE Listen
    BY <1>7 DEF Listen
  <1>8. CASE ConstructorThrows
    BY <1>8 DEF ConstructorThrows
  <1>9. CASE SetRunning
    BY <1>9 DEF SetRunning
  <1>10. CASE StartThreads
    BY <1>0, <1>10 DEF StartThreads
  <1>11. CASE WaitReturns
    BY <1>11 DEF WaitReturns
  <1>12. CASE JoinReader
    BY <1>0, <1>12 DEF JoinReader, JoinThread
  <1>13. CASE JoinPublisher
    BY <1>0, <1>13 DEF JoinPublisher, JoinThread
  <1>14. CASE Disconnect
    BY <1>14 DEF Disconnect
  <1>15. CASE DestroyRing
    BY <1>15 DEF DestroyRing
  <1>16. CASE DestroyThreads
    BY <1>0, <1>16 DEF DestroyThreads
  <1>17. CASE CloseSockets
    BY <1>17 DEF CloseSockets
  <1>18. CASE JoinIo
    BY <1>0, <1>18 DEF JoinIo
  <1> QED
    BY <1>1, <1>2, <1>3, <1>4, <1>5, <1>6, <1>7, <1>8, <1>9, <1>10, <1>11, <1>12,
       <1>13, <1>14, <1>15, <1>16, <1>17, <1>18 DEF Main

\* The client side and the publisher's work leave the gateway's life alone.
LifeUntouched == UNCHANGED <<main, handler, running, thread, died, early>>

LEMMA NextKeepsLife ==
    ASSUME FeedTypeOK, LifeInvariant, [Next]_vars
    PROVE  LifeInvariant'
  <1> USE DEF LifeInvariant, StopPlaces, ThreadsJoined, Gone, BothGone, Awake,
              Before, Thread, mainVars, lifeVars, Alive
  <1>0. thread \in [Thread -> {"none", "run", "ended", "joined"}]
    BY DEF FeedTypeOK
  <1>1. CASE Main
    BY <1>1, MainKeepsLife
  <1>2. CASE ReaderEnds
    BY <1>0, <1>2 DEF ReaderEnds, ThreadEnds
  <1>3. CASE PublisherEnds
    BY <1>0, <1>3 DEF PublisherEnds, ThreadEnds
  <1>4. CASE ListenerDies
    BY <1>0, <1>4 DEF ListenerDies
  <1>5. CASE Signal
    BY <1>5 DEF Signal
  <1>6. CASE TakeBbo \/ Broadcast \/ Io \/ ReadBbo \/ SinkLost
    <2>1. LifeUntouched
      BY <1>6 DEF LifeUntouched, TakeBbo, Broadcast, Io, StartWrite, FinishWrite,
                  Accept, ReadBbo, SinkLost
    <2> QED BY <2>1 DEF LifeUntouched
  <1>7. CASE \E c \in Client : Connect(c) \/ MarketMaker(c) \/ Leave(c)
    <2>1. LifeUntouched
      BY <1>7 DEF LifeUntouched, Connect, MarketMaker, ReadLine, EndOfStream, Leave
    <2> QED BY <2>1 DEF LifeUntouched
  <1>8. CASE UNCHANGED vars
    BY <1>8 DEF vars
  <1> QED
    BY <1>1, <1>2, <1>3, <1>4, <1>5, <1>6, <1>7, <1>8 DEF Next

-----------------------------------------------------------------------------
(* Lists                                                                   *)

\* SetToSeq lists every member of a finite set exactly once.
Enumerates(order, n, S) ==
    /\ order \in [1..n -> S]
    /\ \A x \in S : \E k \in 1..n : order[k] = x
    /\ \A j, k \in 1..n : order[j] = order[k] => j = k

LEMMA SetToSeqEnumerates ==
    ASSUME NEW S, IsFiniteSet(S)
    PROVE  \E n \in Nat : Enumerates(SetToSeq(S), n, S)
  <1> DEFINE n == Cardinality(S)
             s == SetToSeq(S)
  <1>1. n \in Nat /\ ExistsBijection(1..n, S)
    BY FS_CardinalityType
  <1>2. PICK f : f \in Bijection(1..n, S)
    BY <1>1 DEF ExistsBijection
  <1>3. f \in [1..n -> S] /\ IsInjective(f)
    BY <1>2 DEF Bijection, Injection
  <1>4. s \in [1..n -> S] /\ IsInjective(s)
    BY <1>3 DEF SetToSeq
  <1>5. s \in Injection(1..n, S)
    BY <1>4 DEF Injection
  <1>6. IsFiniteSet(1..n) /\ Cardinality(1..n) = n
    BY <1>1, FS_Interval
  <1>7. s \in Surjection(1..n, S)
    BY <1>5, <1>6, FS_Injection
  <1>8. \A x \in S : \E k \in 1..n : s[k] = x
    BY <1>7 DEF Surjection
  <1>9. \A j, k \in 1..n : s[j] = s[k] => j = k
    <2>1. DOMAIN s = 1..n
      BY <1>4
    <2> QED BY <1>4, <2>1 DEF IsInjective
  <1> HIDE DEF n, s
  <1>10. Enumerates(s, n, S)
    BY <1>4, <1>8, <1>9 DEF Enumerates
  <1> QED BY <1>1, <1>10 DEF s

\* The writes that one broadcast posts.
LEMMA WritesProperties ==
    ASSUME NEW n \in Nat, NEW order \in [1..n -> Client], NEW b \in Nat
    PROVE  /\ Writes(order, b) \in Seq(Write)
           /\ Len(Writes(order, b)) = n
           /\ \A i \in 1..n : Writes(order, b)[i] = [to |-> order[i], bbo |-> b]
  <1>1. DOMAIN order = 1..n
    OBVIOUS
  <1>2. \A i \in 1..n : order[i] \in Client
    OBVIOUS
  <1>3. Writes(order, b) = [i \in 1..n |-> [to |-> order[i], bbo |-> b]]
    BY <1>1 DEF Writes
  <1>4. \A i \in 1..n : [to |-> order[i], bbo |-> b] \in Write
    BY <1>2 DEF Write
  <1>5. Writes(order, b) \in [1..n -> Write]
    BY <1>3, <1>4
  <1> QED BY <1>3, <1>5

LEMMA PostedForType ==
    ASSUME NEW p \in Seq(Write), NEW c
    PROVE  /\ PostedFor(c, p) = {i \in 1..Len(p) : p[i].to = c}
           /\ \A i \in PostedFor(c, p) : p[i].bbo \in Nat
  <1>1. DOMAIN p = 1..Len(p) /\ \A i \in 1..Len(p) : p[i] \in Write
    OBVIOUS
  <1> QED BY <1>1 DEF PostedFor, Write

\* A broadcast posts one write for each client in its list, behind the others.
LEMMA PostOne ==
    ASSUME NEW p \in Seq(Write), NEW q \in Seq(Write), NEW c \in Client,
           NEW next \in Nat, NEW last \in Nat, next <= last + 1,
           WaitFrom(c, p, next, last),
           NEW k \in 1..Len(q), q[k] = [to |-> c, bbo |-> last + 1],
           \A i \in 1..Len(q) : q[i].to = c => i = k
    PROVE  WaitFrom(c, p \o q, next, last + 1)
  <1> DEFINE r == p \o q
             m == Len(p) + k
  <1>1. /\ r \in Seq(Write) /\ Len(r) = Len(p) + Len(q)
        /\ \A i \in 1..Len(p) : r[i] = p[i]
        /\ \A i \in (Len(p) + 1)..(Len(p) + Len(q)) : r[i] = q[i - Len(p)]
    <2>1. Len(p) \in Nat /\ Len(q) \in Nat
      OBVIOUS
    <2> QED BY <2>1
  <1>2. Len(p) \in Nat /\ Len(q) \in Nat /\ m \in 1..Len(r) /\ m > Len(p)
    BY <1>1
  <1>3. r[m] = [to |-> c, bbo |-> last + 1]
    BY <1>1, <1>2
  <1> HIDE DEF r
  <1>a. PostedFor(c, r) = {i \in 1..Len(r) : r[i].to = c}
    BY <1>1, PostedForType
  <1>b. PostedFor(c, p) = {i \in 1..Len(p) : p[i].to = c}
    BY PostedForType
  <1>4. \A i \in 1..Len(r) : i > Len(p) /\ r[i].to = c => i = m
    <2> SUFFICES ASSUME NEW i \in 1..Len(r), i > Len(p), r[i].to = c PROVE i = m
      OBVIOUS
    <2>1. r[i] = q[i - Len(p)] /\ i - Len(p) \in 1..Len(q)
      BY <1>1, <1>2
    <2>2. i - Len(p) = k
      BY <2>1
    <2> QED BY <1>2, <2>2
  <1>5. \A i : i \in PostedFor(c, r) <=> i \in PostedFor(c, p) \/ i = m
    <2> TAKE i
    <2>1. CASE i \in 1..Len(p)
      <3>1. r[i] = p[i] /\ i \in 1..Len(r) /\ i # m
        BY <1>1, <1>2, <2>1
      <3> QED BY <1>a, <1>b, <2>1, <3>1
    <2>2. CASE i \notin 1..Len(p)
      <3>1. i \notin PostedFor(c, p)
        BY <1>b, <2>2
      <3>2. i \in 1..Len(r) /\ r[i].to = c => i = m
        BY <1>2, <1>4, <2>2
      <3>3. m \in PostedFor(c, r)
        BY <1>a, <1>2, <1>3
      <3> QED BY <1>a, <3>1, <3>2, <3>3
    <2> QED BY <2>1, <2>2
  <1>6. \A i \in PostedFor(c, p) : i \in 1..Len(p) /\ r[i] = p[i] /\ p[i].bbo \in next..last
    <2>1. \A i \in PostedFor(c, p) : p[i].bbo \in {p[j].bbo : j \in PostedFor(c, p)}
      OBVIOUS
    <2> QED BY <1>1, <2>1, PostedForType DEF WaitFrom
  <1>7. {r[i].bbo : i \in PostedFor(c, r)} = next..(last + 1)
    <2>1. ASSUME NEW i \in PostedFor(c, r) PROVE r[i].bbo \in next..(last + 1)
      BY <1>3, <1>5, <1>6
    <2>2. ASSUME NEW v \in next..(last + 1)
          PROVE  \E i \in PostedFor(c, r) : r[i].bbo = v
      <3>1. CASE v = last + 1
        BY <1>3, <1>5, <3>1
      <3>2. CASE v # last + 1
        <4>1. v \in next..last
          BY <3>2
        <4>2. v \in {p[i].bbo : i \in PostedFor(c, p)}
          BY <4>1 DEF WaitFrom
        <4>3. PICK i \in PostedFor(c, p) : p[i].bbo = v
          BY <4>2
        <4> QED BY <1>5, <1>6, <4>3
      <3> QED BY <3>1, <3>2
    <2> QED BY <2>1, <2>2
  <1>8. ASSUME NEW i \in PostedFor(c, r), NEW j \in PostedFor(c, r), i < j
        PROVE  r[i].bbo < r[j].bbo
    <2>1. i \in PostedFor(c, p)
      <3>1. m \notin PostedFor(c, p) /\ (i = m => j \in PostedFor(c, p))
        BY <1>2, <1>5, <1>6, <1>8
      <3> QED BY <1>2, <1>5, <1>6, <1>8, <3>1
    <2>2. CASE j \in PostedFor(c, p)
      BY <1>6, <1>8, <2>1, <2>2 DEF WaitFrom
    <2>3. CASE j = m
      <3>1. r[i].bbo \in next..last
        BY <1>6, <2>1
      <3>2. r[j].bbo = last + 1
        BY <1>3, <2>3
      <3> QED BY <3>1, <3>2
    <2> QED BY <1>5, <2>2, <2>3
  <1> QED BY <1>7, <1>8 DEF WaitFrom, r

\* A broadcast without the client posts nothing for it.
LEMMA PostNone ==
    ASSUME NEW p \in Seq(Write), NEW q \in Seq(Write), NEW c,
           PostedFor(c, p) = {}, \A i \in 1..Len(q) : q[i].to # c
    PROVE  PostedFor(c, p \o q) = {}
  <1>1. PostedFor(c, p) = {i \in 1..Len(p) : p[i].to = c}
    BY PostedForType
  <1>2. p \o q \in Seq(Write)
    OBVIOUS
  <1>3. PostedFor(c, p \o q) = {i \in 1..Len(p \o q) : (p \o q)[i].to = c}
    BY <1>2, PostedForType
  <1>4. Len(p \o q) = Len(p) + Len(q) /\ Len(p) \in Nat /\ Len(q) \in Nat
    OBVIOUS
  <1>5. ASSUME NEW i \in 1..Len(p \o q) PROVE (p \o q)[i].to # c
    <2>1. CASE i <= Len(p)
      <3>1. i \in 1..Len(p) /\ (p \o q)[i] = p[i]
        BY <1>4, <2>1
      <3> QED BY <1>1, <3>1
    <2>2. CASE i > Len(p)
      <3>1. i - Len(p) \in 1..Len(q) /\ (p \o q)[i] = q[i - Len(p)]
        BY <1>4, <2>2
      <3> QED BY <3>1
    <2> QED BY <1>4, <2>1, <2>2
  <1> QED BY <1>3, <1>5

\* What the places of one client's writes are after the first write is taken.
LEMMA TailPlaces ==
    ASSUME NEW p \in Seq(Write), p # <<>>, NEW c
    PROVE  /\ Tail(p) \in Seq(Write)
           /\ \A i \in PostedFor(c, Tail(p)) :
                  i + 1 \in PostedFor(c, p) /\ Tail(p)[i] = p[i + 1] /\ i \in Nat \ {0}
           /\ \A i \in PostedFor(c, p) :
                  i \in Nat /\ (i # 1 => i - 1 \in PostedFor(c, Tail(p)))
           /\ 1 \in PostedFor(c, p) <=> Head(p).to = c
  <1>1. /\ Tail(p) \in Seq(Write) /\ Len(p) \in Nat \ {0} /\ Len(Tail(p)) = Len(p) - 1
        /\ \A i \in 1..Len(Tail(p)) : Tail(p)[i] = p[i + 1]
        /\ Head(p) = p[1]
    OBVIOUS
  <1>2. PostedFor(c, p) = {i \in 1..Len(p) : p[i].to = c}
    BY PostedForType
  <1>3. PostedFor(c, Tail(p)) = {i \in 1..Len(Tail(p)) : Tail(p)[i].to = c}
    BY <1>1, PostedForType
  <1> QED BY <1>1, <1>2, <1>3

\* The io thread takes the first write: for its client that is the next line.
LEMMA TakeNext ==
    ASSUME NEW p \in Seq(Write), p # <<>>, NEW c, Head(p).to = c,
           NEW next \in Nat, NEW last \in Nat, WaitFrom(c, p, next, last)
    PROVE  /\ Head(p).bbo = next /\ next <= last
           /\ WaitFrom(c, Tail(p), next + 1, last)
  <1> DEFINE t == Tail(p)
  <1>1. /\ t \in Seq(Write)
        /\ \A i \in PostedFor(c, t) : i + 1 \in PostedFor(c, p) /\ t[i] = p[i + 1] /\ i \in Nat \ {0}
        /\ \A i \in PostedFor(c, p) : i \in Nat /\ (i # 1 => i - 1 \in PostedFor(c, t))
        /\ 1 \in PostedFor(c, p)
    BY TailPlaces
  <1>2. Head(p) = p[1]
    OBVIOUS
  <1> HIDE DEF t
  <1>3. /\ \A i \in PostedFor(c, p) : p[i].bbo \in next..last
        /\ \A v \in next..last : \E i \in PostedFor(c, p) : p[i].bbo = v
        /\ \A i, j \in PostedFor(c, p) : i < j => p[i].bbo < p[j].bbo
    <2>1. \A i \in PostedFor(c, p) : p[i].bbo \in {p[j].bbo : j \in PostedFor(c, p)}
      OBVIOUS
    <2>2. \A v \in {p[j].bbo : j \in PostedFor(c, p)} : \E i \in PostedFor(c, p) : p[i].bbo = v
      OBVIOUS
    <2> QED BY <2>1, <2>2 DEF WaitFrom
  <1>4. \A i \in PostedFor(c, p) : i # 1 => 1 < i
    BY <1>1, PostedForType
  <1>5. p[1].bbo = next /\ next <= last
    <2>1. p[1].bbo \in next..last
      BY <1>1, <1>3
    <2>2. next \in next..last
      BY <2>1
    <2>3. PICK i \in PostedFor(c, p) : p[i].bbo = next
      BY <1>3, <2>2
    <2>4. CASE i = 1
      BY <2>1, <2>3, <2>4
    <2>5. CASE i # 1
      <3>1. p[1].bbo < p[i].bbo
        BY <1>1, <1>3, <1>4, <2>5
      <3> QED BY <2>1, <2>3, <3>1
    <2> QED BY <2>4, <2>5
  <1>6. {t[i].bbo : i \in PostedFor(c, t)} = (next + 1)..last
    <2>1. ASSUME NEW i \in PostedFor(c, t) PROVE t[i].bbo \in (next + 1)..last
      <3>1. i + 1 \in PostedFor(c, p) /\ t[i] = p[i + 1] /\ 1 < i + 1
        BY <1>1
      <3>2. p[1].bbo < p[i + 1].bbo /\ p[i + 1].bbo \in next..last
        BY <1>1, <1>3, <3>1
      <3> QED BY <1>5, <3>1, <3>2
    <2>2. ASSUME NEW v \in (next + 1)..last
          PROVE  \E i \in PostedFor(c, t) : t[i].bbo = v
      <3>1. PICK i \in PostedFor(c, p) : p[i].bbo = v
        BY <1>3
      <3>2. i # 1
        BY <1>5, <3>1
      <3>3. i \in Nat /\ i - 1 \in PostedFor(c, t)
        BY <1>1, <3>2
      <3>4. t[i - 1] = p[(i - 1) + 1] /\ (i - 1) + 1 = i
        BY <1>1, <3>3
      <3> QED BY <3>1, <3>3, <3>4
    <2> QED BY <2>1, <2>2
  <1>7. ASSUME NEW i \in PostedFor(c, t), NEW j \in PostedFor(c, t), i < j
        PROVE  t[i].bbo < t[j].bbo
    <2>1. i + 1 \in PostedFor(c, p) /\ j + 1 \in PostedFor(c, p) /\ i + 1 < j + 1
      BY <1>1, <1>7
    <2> QED BY <1>1, <1>3, <2>1
  <1> QED BY <1>2, <1>5, <1>6, <1>7 DEF WaitFrom, t

\* For every other client nothing changes.
LEMMA TakeOther ==
    ASSUME NEW p \in Seq(Write), p # <<>>, NEW c, Head(p).to # c,
           NEW next, NEW last, WaitFrom(c, p, next, last)
    PROVE  WaitFrom(c, Tail(p), next, last)
  <1> DEFINE t == Tail(p)
  <1>1. /\ t \in Seq(Write)
        /\ \A i \in PostedFor(c, t) : i + 1 \in PostedFor(c, p) /\ t[i] = p[i + 1] /\ i \in Nat \ {0}
        /\ \A i \in PostedFor(c, p) : i \in Nat /\ (i # 1 => i - 1 \in PostedFor(c, t))
        /\ 1 \notin PostedFor(c, p)
    BY TailPlaces
  <1> HIDE DEF t
  <1>2. {t[i].bbo : i \in PostedFor(c, t)} = {p[i].bbo : i \in PostedFor(c, p)}
    <2>1. ASSUME NEW i \in PostedFor(c, t)
          PROVE  t[i].bbo \in {p[j].bbo : j \in PostedFor(c, p)}
      BY <1>1
    <2>2. ASSUME NEW i \in PostedFor(c, p)
          PROVE  p[i].bbo \in {t[j].bbo : j \in PostedFor(c, t)}
      <3>1. i \in Nat /\ i - 1 \in PostedFor(c, t)
        BY <1>1
      <3>2. t[i - 1] = p[(i - 1) + 1] /\ (i - 1) + 1 = i
        BY <1>1, <3>1
      <3> QED BY <3>1, <3>2
    <2> QED BY <2>1, <2>2
  <1>3. ASSUME NEW i \in PostedFor(c, t), NEW j \in PostedFor(c, t), i < j
        PROVE  t[i].bbo < t[j].bbo
    <2>1. i + 1 \in PostedFor(c, p) /\ j + 1 \in PostedFor(c, p) /\ i + 1 < j + 1
      BY <1>1, <1>3
    <2> QED BY <1>1, <2>1 DEF WaitFrom
  <1> QED BY <1>2, <1>3 DEF WaitFrom, t

\* One line more at the end, and one line read.
LEMMA OneLineMore ==
    ASSUME NEW s \in Seq(Nat), NEW next \in Nat, Consecutive(s, next)
    PROVE  Consecutive(s \o <<next>>, next + 1)
  <1>1. /\ s \o <<next>> \in Seq(Nat) /\ Len(s \o <<next>>) = Len(s) + 1
        /\ \A i \in 1..(Len(s) + 1) :
              (s \o <<next>>)[i] = IF i <= Len(s) THEN s[i] ELSE next
    OBVIOUS
  <1>2. DOMAIN s = 1..Len(s) /\ DOMAIN (s \o <<next>>) = 1..(Len(s) + 1) /\ Len(s) \in Nat
    BY <1>1
  <1> QED BY <1>1, <1>2 DEF Consecutive

LEMMA LineArrives ==
    ASSUME NEW g \in Seq(Nat), NEW p \in Seq(Nat), NEW b \in Nat
    PROVE  g \o Append(p, b) \o <<>> = g \o p \o <<b>>
  <1>1. g \o Append(p, b) \o <<>> \in Seq(Nat) /\ g \o p \o <<b>> \in Seq(Nat)
    OBVIOUS
  <1>2. Len(g \o Append(p, b) \o <<>>) = Len(g \o p \o <<b>>)
    OBVIOUS
  <1>3. \A i \in 1..Len(g \o p \o <<b>>) : (g \o Append(p, b) \o <<>>)[i] = (g \o p \o <<b>>)[i]
    OBVIOUS
  <1> QED BY <1>1, <1>2, <1>3, SeqEqual

LEMMA LineRead ==
    ASSUME NEW g \in Seq(Nat), NEW p \in Seq(Nat), p # <<>>
    PROVE  Append(g, Head(p)) \o Tail(p) = g \o p
  <1>1. Append(g, Head(p)) \o Tail(p) \in Seq(Nat) /\ g \o p \in Seq(Nat)
    OBVIOUS
  <1>2. Len(Append(g, Head(p)) \o Tail(p)) = Len(g \o p)
    OBVIOUS
  <1>3. \A i \in 1..Len(g \o p) : (Append(g, Head(p)) \o Tail(p))[i] = (g \o p)[i]
    OBVIOUS
  <1> QED BY <1>1, <1>2, <1>3, SeqEqual

-----------------------------------------------------------------------------
(* Types of the feed                                                       *)

Feed == <<bboVars, ioVars, clientVars>>

LEMMA LinesType ==
    ASSUME FeedTypeOK, NEW c \in Client
    PROVE  LinesFor(c) \in Seq(Nat)
  <1>1. got[c] \in Seq(Nat) /\ pipe[c] \in Seq(Nat)
    BY DEF FeedTypeOK
  <1>2. writing.bbo \in Nat
    BY DEF FeedTypeOK, Write, NoLine
  <1> QED BY <1>1, <1>2 DEF LinesFor

LEMMA PublishedType ==
    ASSUME FeedTypeOK, QueueInOrder
    PROVE  Published \in Nat /\ (taken # 0 => taken = Published + 1)
  <1>1. Len(queue) \in Nat /\ arrived \in Nat /\ taken \in Nat
    BY DEF FeedTypeOK
  <1> QED BY <1>1 DEF Published, QueueInOrder

\* The list of a broadcast, whatever order the clients have in it.
LEMMA BroadcastOrder ==
    ASSUME FeedTypeOK, ListedOnceAccepted
    PROVE  \E n \in Nat : Enumerates(SetToSeq(OpenClients), n, OpenClients)
  <1>1. IsFiniteSet(OpenClients)
    BY FS_Subset DEF OpenClients, ListedOnceAccepted
  <1> QED BY <1>1, SetToSeqEnumerates

LEMMA BroadcastWrites ==
    ASSUME FeedTypeOK, ListedOnceAccepted
    PROVE  \E n \in Nat :
             /\ Enumerates(SetToSeq(OpenClients), n, OpenClients)
             /\ Writes(SetToSeq(OpenClients), taken) \in Seq(Write)
             /\ Len(Writes(SetToSeq(OpenClients), taken)) = n
             /\ \A i \in 1..n : Writes(SetToSeq(OpenClients), taken)[i] =
                                  [to |-> SetToSeq(OpenClients)[i], bbo |-> taken]
  <1>1. PICK n \in Nat : Enumerates(SetToSeq(OpenClients), n, OpenClients)
    BY BroadcastOrder
  <1>2. OpenClients \subseteq Client /\ taken \in Nat
    BY DEF OpenClients, FeedTypeOK
  <1> DEFINE order == SetToSeq(OpenClients)
  <1>3. order \in [1..n -> Client]
    BY <1>1, <1>2 DEF Enumerates
  <1> HIDE DEF order
  <1>4. /\ Writes(order, taken) \in Seq(Write)
        /\ Len(Writes(order, taken)) = n
        /\ \A i \in 1..n : Writes(order, taken)[i] = [to |-> order[i], bbo |-> taken]
    BY <1>2, <1>3, WritesProperties
  <1> QED BY <1>1, <1>4 DEF order

LEMMA SignalKeepsTypes ==
    ASSUME FeedTypeOK, Signal
    PROVE  FeedTypeOK'
  <1>1. signals' = signals + 1
    BY DEF Signal
  <1>2. handler' = "join reader" \/ handler' = handler
    BY DEF Signal
  <1>3. running' = FALSE \/ running' = running
    BY DEF Signal
  <1>4. early' = (early \/ main = "threads") \/ early' = early
    BY DEF Signal
  <1>5. UNCHANGED <<main, thread, segment, sinks, died, bboVars, ioVars, clientVars>>
    BY DEF Signal
  <1>6. signals' \in Nat
    BY <1>1 DEF FeedTypeOK
  <1>7. handler' \in StopStep
    BY <1>2 DEF FeedTypeOK, StopStep
  <1>8. running' \in BOOLEAN
    BY <1>3 DEF FeedTypeOK
  <1>9. early' \in BOOLEAN
    BY <1>4 DEF FeedTypeOK
  <1> QED
    BY <1>5, <1>6, <1>7, <1>8, <1>9 DEF FeedTypeOK, bboVars, ioVars, clientVars

LEMMA NextKeepsTypes ==
    ASSUME FeedTypeOK, ListedOnceAccepted, [Next]_vars
    PROVE  FeedTypeOK'
  <1> USE DEF FeedTypeOK, Thread, mainVars, lifeVars, bboVars, ioVars, clientVars
  <1>1. CASE Main
    BY <1>1, MainKeepsTypes
  <1>2. CASE ReaderEnds
    BY <1>2 DEF ReaderEnds, ThreadEnds
  <1>3. CASE PublisherEnds
    BY <1>3 DEF PublisherEnds, ThreadEnds
  <1>4. CASE TakeBbo
    <2>1. Head(queue) \in Nat /\ Tail(queue) \in Seq(Nat)
      BY <1>4 DEF TakeBbo
    <2> QED BY <1>4, <2>1 DEF TakeBbo
  <1>5. CASE Broadcast
    <2>1. posted' \in Seq(Write)
      <3>1. Writes(SetToSeq(OpenClients), taken) \in Seq(Write)
        BY BroadcastWrites
      <3>2. posted \in Seq(Write) /\ posted' = posted \o Writes(SetToSeq(OpenClients), taken)
        BY <1>5 DEF Broadcast
      <3> QED BY <3>1, <3>2
    <2>2. listed' \subseteq Client
      BY <1>5 DEF Broadcast, OpenClients
    <2> QED BY <1>5, <2>1, <2>2 DEF Broadcast
  <1>6. CASE StartWrite
    <2>1. Head(posted) \in Write /\ Tail(posted) \in Seq(Write)
      <3>1. posted \in Seq(Write) /\ posted # <<>>
        BY <1>6 DEF StartWrite
      <3> QED BY <3>1
    <2> QED BY <1>6, <2>1 DEF StartWrite
  <1>7. CASE FinishWrite
    <2>1. writing \in Write
      <3>1. writing # NoLine /\ writing \in Write \union {NoLine}
        BY <1>7 DEF FinishWrite
      <3> QED BY <3>1
    <2>2. writing.to \in Client /\ writing.bbo \in Nat
      BY <2>1 DEF Write
    <2>3. pipe' \in [Client -> Seq(Nat)]
      <3>1. Append(pipe[writing.to], writing.bbo) \in Seq(Nat)
        BY <2>2
      <3> QED BY <1>7, <2>2, <3>1 DEF FinishWrite
    <2>4. conn' \in [Client -> {"out", "pending", "open", "closed", "left", "ended"}]
      BY <1>7, <2>2 DEF FinishWrite
    <2>5. listed' \subseteq Client
      BY <1>7 DEF FinishWrite
    <2> QED BY <1>7, <2>3, <2>4, <2>5 DEF FinishWrite
  <1>8. ASSUME NEW c \in Client, Accept(c) PROVE FeedTypeOK'
    BY <1>8 DEF Accept
  <1>9. CASE ReadBbo
    <2>1. Append(queue, arrived + 1) \in Seq(Nat) /\ arrived + 1 \in Nat
      OBVIOUS
    <2> QED BY <1>9, <2>1 DEF ReadBbo
  <1>10. CASE ListenerDies
    BY <1>10 DEF ListenerDies
  <1>11. CASE SinkLost
    BY <1>11 DEF SinkLost
  <1>12. CASE Signal
    BY <1>12, SignalKeepsTypes
  <1>13. ASSUME NEW c \in Client, Connect(c) PROVE FeedTypeOK'
    BY <1>13 DEF Connect
  <1>14. ASSUME NEW c \in Client, ReadLine(c) PROVE FeedTypeOK'
    <2>1. /\ Head(pipe[c]) \in Nat /\ Tail(pipe[c]) \in Seq(Nat)
          /\ Append(got[c], Head(pipe[c])) \in Seq(Nat)
      <3>1. pipe[c] \in Seq(Nat) /\ got[c] \in Seq(Nat) /\ pipe[c] # <<>>
        BY <1>14 DEF ReadLine
      <3> QED BY <3>1
    <2> QED BY <1>14, <2>1 DEF ReadLine
  <1>15. ASSUME NEW c \in Client, EndOfStream(c) PROVE FeedTypeOK'
    BY <1>15 DEF EndOfStream
  <1>16. ASSUME NEW c \in Client, Leave(c) PROVE FeedTypeOK'
    BY <1>16, EmptySeq DEF Leave
  <1>17. CASE UNCHANGED vars
    BY <1>17 DEF vars
  <1> QED
    BY <1>1, <1>2, <1>3, <1>4, <1>5, <1>6, <1>7, <1>8, <1>9, <1>10, <1>11, <1>12,
       <1>13, <1>14, <1>15, <1>16, <1>17 DEF Next, Io, MarketMaker

-----------------------------------------------------------------------------
(* The queue                                                               *)

LEMMA NextKeepsQueue ==
    ASSUME FeedTypeOK, QueueInOrder, [Next]_vars
    PROVE  QueueInOrder'
  <1>0. queue \in Seq(Nat) /\ arrived \in Nat /\ taken \in Nat
    BY DEF FeedTypeOK
  <1> USE DEF QueueInOrder, mainVars, lifeVars, bboVars, ioVars, clientVars
  <1>1. CASE ReadBbo
    <2>1. queue' = Append(queue, arrived + 1) /\ arrived' = arrived + 1 /\ taken' = taken
      BY <1>1 DEF ReadBbo
    <2>2. Len(queue') = Len(queue) + 1 /\ DOMAIN queue' = 1..(Len(queue) + 1)
      BY <1>0, <2>1
    <2>3. \A i \in 1..(Len(queue) + 1) :
            queue'[i] = IF i <= Len(queue) THEN queue[i] ELSE arrived + 1
      BY <1>0, <2>1
    <2>4. DOMAIN queue = 1..Len(queue) /\ Len(queue) \in Nat
      BY <1>0
    <2> QED BY <1>0, <2>1, <2>2, <2>3, <2>4
  <1>2. CASE TakeBbo
    <2>1. queue' = Tail(queue) /\ arrived' = arrived /\ taken' = Head(queue) /\ queue # <<>>
      BY <1>2 DEF TakeBbo
    <2>2. /\ Len(queue) \in Nat \ {0} /\ Len(queue') = Len(queue) - 1
          /\ DOMAIN queue = 1..Len(queue) /\ DOMAIN queue' = 1..(Len(queue) - 1)
          /\ \A i \in 1..(Len(queue) - 1) : queue'[i] = queue[i + 1]
          /\ Head(queue) = queue[1]
      BY <1>0, <2>1
    <2> QED BY <1>0, <2>1, <2>2
  <1>3. CASE Broadcast
    BY <1>3 DEF Broadcast
  <1>4. CASE UNCHANGED bboVars
    BY <1>4
  <1>5. Main => UNCHANGED bboVars
    BY DEF Main, UnlinkSegment, CreateSegment, TruncateSegment, BuildRing,
           CreateTcpServer, CreateSinks, Listen, ConstructorThrows, SetRunning,
           StartThreads, WaitReturns, JoinReader, JoinPublisher, JoinThread,
           Disconnect, DestroyRing, DestroyThreads, CloseSockets, JoinIo
  <1>6. ReaderEnds \/ PublisherEnds \/ Io \/ ListenerDies \/ SinkLost \/ Signal
          => UNCHANGED bboVars
    BY DEF ReaderEnds, PublisherEnds, ThreadEnds, Io, StartWrite, FinishWrite,
           Accept, ListenerDies, SinkLost, Signal
  <1>7. (\E c \in Client : Connect(c) \/ MarketMaker(c) \/ Leave(c))
          => UNCHANGED bboVars
    BY DEF Connect, MarketMaker, ReadLine, EndOfStream, Leave
  <1>8. UNCHANGED vars => UNCHANGED bboVars
    BY DEF vars
  <1> QED
    BY <1>1, <1>2, <1>3, <1>4, <1>5, <1>6, <1>7, <1>8 DEF Next

-----------------------------------------------------------------------------
(* The feed of each client                                                 *)

Contiguous(c) ==
    \E next \in 1..(Published + 1) :
        Consecutive(LinesFor(c), next) /\ WaitFrom(c, posted, next, Published)

Unreached(c) == LinesFor(c) = <<>> /\ PostedFor(c, posted) = {}

Reached(c) == conn[c] \notin {"out", "pending"}

LEMMA FeedParts ==
    /\ FeedIsContiguous <=> \A c \in Client : conn[c] = "open" => Contiguous(c)
    /\ ListedOnceAccepted <=>
         /\ IsFiniteSet(listed)
         /\ \A c \in Client : conn[c] = "open" => c \in listed
         /\ \A c \in listed : Reached(c)
         /\ \A c \in Client : ~Reached(c) => Unreached(c)
  BY DEF FeedIsContiguous, Contiguous, ListedOnceAccepted, Unreached, Reached

\* How a step that leaves the clients and their list alone is judged.
LEMMA FeedGoesOn ==
    ASSUME ListedOnceAccepted, FeedIsContiguous, UNCHANGED <<listed, conn>>,
           \A c \in Client : ~Reached(c) /\ Unreached(c) => Unreached(c)',
           \A c \in Client : conn[c] = "open" /\ Contiguous(c) => Contiguous(c)'
    PROVE  ListedOnceAccepted' /\ FeedIsContiguous'
  <1>1. ListedOnceAccepted'
    BY FeedParts DEF ListedOnceAccepted, Unreached, Reached
  <1>2. FeedIsContiguous'
    BY FeedParts DEF FeedIsContiguous, Contiguous
  <1> QED BY <1>1, <1>2

LEMMA LinesStay ==
    ASSUME NEW c \in Client, got'[c] = got[c], pipe'[c] = pipe[c],
           writing' = writing \/ (writing'.to # c /\ writing.to # c)
    PROVE  LinesFor(c)' = LinesFor(c)
  BY DEF LinesFor

LEMMA ContiguousStays ==
    ASSUME NEW c \in Client, LinesFor(c)' = LinesFor(c), posted' = posted,
           Published' = Published
    PROVE  /\ Contiguous(c) => Contiguous(c)'
           /\ Unreached(c) => Unreached(c)'
  BY DEF Contiguous, Unreached

LEMMA QuietStep ==
    ASSUME ListedOnceAccepted, FeedIsContiguous, UNCHANGED Feed
    PROVE  ListedOnceAccepted' /\ FeedIsContiguous'
  <1>1. UNCHANGED <<arrived, queue, taken, posted, writing, listed, conn, pipe, got>>
    BY DEF Feed, bboVars, ioVars, clientVars
  <1>2. Published' = Published
    BY <1>1 DEF Published
  <1>3. \A c \in Client : LinesFor(c)' = LinesFor(c)
    BY <1>1 DEF LinesFor
  <1> QED BY <1>1, <1>2, <1>3, ContiguousStays, FeedGoesOn

LEMMA QueueStep ==
    ASSUME FeedTypeOK, QueueInOrder, ListedOnceAccepted, FeedIsContiguous,
           ReadBbo \/ TakeBbo
    PROVE  ListedOnceAccepted' /\ FeedIsContiguous'
  <1>1. UNCHANGED <<posted, writing, listed, conn, pipe, got>>
    BY DEF ReadBbo, TakeBbo, ioVars, clientVars
  <1>2. queue \in Seq(Nat) /\ arrived \in Nat /\ taken \in Nat
    BY DEF FeedTypeOK
  <1>3. Published' = Published
    <2>1. CASE ReadBbo
      <3>1. queue' = Append(queue, arrived + 1) /\ arrived' = arrived + 1 /\ taken' = taken
        BY <2>1 DEF ReadBbo
      <3>2. Len(queue') = Len(queue) + 1 /\ Len(queue) \in Nat
        BY <1>2, <3>1
      <3> QED BY <1>2, <3>1, <3>2 DEF Published
    <2>2. CASE TakeBbo
      <3>1. queue' = Tail(queue) /\ arrived' = arrived /\ taken' = Head(queue)
            /\ taken = 0 /\ queue # <<>>
        BY <2>2 DEF TakeBbo
      <3>2. Len(queue') = Len(queue) - 1 /\ Len(queue) \in Nat \ {0} /\ Head(queue) = queue[1]
            /\ 1 \in DOMAIN queue
        BY <1>2, <3>1
      <3>3. queue[1] = arrived - Len(queue) + 1 /\ Len(queue) <= arrived
        BY <3>2 DEF QueueInOrder
      <3>4. taken' # 0
        BY <1>2, <3>1, <3>2, <3>3
      <3> QED BY <1>2, <3>1, <3>2, <3>4 DEF Published
    <2> QED BY <2>1, <2>2
  <1>4. \A c \in Client : LinesFor(c)' = LinesFor(c)
    BY <1>1 DEF LinesFor
  <1> QED BY <1>1, <1>3, <1>4, ContiguousStays, FeedGoesOn

LEMMA BroadcastStep ==
    ASSUME FeedTypeOK, QueueInOrder, ListedOnceAccepted, FeedIsContiguous, Broadcast
    PROVE  ListedOnceAccepted' /\ FeedIsContiguous'
  <1> DEFINE order == SetToSeq(OpenClients)
             w == Writes(order, taken)
  <1>1. PICK n \in Nat :
          /\ Enumerates(order, n, OpenClients)
          /\ w \in Seq(Write) /\ Len(w) = n
          /\ \A i \in 1..n : w[i] = [to |-> order[i], bbo |-> taken]
    BY BroadcastWrites
  <1>2. /\ posted' = posted \o w /\ listed' = OpenClients /\ taken' = 0 /\ taken # 0
        /\ UNCHANGED <<arrived, queue, writing, conn, pipe, got>>
    BY DEF Broadcast
  <1> HIDE DEF w, order
  <1>3. posted \in Seq(Write) /\ arrived \in Nat /\ Len(queue) \in Nat
    BY DEF FeedTypeOK
  <1>4. Published \in Nat /\ Published' = Published + 1 /\ taken = Published + 1
    <2>1. Published \in Nat /\ taken = Published + 1
      BY <1>2, PublishedType
    <2>2. Published = arrived - Len(queue) - 1 /\ Published' = arrived - Len(queue) - 0
      BY <1>2 DEF Published
    <2> QED BY <1>3, <2>1, <2>2
  <1>5. \A c \in Client : LinesFor(c)' = LinesFor(c)
    BY <1>2 DEF LinesFor
  <1>6. OpenClients \subseteq listed /\ OpenClients \subseteq Client
    BY DEF OpenClients, FeedTypeOK
  <1>7. \A c : c \in OpenClients <=> c \in listed /\ conn[c] # "closed"
    BY DEF OpenClients
  <1>8. ListedOnceAccepted'
    <2>1. IsFiniteSet(listed')
      BY <1>2, <1>6, FS_Subset DEF ListedOnceAccepted
    <2>2. ASSUME NEW c \in Client, conn'[c] = "open" PROVE c \in listed'
      BY <1>2, <1>7, <2>2 DEF ListedOnceAccepted
    <2>3. ASSUME NEW c \in listed' PROVE conn'[c] \notin {"out", "pending"}
      BY <1>2, <1>6 DEF ListedOnceAccepted
    <2>4. ASSUME NEW c \in Client, conn'[c] \in {"out", "pending"}
          PROVE  LinesFor(c)' = <<>> /\ PostedFor(c, posted)' = {}
      <3>1. LinesFor(c) = <<>> /\ PostedFor(c, posted) = {} /\ c \notin OpenClients
        BY <1>2, <1>7, <2>4 DEF ListedOnceAccepted
      <3>2. \A i \in 1..Len(w) : w[i].to # c
        BY <1>1, <3>1 DEF Enumerates
      <3>3. PostedFor(c, posted \o w) = {}
        BY <1>1, <1>3, <3>1, <3>2, PostNone
      <3> QED BY <1>2, <1>5, <3>1, <3>3
    <2> QED BY <2>1, <2>2, <2>3, <2>4 DEF ListedOnceAccepted
  <1>9. ASSUME NEW c \in Client, conn'[c] = "open"
        PROVE  Contiguous(c)'
    <2>1. PICK next \in 1..(Published + 1) :
            Consecutive(LinesFor(c), next) /\ WaitFrom(c, posted, next, Published)
      BY <1>2, <1>9 DEF FeedIsContiguous
    <2>2. c \in OpenClients
      BY <1>2, <1>7, <1>9 DEF ListedOnceAccepted
    <2>3. PICK k \in 1..n : order[k] = c
      BY <1>1, <2>2 DEF Enumerates
    <2>4. w[k] = [to |-> c, bbo |-> Published + 1]
      BY <1>1, <1>4, <2>3
    <2>5. \A i \in 1..Len(w) : w[i].to = c => i = k
      BY <1>1, <2>3 DEF Enumerates
    <2>6. next \in Nat /\ next <= Published + 1
      BY <1>4
    <2>7. WaitFrom(c, posted \o w, next, Published + 1)
      BY <1>1, <1>3, <1>4, <2>1, <2>4, <2>5, <2>6, PostOne
    <2>8. next \in 1..(Published' + 1)
      BY <1>4
    <2> QED BY <1>2, <1>4, <1>5, <2>1, <2>7, <2>8 DEF Contiguous
  <1> QED BY <1>8, <1>9, FeedParts DEF FeedIsContiguous, Contiguous

LEMMA AcceptStep ==
    ASSUME FeedTypeOK, QueueInOrder, ListedOnceAccepted, FeedIsContiguous,
           NEW d \in Client, Accept(d)
    PROVE  ListedOnceAccepted' /\ FeedIsContiguous'
  <1>1. /\ conn[d] = "pending" /\ conn' = [conn EXCEPT ![d] = "open"]
        /\ listed' = listed \union {d}
        /\ UNCHANGED <<arrived, queue, taken, posted, writing, pipe, got>>
    BY DEF Accept, bboVars, ioVars
  <1>2. DOMAIN conn = Client /\ listed \subseteq Client
    BY DEF FeedTypeOK
  <1>3. Published' = Published /\ Published \in Nat
    BY <1>1, PublishedType DEF Published
  <1>4. \A c \in Client : LinesFor(c)' = LinesFor(c)
    BY <1>1 DEF LinesFor
  <1>5. \A c \in Client : conn'[c] = IF c = d THEN "open" ELSE conn[c]
    BY <1>1, <1>2
  <1>6. ListedOnceAccepted'
    <2>1. IsFiniteSet(listed')
      BY <1>1, FS_AddElement DEF ListedOnceAccepted
    <2>2. \A c \in Client : conn'[c] = "open" => c \in listed'
      BY <1>1, <1>5 DEF ListedOnceAccepted
    <2>3. \A c \in listed' : conn'[c] \notin {"out", "pending"}
      BY <1>1, <1>2, <1>5 DEF ListedOnceAccepted
    <2>4. \A c \in Client : conn'[c] \in {"out", "pending"} =>
            LinesFor(c)' = <<>> /\ PostedFor(c, posted)' = {}
      BY <1>1, <1>4, <1>5 DEF ListedOnceAccepted
    <2> QED BY <2>1, <2>2, <2>3, <2>4 DEF ListedOnceAccepted
  <1>7. ASSUME NEW c \in Client, conn'[c] = "open"
        PROVE  Contiguous(c)'
    <2>1. CASE c = d
      <3>1. LinesFor(d) = <<>> /\ PostedFor(d, posted) = {}
        BY <1>1 DEF ListedOnceAccepted
      <3>2. Consecutive(<<>>, Published + 1)
        BY DEF Consecutive
      <3>3. WaitFrom(d, posted, Published + 1, Published)
        BY <1>3, <3>1 DEF WaitFrom
      <3>4. Published + 1 \in 1..(Published' + 1)
        BY <1>3
      <3> QED BY <1>1, <1>3, <1>4, <2>1, <3>1, <3>2, <3>3, <3>4 DEF Contiguous
    <2>2. CASE c # d
      <3>1. Contiguous(c)
        BY <1>5, <1>7, <2>2, FeedParts
      <3> QED BY <1>1, <1>3, <1>4, <3>1, ContiguousStays
    <2> QED BY <2>1, <2>2
  <1> QED BY <1>6, <1>7, FeedParts DEF FeedIsContiguous, Contiguous

LEMMA StartWriteStep ==
    ASSUME FeedTypeOK, QueueInOrder, ListedOnceAccepted, FeedIsContiguous, StartWrite
    PROVE  ListedOnceAccepted' /\ FeedIsContiguous'
  <1>1. /\ writing = NoLine /\ posted # <<>> /\ posted' = Tail(posted)
        /\ writing' = IF conn[Head(posted).to] = "closed" THEN NoLine ELSE Head(posted)
        /\ UNCHANGED <<arrived, queue, taken, listed, conn, pipe, got>>
    BY DEF StartWrite, bboVars, clientVars
  <1>2. posted \in Seq(Write) /\ Head(posted) \in Write
    BY <1>1 DEF FeedTypeOK
  <1>3. Published' = Published /\ Published \in Nat
    BY <1>1, PublishedType DEF Published
  <1>4. \A c \in Client : c # NoLine.to
    BY FeedAssumption
  <1>5. ASSUME NEW c \in Client, Head(posted).to # c
        PROVE  LinesFor(c)' = LinesFor(c)
    <2>1. writing'.to # c /\ writing.to # c
      BY <1>1, <1>4, <1>5
    <2> QED BY <1>1, <2>1 DEF LinesFor
  <1>6. ASSUME NEW c \in Client, ~Reached(c), Unreached(c)
        PROVE  Unreached(c)'
    <2>1. PostedFor(c, posted) = {} /\ LinesFor(c) = <<>>
      BY <1>6 DEF Unreached
    <2>2. Head(posted).to # c /\ PostedFor(c, Tail(posted)) = {}
      BY <1>1, <1>2, <2>1, TailPlaces
    <2> QED BY <1>1, <1>5, <2>1, <2>2 DEF Unreached
  <1>7. ASSUME NEW c \in Client, conn[c] = "open", Contiguous(c)
        PROVE  Contiguous(c)'
    <2>1. PICK next \in 1..(Published + 1) :
            Consecutive(LinesFor(c), next) /\ WaitFrom(c, posted, next, Published)
      BY <1>7 DEF Contiguous
    <2>2. next \in Nat
      BY <1>3
    <2>3. CASE Head(posted).to # c
      <3>1. WaitFrom(c, Tail(posted), next, Published)
        BY <1>1, <1>2, <2>1, <2>3, TakeOther
      <3> QED BY <1>1, <1>3, <1>5, <2>1, <2>3, <3>1 DEF Contiguous
    <2>4. CASE Head(posted).to = c
      <3>1. Head(posted).bbo = next /\ next <= Published
            /\ WaitFrom(c, Tail(posted), next + 1, Published)
        BY <1>1, <1>2, <1>3, <2>1, <2>2, <2>4, TakeNext
      <3>2. writing'.to = c /\ writing'.bbo = next
        BY <1>1, <1>7, <2>4, <3>1
      <3>3. got[c] \o pipe[c] \in Seq(Nat)
        BY DEF FeedTypeOK
      <3>4. LinesFor(c) = got[c] \o pipe[c] \o <<>>
        BY <1>1, <1>4 DEF LinesFor
      <3>5. LinesFor(c) = got[c] \o pipe[c]
        BY <3>3, <3>4
      <3>6. LinesFor(c)' = LinesFor(c) \o <<next>>
        BY <1>1, <3>2, <3>5 DEF LinesFor
      <3>7. Consecutive(LinesFor(c)', next + 1)
        BY <2>1, <2>2, <3>3, <3>5, <3>6, OneLineMore
      <3>8. next + 1 \in 1..(Published' + 1)
        BY <1>3, <2>2, <3>1
      <3> QED BY <1>1, <1>3, <3>1, <3>7, <3>8 DEF Contiguous
    <2> QED BY <2>3, <2>4
  <1> QED BY <1>1, <1>6, <1>7, FeedGoesOn

LEMMA FinishWriteStep ==
    ASSUME FeedTypeOK, QueueInOrder, ListedOnceAccepted, FeedIsContiguous, FinishWrite
    PROVE  ListedOnceAccepted' /\ FeedIsContiguous'
  <1>1. PICK d : d = writing.to
    OBVIOUS
  <1>2. writing # NoLine /\ writing' = NoLine
        /\ UNCHANGED <<arrived, queue, taken, posted, got>>
    BY DEF FinishWrite, bboVars
  <1>3. writing \in Write
    BY <1>2 DEF FeedTypeOK
  <1>4. d \in Client /\ writing.bbo \in Nat
    BY <1>1, <1>3 DEF Write
  <1>5. /\ DOMAIN conn = Client /\ DOMAIN pipe = Client /\ listed \subseteq Client
        /\ got[d] \in Seq(Nat) /\ pipe[d] \in Seq(Nat)
    BY <1>4 DEF FeedTypeOK
  <1>6. Published' = Published
    BY <1>2 DEF Published
  <1>7. ASSUME NEW c \in Client, c # d, pipe'[c] = pipe[c]
        PROVE  LinesFor(c)' = LinesFor(c)
    <2>1. writing'.to # c /\ writing.to # c
      BY <1>1, <1>2, <1>7, FeedAssumption
    <2> QED BY <1>2, <1>7, <2>1 DEF LinesFor
  <1>8. CASE /\ conn[d] \in {"open", "closed"}
             /\ pipe' = [pipe EXCEPT ![d] = Append(@, writing.bbo)]
             /\ UNCHANGED <<listed, conn>>
    <2>1. LinesFor(d)' = LinesFor(d)
      <3>1. LinesFor(d) = got[d] \o pipe[d] \o <<writing.bbo>>
        BY <1>1 DEF LinesFor
      <3>2. writing'.to # d
        BY <1>2, <1>4, FeedAssumption
      <3>3. LinesFor(d)' = got[d] \o pipe'[d] \o <<>>
        BY <1>2, <3>2 DEF LinesFor
      <3>4. pipe'[d] = Append(pipe[d], writing.bbo)
        BY <1>4, <1>5, <1>8
      <3>5. got[d] \o Append(pipe[d], writing.bbo) \o <<>> =
              got[d] \o pipe[d] \o <<writing.bbo>>
        BY <1>4, <1>5, LineArrives
      <3> QED BY <3>1, <3>3, <3>4, <3>5
    <2>2. \A c \in Client : LinesFor(c)' = LinesFor(c)
      <3>1. \A c \in Client : c # d => pipe'[c] = pipe[c]
        BY <1>5, <1>8
      <3> QED BY <1>7, <2>1, <3>1
    <2> QED BY <1>2, <1>6, <1>8, <2>2, ContiguousStays, FeedGoesOn
  <1>9. CASE /\ conn[d] \in {"left", "ended"}
             /\ listed' = listed \ {d}
             /\ conn' = [conn EXCEPT ![d] = "ended"]
             /\ UNCHANGED pipe
    <2>1. \A c \in Client : conn'[c] = IF c = d THEN "ended" ELSE conn[c]
      BY <1>5, <1>9
    <2>2. \A c \in Client : c # d => LinesFor(c)' = LinesFor(c)
      BY <1>7, <1>9
    <2>3. IsFiniteSet(listed')
      <3>1. listed' \subseteq listed
        BY <1>9
      <3> QED BY <3>1, FS_Subset DEF ListedOnceAccepted
    <2>4. \A c \in Client : conn'[c] = "open" => c \in listed'
      BY <1>9, <2>1 DEF ListedOnceAccepted
    <2>5. \A c \in listed' : conn'[c] \notin {"out", "pending"}
      BY <1>5, <1>9, <2>1 DEF ListedOnceAccepted
    <2>6. \A c \in Client : conn'[c] \in {"out", "pending"} =>
            LinesFor(c)' = <<>> /\ PostedFor(c, posted)' = {}
      BY <1>2, <2>1, <2>2 DEF ListedOnceAccepted
    <2>7. ListedOnceAccepted'
      BY <2>3, <2>4, <2>5, <2>6 DEF ListedOnceAccepted
    <2>8. ASSUME NEW c \in Client, conn'[c] = "open"
          PROVE  Contiguous(c)'
      <3>1. c # d /\ conn[c] = "open"
        BY <2>1, <2>8
      <3>2. Contiguous(c)
        BY <3>1, FeedParts
      <3> QED BY <1>2, <1>6, <2>2, <3>1, <3>2, ContiguousStays
    <2> QED BY <2>7, <2>8, FeedParts DEF FeedIsContiguous, Contiguous
  <1> QED BY <1>1, <1>8, <1>9 DEF FinishWrite

LEMMA ReadLineStep ==
    ASSUME FeedTypeOK, QueueInOrder, ListedOnceAccepted, FeedIsContiguous,
           NEW d \in Client, ReadLine(d)
    PROVE  ListedOnceAccepted' /\ FeedIsContiguous'
  <1>1. /\ pipe[d] # <<>>
        /\ got' = [got EXCEPT ![d] = Append(@, Head(pipe[d]))]
        /\ pipe' = [pipe EXCEPT ![d] = Tail(@)]
        /\ UNCHANGED <<arrived, queue, taken, posted, writing, listed, conn>>
    BY DEF ReadLine, bboVars, ioVars
  <1>2. /\ DOMAIN got = Client /\ DOMAIN pipe = Client
        /\ got[d] \in Seq(Nat) /\ pipe[d] \in Seq(Nat)
    BY DEF FeedTypeOK
  <1>3. Published' = Published
    BY <1>1 DEF Published
  <1>4. got'[d] \o pipe'[d] = got[d] \o pipe[d]
    <2>1. got'[d] = Append(got[d], Head(pipe[d])) /\ pipe'[d] = Tail(pipe[d])
      BY <1>1, <1>2
    <2> QED BY <1>1, <1>2, <2>1, LineRead
  <1>5. \A c \in Client : got'[c] \o pipe'[c] = got[c] \o pipe[c]
    <2>1. \A c \in Client : c # d => got'[c] = got[c] /\ pipe'[c] = pipe[c]
      BY <1>1, <1>2
    <2> QED BY <1>4, <2>1
  <1>6. \A c \in Client : LinesFor(c)' = LinesFor(c)
    BY <1>1, <1>5 DEF LinesFor
  <1> QED BY <1>1, <1>3, <1>6, ContiguousStays, FeedGoesOn

\* A client connects, finds the end of the stream or leaves: it is not in an
\* open connection afterwards, and before that only if it connects.
LEMMA ClientStep ==
    ASSUME FeedTypeOK, QueueInOrder, ListedOnceAccepted, FeedIsContiguous,
           NEW d \in Client, Connect(d) \/ EndOfStream(d) \/ Leave(d)
    PROVE  ListedOnceAccepted' /\ FeedIsContiguous'
  <1>1. UNCHANGED <<arrived, queue, taken, posted, writing, listed, got>>
    BY DEF Connect, EndOfStream, Leave, bboVars, ioVars
  <1>2. DOMAIN conn = Client /\ DOMAIN pipe = Client /\ listed \subseteq Client
    BY DEF FeedTypeOK
  <1>3. Published' = Published
    BY <1>1 DEF Published
  <1>4. /\ \A c \in Client : c # d => conn'[c] = conn[c] /\ pipe'[c] = pipe[c]
        /\ conn'[d] \in {"pending", "ended", "left"}
        /\ conn'[d] = "pending" => conn[d] = "out" /\ pipe'[d] = pipe[d]
    BY <1>2 DEF Connect, EndOfStream, Leave
  <1>5. ASSUME NEW c \in Client, pipe'[c] = pipe[c]
        PROVE  LinesFor(c)' = LinesFor(c)
    BY <1>1, <1>5 DEF LinesFor
  <1>6. \A c \in Client : conn'[c] = "open" => c \in listed'
    BY <1>1, <1>4 DEF ListedOnceAccepted
  <1>7. \A c \in listed' : conn'[c] \notin {"out", "pending"}
    BY <1>1, <1>2, <1>4 DEF ListedOnceAccepted
  <1>8. ASSUME NEW c \in Client, conn'[c] \in {"out", "pending"}
        PROVE  LinesFor(c)' = <<>> /\ PostedFor(c, posted)' = {}
    <2>1. conn[c] \in {"out", "pending"} /\ pipe'[c] = pipe[c]
      BY <1>4, <1>8
    <2> QED BY <1>1, <1>5, <2>1 DEF ListedOnceAccepted
  <1>9. ListedOnceAccepted'
    BY <1>1, <1>6, <1>7, <1>8 DEF ListedOnceAccepted
  <1>10. ASSUME NEW c \in Client, conn'[c] = "open"
         PROVE  Contiguous(c)'
    <2>1. conn[c] = "open" /\ pipe'[c] = pipe[c]
      BY <1>4, <1>10
    <2>2. Contiguous(c)
      BY <2>1, FeedParts
    <2> QED BY <1>1, <1>3, <1>5, <2>1, <2>2, ContiguousStays
  <1> QED BY <1>9, <1>10, FeedParts DEF FeedIsContiguous, Contiguous

LEMMA CloseSocketsStep ==
    ASSUME FeedTypeOK, QueueInOrder, ListedOnceAccepted, FeedIsContiguous, CloseSockets
    PROVE  ListedOnceAccepted' /\ FeedIsContiguous'
  <1>1. /\ conn' = [c \in Client |->
                      IF conn[c] = "open" \/ conn[c] = "pending" THEN "closed" ELSE conn[c]]
        /\ listed' = {} /\ posted' = <<>> /\ UNCHANGED <<writing, pipe, got>>
    BY DEF CloseSockets
  <1>2. \A c \in Client : conn'[c] # "open" /\ (conn'[c] \in {"out", "pending"} => conn[c] = "out")
    BY <1>1
  <1>3. \A c \in Client : LinesFor(c)' = LinesFor(c)
    BY <1>1 DEF LinesFor
  <1>4. \A c \in Client : PostedFor(c, posted') = {}
    BY <1>1 DEF PostedFor
  <1>5. IsFiniteSet(listed')
    BY <1>1, FS_EmptySet
  <1>6. \A c \in Client : conn'[c] \in {"out", "pending"} =>
          LinesFor(c)' = <<>> /\ PostedFor(c, posted)' = {}
    BY <1>2, <1>3, <1>4 DEF ListedOnceAccepted
  <1>7. ListedOnceAccepted'
    BY <1>1, <1>2, <1>5, <1>6 DEF ListedOnceAccepted
  <1>8. FeedIsContiguous'
    BY <1>2 DEF FeedIsContiguous
  <1> QED BY <1>7, <1>8

LEMMA InitFeed == Init => QueueInOrder /\ ListedOnceAccepted /\ FeedIsContiguous
  <1> SUFFICES ASSUME Init PROVE QueueInOrder /\ ListedOnceAccepted /\ FeedIsContiguous
    OBVIOUS
  <1>1. QueueInOrder
    BY DEF Init, QueueInOrder
  <1>2. \A c \in Client : writing.to # c
    BY FeedAssumption DEF Init
  <1>3. \A c \in Client : LinesFor(c) = <<>> /\ PostedFor(c, posted) = {}
    <2>1. \A c \in Client : LinesFor(c) = <<>> \o <<>> \o <<>>
      BY <1>2 DEF Init, LinesFor
    <2> QED BY <2>1 DEF Init, PostedFor
  <1>4. IsFiniteSet(listed)
    BY FS_EmptySet DEF Init
  <1>5. ListedOnceAccepted
    BY <1>3, <1>4 DEF Init, ListedOnceAccepted
  <1>6. FeedIsContiguous
    BY DEF Init, FeedIsContiguous
  <1> QED BY <1>1, <1>5, <1>6

LEMMA NextKeepsFeed ==
    ASSUME FeedInvariant, [Next]_vars
    PROVE  FeedInvariant'
  <1>0. FeedTypeOK /\ QueueInOrder /\ ListedOnceAccepted /\ FeedIsContiguous
    BY DEF FeedInvariant
  <1>1. FeedTypeOK' /\ QueueInOrder'
    BY <1>0, NextKeepsTypes, NextKeepsQueue
  <1> SUFFICES ListedOnceAccepted' /\ FeedIsContiguous'
    BY <1>1 DEF FeedInvariant
  <1>2. CASE UNCHANGED Feed
    BY <1>0, <1>2, QuietStep
  <1>3. CASE ReadBbo \/ TakeBbo
    BY <1>0, <1>3, QueueStep
  <1>4. CASE Broadcast
    BY <1>0, <1>4, BroadcastStep
  <1>5. ASSUME NEW c \in Client, Accept(c) \/ Connect(c) \/ MarketMaker(c) \/ Leave(c)
        PROVE  ListedOnceAccepted' /\ FeedIsContiguous'
    BY <1>0, <1>5, AcceptStep, ReadLineStep, ClientStep DEF MarketMaker
  <1>6. CASE StartWrite \/ FinishWrite
    BY <1>0, <1>6, StartWriteStep, FinishWriteStep
  <1>7. CASE CloseSockets
    BY <1>0, <1>7, CloseSocketsStep
  <1>8. CASE ReaderEnds \/ PublisherEnds \/ ListenerDies \/ SinkLost \/ Signal
    <2>1. UNCHANGED Feed
      BY <1>8 DEF Feed, ReaderEnds, PublisherEnds, ThreadEnds, ListenerDies,
                  SinkLost, Signal
    <2> QED BY <1>2, <2>1
  <1>9. CASE Main /\ ~CloseSockets
    <2>1. UNCHANGED Feed
      BY <1>9 DEF Feed, Main, UnlinkSegment, CreateSegment, TruncateSegment,
           BuildRing, CreateTcpServer, CreateSinks, Listen, ConstructorThrows,
           SetRunning, StartThreads, WaitReturns, JoinReader, JoinPublisher,
           JoinThread, Disconnect, DestroyRing, DestroyThreads, JoinIo
    <2> QED BY <1>2, <2>1
  <1>10. CASE UNCHANGED vars
    <2>1. UNCHANGED Feed
      BY <1>10 DEF vars, Feed, bboVars, ioVars, clientVars
    <2> QED BY <1>2, <2>1
  <1> QED
    BY <1>2, <1>3, <1>4, <1>5, <1>6, <1>7, <1>8, <1>9, <1>10 DEF Next, Io

-----------------------------------------------------------------------------
(* The theorems                                                            *)

\* Whatever the gateway, its clients and signals do, the state keeps its types.
THEOREM FeedTypeCorrect == Spec => []FeedTypeOK
  <1>1. Init => FeedInvariant
    BY InitFeedTyped, InitFeed DEF FeedInvariant
  <1>2. FeedInvariant /\ [Next]_vars => FeedInvariant'
    BY NextKeepsFeed
  <1>3. FeedInvariant => FeedTypeOK
    BY DEF FeedInvariant
  <1> QED BY <1>1, <1>2, <1>3, PTL DEF Spec

\* For any number of clients, BBOs and room in the connections, and whatever
\* leaves, is slow, fails or is closed in between.
THEOREM FeedIsContiguousHolds == Spec => []FeedIsContiguous
  <1>1. Init => FeedInvariant
    BY InitFeedTyped, InitFeed DEF FeedInvariant
  <1>2. FeedInvariant /\ [Next]_vars => FeedInvariant'
    BY NextKeepsFeed
  <1>3. FeedInvariant => FeedIsContiguous
    BY DEF FeedInvariant
  <1> QED BY <1>1, <1>2, <1>3, PTL DEF Spec

\* Nothing is destroyed under a thread, apart from the two exceptions.
THEOREM DestroyedAloneHolds == Spec => []DestroyedAlone
  <1>1. Init => FeedTypeOK /\ LifeInvariant
    BY InitFeedTyped, InitLife
  <1>2. FeedTypeOK /\ FeedTypeOK' /\ LifeInvariant /\ [Next]_vars => LifeInvariant'
    BY NextKeepsLife
  <1>3. LifeInvariant => DestroyedAlone
    BY DEF LifeInvariant, StopPlaces, ThreadsJoined, Gone, BothGone, Awake, Before,
           DestroyedAlone
  <1> QED BY <1>1, <1>2, <1>3, FeedTypeCorrect, PTL DEF Spec
============================================================================
