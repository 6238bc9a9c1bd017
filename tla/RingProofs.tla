---------------------------- MODULE RingProofs ----------------------------
(***************************************************************************)
(* Theorems about both shared rings, for every size, every set of events   *)
(* and words and any number of calls.                                      *)
(*                                                                         *)
(* The blocking ring (SpscRing) needs no lock on its slots and is a        *)
(* bounded FIFO channel: RingInvariant relates the two cursors to the two  *)
(* histories, and the words copied so far to the event they belong to.     *)
(* Two sequence numbers less than Size apart map to different slots        *)
(* (IndexInjective), so the producer's copy, Size or fewer ahead of the    *)
(* consumer cursor, touches no slot that still holds an unread event.      *)
(*                                                                         *)
(* The dropping ring (BboRing) stores its cursor early; BboInvariant says  *)
(* what that can and cannot do to the reader.  It says of each slot which  *)
(* lap it belongs to, word by word for the slot being written.  A step     *)
(* either leaves the sequence of accepted quotes alone or appends to it    *)
(* (TryNext), and what was true of a prefix stays true.                    *)
(***************************************************************************)
EXTENDS BboRing, TLAPS

LEMMA SizePositive == Size \in Nat /\ Size > 0
  BY SizeAssumption

(* A sequence number maps to a slot of the ring: & with SIZE-1.            *)
LEMMA IndexRange ==
    ASSUME NEW s \in Nat
    PROVE  Index(s) \in Slots
  BY SizePositive DEF Index, Slots

(* Quotient and remainder, and what one lap more adds at least.            *)
LEMMA DivMod ==
    ASSUME NEW n \in Nat \ {0}, NEW a \in Nat
    PROVE  /\ a \div n \in Nat
           /\ a % n \in 0..(n - 1)
           /\ a = n * (a \div n) + (a % n)
<1>1. a % n \in 0..(n - 1)
  OBVIOUS
<1>2. a = n * (a \div n) + (a % n)
  OBVIOUS
<1>3. a \div n \in Nat
  OBVIOUS
<1> QED BY <1>1, <1>2, <1>3

LEMMA LapAdds ==
    ASSUME NEW n \in Nat \ {0}, NEW q \in Nat, NEW r \in Nat, q < r
    PROVE  n * q + n <= n * r
  OBVIOUS

(* Two numbers less than n apart have different remainders modulo n.       *)
LEMMA ModInjective ==
    ASSUME NEW n \in Nat \ {0}, NEW a \in Nat, NEW b \in Nat,
           a < b, b < a + n
    PROVE  a % n # b % n
<1> SUFFICES ASSUME a % n = b % n PROVE FALSE
  OBVIOUS
<1>1. PICK qa \in Nat, qb \in Nat, r \in 0..(n - 1) :
        /\ a = n * qa + r
        /\ b = n * qb + r
  <2>1. a \div n \in Nat /\ a % n \in 0..(n - 1) /\ a = n * (a \div n) + (a % n)
    BY DivMod
  <2>2. b \div n \in Nat /\ b = n * (b \div n) + (b % n)
    BY DivMod
  <2> QED BY <2>1, <2>2
<1>2. CASE qa = qb
  BY <1>1, <1>2
<1>3. CASE qa < qb
  <2>1. n * qa + n <= n * qb
    BY <1>3, LapAdds
  <2>2. n * qa \in Int /\ n * qb \in Int
    OBVIOUS
  <2> QED BY ONLY <2>1, <2>2, <1>1, b < a + n, n \in Nat
<1>4. CASE qb < qa
  <2>1. n * qb + n <= n * qa
    BY <1>4, LapAdds
  <2>2. n * qa \in Int /\ n * qb \in Int
    OBVIOUS
  <2> QED BY <2>1, <2>2, <1>1
<1> QED BY <1>2, <1>3, <1>4

(* Sequence numbers less than Size apart never share a slot.               *)
LEMMA IndexInjective ==
    ASSUME NEW a \in Nat, NEW b \in Nat, a < b, b < a + Size
    PROVE  Index(a) # Index(b)
<1>1. Size \in Nat \ {0}
  BY SizePositive
<1>2. a % Size # b % Size
  BY <1>1, ModInjective
<1> QED BY <1>2 DEF Index

(* A fresh ring satisfies the inductive invariant.                         *)
LEMMA InitInvariant == Init => RingInvariant
<1> SUFFICES ASSUME Init PROVE RingInvariant
  OBVIOUS
<1>1. TypeOK
  BY DEF Init, TypeOK, Whole, Content, Slots
<1>2. CursorsOrdered
  BY SizePositive DEF Init, CursorsOrdered
<1>3. ProducerOK /\ ConsumerOK
  BY DEF Init, ProducerOK, ConsumerOK
<1>4. UnreadIntact
  BY DEF Init, UnreadIntact
<1>5. ConsumedInOrder
  BY DEF Init, ConsumedInOrder
<1> QED BY <1>1, <1>2, <1>3, <1>4, <1>5 DEF RingInvariant

(* Every step of publish() and of try_read() preserves the invariant.      *)
LEMMA BeginPublishStep ==
    ASSUME RingInvariant, NEW e \in Event, BeginPublish(e)
    PROVE  RingInvariant'
<1> USE DEF RingInvariant, BeginPublish, ringVars, consumerVars
<1>1. TypeOK'
  BY DEF TypeOK
<1>2. CursorsOrdered'
  BY DEF CursorsOrdered
<1>3. ProducerOK'
  BY DEF ProducerOK
<1>4. ConsumerOK'
  BY DEF ConsumerOK
<1>5. UnreadIntact'
  BY DEF UnreadIntact
<1>6. ConsumedInOrder'
  BY DEF ConsumedInOrder
<1> QED BY <1>1, <1>2, <1>3, <1>4, <1>5, <1>6

LEMMA ClaimStep ==
    ASSUME RingInvariant, Claim
    PROVE  RingInvariant'
<1> USE DEF RingInvariant, Claim, ringVars, consumerVars
<1>1. TypeOK'
  BY DEF TypeOK
<1>2. CursorsOrdered'
  BY DEF CursorsOrdered
<1>3. ProducerOK'
  BY DEF ProducerOK, HasRoom
<1>4. ConsumerOK'
  BY DEF ConsumerOK
<1>5. UnreadIntact'
  BY DEF UnreadIntact
<1>6. ConsumedInOrder'
  BY DEF ConsumedInOrder
<1> QED BY <1>1, <1>2, <1>3, <1>4, <1>5, <1>6

(* The copy into a slot: the slot is not one of those still unread.        *)
LEMMA SetWordStep ==
    ASSUME RingInvariant, NEW w \in Word, SetWord(w)
    PROVE  RingInvariant'
<1> USE DEF RingInvariant, SetWord, consumerVars
<1>1. /\ pSeq = cursor + 1 /\ pSeq \in Nat /\ pSeq - Size <= consumerCursor
      /\ pEvent \in Event /\ Index(pSeq) \in Slots
  <2>1. pSeq = cursor + 1 /\ pSeq - Size <= consumerCursor /\ pEvent \in Event
    BY DEF ProducerOK, HasRoom
  <2>2. pSeq \in Nat
    BY <2>1 DEF TypeOK
  <2> QED BY <2>1, <2>2, IndexRange
<1>2. TypeOK'
  <2>1. slot' \in [Slots -> Content]
    BY <1>1 DEF TypeOK, Content
  <2> QED BY <2>1 DEF TypeOK
<1>3. CursorsOrdered'
  BY DEF CursorsOrdered
<1>4. ProducerOK'
  BY <1>1 DEF ProducerOK, HasRoom, TypeOK, Content
<1>5. ConsumerOK'
  BY DEF ConsumerOK
<1>6. UnreadIntact'
  <2> SUFFICES ASSUME NEW s \in (consumerCursor + 1)..cursor
               PROVE  slot'[Index(s)] = published[s + 1]
    BY DEF UnreadIntact
  <2>1. s \in Nat /\ s < pSeq /\ pSeq < s + Size
    BY <1>1, SizePositive DEF TypeOK
  <2>2. Index(s) # Index(pSeq)
    BY <2>1, <1>1, IndexInjective
  <2>3. Index(s) \in Slots
    BY <2>1, IndexRange
  <2>4. slot'[Index(s)] = slot[Index(s)]
    BY <2>2, <2>3, <1>1 DEF TypeOK
  <2> QED BY <2>4 DEF UnreadIntact
<1>7. ConsumedInOrder'
  BY DEF ConsumedInOrder
<1> QED BY <1>2, <1>3, <1>4, <1>5, <1>6, <1>7

(* The cursor store: the event it uncovers is complete.                    *)
LEMMA PublishStep ==
    ASSUME RingInvariant, Publish
    PROVE  RingInvariant'
<1> USE DEF RingInvariant, Publish, consumerVars
<1>1. /\ pSeq = cursor + 1 /\ pSeq \in Nat /\ pSeq - Size <= consumerCursor
      /\ pEvent \in Event /\ Index(pSeq) \in Slots
      /\ \A w \in Word : slot[Index(pSeq)][w] = pEvent
  <2>1. /\ pSeq = cursor + 1 /\ pSeq - Size <= consumerCursor /\ pEvent \in Event
        /\ \A w \in Word : slot[Index(pSeq)][w] = pEvent
    BY DEF ProducerOK, HasRoom
  <2>2. pSeq \in Nat
    BY <2>1 DEF TypeOK
  <2> QED BY <2>1, <2>2, IndexRange
<1>2. Whole(pEvent) \in [Word -> Event]
  BY <1>1 DEF Whole
<1>3. slot[Index(pSeq)] = Whole(pEvent)
  <2>1. slot[Index(pSeq)] \in Content
    BY <1>1 DEF TypeOK
  <2> QED BY <2>1, <1>1 DEF Whole, Content
<1>4. /\ Len(published') = Len(published) + 1
      /\ published'[Len(published) + 1] = Whole(pEvent)
      /\ \A i \in 1..Len(published) : published'[i] = published[i]
  BY <1>2 DEF TypeOK
<1>5. TypeOK'
  BY <1>1, <1>2 DEF TypeOK
<1>6. CursorsOrdered'
  BY <1>1, <1>4 DEF CursorsOrdered, TypeOK
<1>7. ProducerOK'
  BY DEF ProducerOK
<1>8. ConsumerOK'
  BY <1>1, <1>4 DEF ConsumerOK, CursorsOrdered, TypeOK
<1>9. UnreadIntact'
  <2> SUFFICES ASSUME NEW s \in (consumerCursor + 1)..pSeq
               PROVE  slot[Index(s)] = published'[s + 1]
    BY DEF UnreadIntact
  <2>1. CASE s = pSeq
    BY <2>1, <1>1, <1>3, <1>4 DEF CursorsOrdered
  <2>2. CASE s # pSeq
    <3>1. s \in (consumerCursor + 1)..cursor /\ s + 1 \in 1..Len(published)
      BY <2>2, <1>1 DEF CursorsOrdered, TypeOK
    <3> QED BY <3>1, <1>4 DEF UnreadIntact
  <2> QED BY <2>1, <2>2
<1>10. ConsumedInOrder'
  BY <1>4 DEF ConsumedInOrder, TypeOK
<1> QED BY <1>5, <1>6, <1>7, <1>8, <1>9, <1>10

LEMMA BeginReadStep ==
    ASSUME RingInvariant, BeginRead
    PROVE  RingInvariant'
<1> USE DEF RingInvariant, BeginRead, ringVars, producerVars
<1>1. TypeOK'
  BY DEF TypeOK
<1>2. CursorsOrdered'
  BY DEF CursorsOrdered
<1>3. ProducerOK'
  BY DEF ProducerOK, HasRoom
<1>4. ConsumerOK'
  BY DEF ConsumerOK, IsAvailable
<1>5. UnreadIntact'
  BY DEF UnreadIntact
<1>6. ConsumedInOrder'
  BY DEF ConsumedInOrder
<1> QED BY <1>1, <1>2, <1>3, <1>4, <1>5, <1>6

(* The copy out of a slot: the slot holds the event the cursor announced.  *)
LEMMA GetWordStep ==
    ASSUME RingInvariant, NEW w \in Word, GetWord(w)
    PROVE  RingInvariant'
<1> USE DEF RingInvariant, GetWord, ringVars, producerVars
<1>1. /\ cSeq \in (consumerCursor + 1)..cursor /\ cSeq \in Nat
      /\ Index(cSeq) \in Slots
  <2>1. cSeq = consumerCursor + 1 /\ cSeq <= cursor
    BY DEF ConsumerOK
  <2>2. cSeq \in (consumerCursor + 1)..cursor /\ cSeq \in Nat
    BY <2>1 DEF TypeOK
  <2> QED BY <2>2, IndexRange
<1>2. slot[Index(cSeq)] = published[cSeq + 1]
  BY <1>1 DEF UnreadIntact
<1>3. slot[Index(cSeq)][w] \in Event \cup {Blank}
  BY <1>1 DEF TypeOK, Content
<1>4. TypeOK'
  <2>1. cBuf' \in Content
    BY <1>3 DEF TypeOK, Content
  <2> QED BY <2>1 DEF TypeOK
<1>5. CursorsOrdered'
  BY DEF CursorsOrdered
<1>6. ProducerOK'
  BY DEF ProducerOK, HasRoom
<1>7. ConsumerOK'
  BY <1>2 DEF ConsumerOK, TypeOK, Content
<1>8. UnreadIntact'
  BY DEF UnreadIntact
<1>9. ConsumedInOrder'
  BY DEF ConsumedInOrder
<1> QED BY <1>4, <1>5, <1>6, <1>7, <1>8, <1>9

(* The consumer cursor store: what was copied is the next event.           *)
LEMMA SetConsumerCursorStep ==
    ASSUME RingInvariant, SetConsumerCursor
    PROVE  RingInvariant'
<1> USE DEF RingInvariant, SetConsumerCursor, producerVars
<1>1. /\ cSeq = consumerCursor + 1 /\ cSeq <= cursor
      /\ \A w \in Word : cBuf[w] = published[cSeq + 1][w]
      /\ cBuf \in Content
  BY DEF ConsumerOK, TypeOK
<1>2. cSeq + 1 \in 1..Len(published) /\ published[cSeq + 1] \in [Word -> Event]
  BY <1>1 DEF CursorsOrdered, TypeOK
<1>3. cBuf = published[cSeq + 1]
  BY <1>1, <1>2 DEF Content
<1>4. /\ Len(consumed') = Len(consumed) + 1
      /\ consumed'[Len(consumed) + 1] = cBuf
      /\ \A i \in 1..Len(consumed) : consumed'[i] = consumed[i]
  BY <1>1 DEF TypeOK
<1>5. TypeOK'
  BY <1>1, <1>2, <1>3 DEF TypeOK
<1>6. CursorsOrdered'
  BY <1>1, <1>4, SizePositive DEF CursorsOrdered, TypeOK
<1>7. ProducerOK'
  BY <1>1, SizePositive DEF ProducerOK, HasRoom, TypeOK
<1>8. ConsumerOK'
  BY DEF ConsumerOK
<1>9. UnreadIntact'
  BY <1>1 DEF UnreadIntact, TypeOK
<1>10. ConsumedInOrder'
  BY <1>1, <1>2, <1>3, <1>4 DEF ConsumedInOrder, CursorsOrdered, TypeOK
<1> QED BY <1>5, <1>6, <1>7, <1>8, <1>9, <1>10

LEMMA StepInvariant ==
    ASSUME RingInvariant, [Next]_vars
    PROVE  RingInvariant'
<1>1. CASE UNCHANGED vars
  BY <1>1 DEF RingInvariant, vars, ringVars, producerVars, consumerVars, TypeOK,
     CursorsOrdered, ProducerOK, HasRoom, ConsumerOK, UnreadIntact,
     ConsumedInOrder
<1>2. CASE Producer
  BY <1>2, BeginPublishStep, ClaimStep, SetWordStep, PublishStep DEF Producer
<1>3. CASE Consumer
  BY <1>1, <1>3, BeginReadStep, GetWordStep, SetConsumerCursorStep
     DEF Consumer, PollEmpty
<1> QED BY <1>1, <1>2, <1>3 DEF Next

---------------------------------------------------------------------------
(* The cursors, both calls and the histories agree in every reachable      *)
(* state of a ring shared by one publisher and one reader.                 *)
THEOREM RingInvariantHolds == Spec => []RingInvariant
<1>1. Init => RingInvariant
  BY InitInvariant
<1>2. RingInvariant /\ [Next]_vars => RingInvariant'
  BY StepInvariant
<1> QED BY <1>1, <1>2, PTL DEF Spec

(* Types of the cursors, the slots, both calls' locals and the histories.  *)
THEOREM TypeCorrect == Spec => []TypeOK
<1>1. RingInvariant => TypeOK
  BY DEF RingInvariant
<1> QED BY <1>1, RingInvariantHolds, PTL

(* set() and get() never touch the same slot at the same time, so the      *)
(* plain copies need no synchronisation but the two cursors.               *)
THEOREM NoSlotRaceHolds == Spec => []NoSlotRace
<1>1. RingInvariant => NoSlotRace
  <2> SUFFICES ASSUME RingInvariant, pPc = "set", cPc = "get"
               PROVE  Index(pSeq) # Index(cSeq)
    BY DEF NoSlotRace
  <2>1. /\ pSeq = cursor + 1 /\ pSeq - Size <= consumerCursor
        /\ cSeq = consumerCursor + 1 /\ cSeq <= cursor
        /\ cursor \in Int /\ consumerCursor \in Int /\ consumerCursor >= -1
    BY DEF RingInvariant, TypeOK, ProducerOK, ConsumerOK, HasRoom
  <2>2. cSeq \in Nat /\ pSeq \in Nat /\ cSeq < pSeq /\ pSeq < cSeq + Size
    BY <2>1, SizePositive
  <2> QED BY <2>2, IndexInjective
<1> QED BY <1>1, RingInvariantHolds, PTL

(* Lapping the ring never damages an event that has not been read.         *)
THEOREM UnreadIntactHolds == Spec => []UnreadIntact
<1>1. RingInvariant => UnreadIntact
  BY DEF RingInvariant
<1> QED BY <1>1, RingInvariantHolds, PTL

(* The reader gets what was published: no loss, repetition, reordering or  *)
(* tearing, whatever the interleaving of the copies.                       *)
THEOREM ConsumedInOrderHolds == Spec => []ConsumedInOrder
<1>1. RingInvariant => ConsumedInOrder
  BY DEF RingInvariant
<1> QED BY <1>1, RingInvariantHolds, PTL

---------------------------------------------------------------------------
(* Every step of the ring is a Send, a Receive or a stutter of the channel *)
(* whose two ends are the histories of publish() and try_read().           *)
LEMMA StepImplements ==
    ASSUME RingInvariant, [Next]_vars
    PROVE  [Channel!Next]_(Channel!channelVars)
<1> USE DEF Channel!channelVars, Channel!Next, Channel!InFlight
<1>1. ASSUME UNCHANGED <<published, consumed>>
      PROVE  [Channel!Next]_(Channel!channelVars)
  BY <1>1
<1>2. CASE UNCHANGED vars
  BY <1>1, <1>2 DEF vars
<1>3. CASE Publish
  <2>1. pEvent \in Event /\ pSeq = cursor + 1 /\ pSeq - Size <= consumerCursor
    BY <1>3 DEF RingInvariant, ProducerOK, HasRoom, Publish
  <2>2. Len(published) - Len(consumed) < Size
    BY <2>1, SizePositive DEF RingInvariant, CursorsOrdered, TypeOK
  <2>3. Channel!Send(Whole(pEvent))
    BY <1>3, <2>2 DEF Channel!Send, Publish
  <2> QED BY <2>1, <2>3
<1>4. CASE SetConsumerCursor
  <2>1. RingInvariant'
    BY <1>4, SetConsumerCursorStep
  <2>2. /\ Len(consumed') = Len(consumed) + 1
        /\ consumed'[Len(consumed) + 1] = cBuf
    BY <1>4 DEF SetConsumerCursor, RingInvariant, TypeOK
  <2>3. /\ Len(consumed) + 1 <= Len(published)
        /\ cBuf = published[Len(consumed) + 1]
    BY <1>4, <2>1, <2>2
       DEF RingInvariant, ConsumedInOrder, TypeOK, SetConsumerCursor
  <2>4. Channel!Receive
    BY <1>4, <2>3 DEF Channel!Receive, SetConsumerCursor, RingInvariant, TypeOK
  <2> QED BY <2>4
<1>5. CASE Next /\ ~Publish /\ ~SetConsumerCursor
  BY <1>1, <1>5 DEF Next, Producer, Consumer, BeginPublish, Claim, SetWord,
     BeginRead, PollEmpty, GetWord, vars
<1> QED BY <1>2, <1>3, <1>4, <1>5

(* The detailed ring implements the bounded FIFO channel of Size messages. *)
THEOREM RingImplementsChannel == Spec => ImplementsChannel
<1>1. Init => Channel!Init
  BY DEF Init, Channel!Init
<1>2. RingInvariant /\ [Next]_vars => [Channel!Next]_(Channel!channelVars)
  BY StepImplements
<1> QED BY <1>1, <1>2, RingInvariantHolds, PTL
        DEF Spec, ImplementsChannel, Channel!Spec

---------------------------------------------------------------------------
(* The dropping ring.                                                      *)

(* The slots of the first lap, and the slot one lap on.                    *)
LEMMA ModSmall ==
    ASSUME NEW n \in Nat \ {0}, NEW a \in 0..(n - 1)
    PROVE  a % n = a
  OBVIOUS

LEMMA ModLap ==
    ASSUME NEW n \in Nat \ {0}, NEW a \in Nat
    PROVE  (a + n) % n = a % n
<1>1. PICK qa \in Nat, ra \in 0..(n - 1) : a = n * qa + ra /\ ra = a % n
  BY DivMod
<1>2. a + n \in Nat
  OBVIOUS
<1>3. PICK qb \in Nat, rb \in 0..(n - 1) : a + n = n * qb + rb /\ rb = (a + n) % n
  BY <1>2, DivMod
<1>4. n * qa \in Int /\ n * qb \in Int /\ n * (qa + 1) = n * qa + n
  OBVIOUS
<1>5. CASE qb = qa + 1
  BY <1>1, <1>3, <1>4, <1>5
<1>6. CASE qb < qa + 1
  <2>1. n * qb + n <= n * (qa + 1)
    BY <1>6, LapAdds
  <2> QED BY <2>1, <1>1, <1>3, <1>4
<1>7. CASE qa + 1 < qb
  <2>1. n * (qa + 1) + n <= n * qb
    BY <1>7, LapAdds
  <2> QED BY <2>1, <1>1, <1>3, <1>4
<1> QED BY <1>5, <1>6, <1>7

LEMMA IndexSmall ==
    ASSUME NEW s \in Slots
    PROVE  Index(s) = s
  BY SizePositive, ModSmall DEF Index, Slots

LEMMA IndexLap ==
    ASSUME NEW s \in Nat
    PROVE  Index(s + Size) = Index(s)
<1>1. Size \in Nat \ {0}
  BY SizePositive
<1>2. (s + Size) % Size = s % Size
  BY <1>1, ModLap
<1> QED BY <1>2 DEF Index

---------------------------------------------------------------------------
(* The accepted quotes are the published ones and the one being written.   *)
LEMMA AcceptedType ==
    ASSUME BboTypeOK, BeingWritten
    PROVE  /\ Accepted \in Seq([Word -> Event])
           /\ pPc = "set" =>
                /\ Len(Accepted) = Len(published) + 1
                /\ \A w \in Word : Accepted[Len(published) + 1][w] = pEvent
           /\ \A i \in 1..Len(published) : Accepted[i] = published[i]
<1>1. CASE pPc = "set"
  <2>1. Whole(pEvent) \in [Word -> Event] /\ \A w \in Word : Whole(pEvent)[w] = pEvent
    BY <1>1 DEF BeingWritten, Whole
  <2> HIDE DEF Whole
  <2>2. Accepted = Append(published, Whole(pEvent)) /\ published \in Seq([Word -> Event])
    BY <1>1 DEF Accepted, BboTypeOK
  <2> QED BY <2>1, <2>2
<1>2. CASE pPc # "set"
  BY <1>2 DEF Accepted, BboTypeOK
<1> QED BY <1>1, <1>2

LEMMA InitBboInvariant == Init => BboInvariant
<1> SUFFICES ASSUME Init PROVE BboInvariant
  OBVIOUS
<1>1. BboTypeOK
  BY DEF Init, BboTypeOK, Whole, Content, Slots
<1>2. BboCursorsOrdered
  BY SizePositive DEF Init, BboCursorsOrdered, Accepted
<1>3. BeingWritten /\ BeingRead
  BY DEF Init, BeingWritten, BeingRead
<1>4. SlotsHoldLastLap
  BY DEF Init, SlotsHoldLastLap, Slots
<1>5. DamageIsOneLapOld
  BY DEF Init, DamageIsOneLapOld, Accepted
<1> QED BY <1>1, <1>2, <1>3, <1>4, <1>5 DEF BboInvariant

(* try_next(): the cursor moves first; the slot it uncovers still holds    *)
(* the quote of the lap before.                                            *)
LEMMA TryNextStep ==
    ASSUME BboInvariant, NEW e \in Event, TryNext(e)
    PROVE  BboInvariant'
<1> USE DEF BboInvariant
<1>1. /\ pPc = "idle" /\ cursor' = cursor + 1 /\ pSeq' = cursor + 1
      /\ pEvent' = e /\ pPc' = "set" /\ pLeft' = Word
      /\ slot' = slot /\ consumerCursor' = consumerCursor
      /\ published' = published /\ consumed' = consumed
      /\ UNCHANGED consumerVars
  BY DEF TryNext
<1>2. cursor + 1 - Size <= consumerCursor
  BY SizePositive DEF TryNext, HasRoom, BboTypeOK
<1>3. /\ Accepted = published /\ Accepted' = Append(published, Whole(e))
      /\ Whole(e) \in [Word -> Event]
  BY <1>1 DEF Accepted, Whole
<1>4. /\ Len(Accepted') = cursor + 2
      /\ \A i \in 1..(cursor + 1) : Accepted'[i] = Accepted[i]
      /\ cursor \in Int /\ cursor >= -1 /\ consumerCursor \in Int
      /\ consumerCursor >= -1
  BY <1>3 DEF BboTypeOK, BboCursorsOrdered
<1>5. ASSUME NEW i \in 1..(cursor + 1), NEW w \in Word
      PROVE  MayBeRead(i, w)' = MayBeRead(i, w)
  <2>1. i > Size => i - Size \in 1..(cursor + 1)
    BY SizePositive, <1>4
  <2> QED BY <2>1, <1>4 DEF MayBeRead, OneLapBefore
<1>6. BboTypeOK'
  BY <1>1, <1>4 DEF BboTypeOK, consumerVars
<1>7. BboCursorsOrdered'
  BY <1>1, <1>2, <1>4, SizePositive DEF BboCursorsOrdered
<1>8. BeingWritten'
  <2> SUFFICES ASSUME NEW w \in Word
               PROVE  slot[Index(cursor + 1)][w] = OneLapBefore(cursor + 1, w)'
    BY <1>1, <1>4 DEF BeingWritten
  <2>1. CASE cursor + 2 > Size
    <3>1. PICK s \in 0..cursor : s = cursor + 1 - Size
      BY <2>1, <1>4, SizePositive
    <3>2. slot[Index(s)] = Accepted[s + 1]
      BY <3>1, <1>1, <1>4, SizePositive DEF SlotsHoldLastLap
    <3>3. Index(cursor + 1) = Index(s)
      BY <3>1, <1>4, SizePositive, IndexLap
    <3>4. OneLapBefore(cursor + 1, w)' = Accepted'[s + 1][w]
      BY <2>1, <3>1, <1>1, <1>4, SizePositive DEF OneLapBefore
    <3> QED BY <3>1, <3>2, <3>3, <3>4, <1>4
  <2>2. CASE cursor + 2 <= Size
    <3>1. cursor + 1 \in Slots /\ Index(cursor + 1) = cursor + 1
      BY <2>2, <1>4, SizePositive, IndexSmall DEF Slots
    <3>2. slot[cursor + 1] = Whole(Blank)
      BY <3>1, <1>4 DEF SlotsHoldLastLap
    <3>3. OneLapBefore(cursor + 1, w)' = Blank
      BY <2>2, <1>1, <1>4, SizePositive DEF OneLapBefore
    <3> QED BY <3>1, <3>2, <3>3 DEF Whole
  <2> QED BY <2>1, <2>2, <1>4, SizePositive
<1>9. SlotsHoldLastLap'
  <2>1. ASSUME NEW s \in 0..(cursor + 1), cursor + 1 < s + Size, s # cursor + 1
        PROVE  slot[Index(s)] = Accepted'[s + 1]
    <3>1. s \in 0..cursor /\ cursor < s + Size
      BY <2>1, <1>4, SizePositive
    <3>2. slot[Index(s)] = Accepted[s + 1]
      BY <3>1, <1>1 DEF SlotsHoldLastLap
    <3> QED BY <3>1, <3>2, <1>4
  <2>2. ASSUME NEW i \in Slots, i > cursor + 1
        PROVE  slot[i] = Whole(Blank)
    <3>1. i > cursor
      BY <2>2, <1>4, SizePositive DEF Slots
    <3> QED BY <3>1 DEF SlotsHoldLastLap
  <2> QED BY <2>1, <2>2, <1>1 DEF SlotsHoldLastLap
<1>10. BeingRead'
  <2> SUFFICES ASSUME cPc = "get" PROVE BeingRead'
    BY <1>1 DEF BeingRead, consumerVars
  <2>1. cSeq + 1 \in 1..(cursor + 1) /\ cSeq <= cursor + 1
    BY <1>4 DEF BeingRead
  <2> QED BY <2>1, <1>1, <1>5 DEF BeingRead, consumerVars
<1>11. DamageIsOneLapOld'
  BY <1>1, <1>4, <1>5 DEF DamageIsOneLapOld, BboCursorsOrdered
<1> QED BY <1>6, <1>7, <1>8, <1>9, <1>10, <1>11

(* A step that neither accepts a quote nor reads one keeps what may be     *)
(* read.                                                                   *)
LEMMA SameAccepted ==
    ASSUME Accepted' = Accepted, NEW i, NEW w \in Word
    PROVE  /\ MayBeRead(i, w)' = MayBeRead(i, w)
           /\ OneLapBefore(i, w)' = OneLapBefore(i, w)
  BY DEF MayBeRead, OneLapBefore

LEMMA BboSetWordStep ==
    ASSUME BboInvariant, NEW w \in Word, SetWord(w)
    PROVE  BboInvariant'
<1> USE DEF BboInvariant
<1>1. /\ pPc = "set" /\ pSeq = cursor /\ cursor \in Nat /\ pEvent \in Event
      /\ Index(cursor) \in Slots
  BY IndexRange DEF SetWord, BeingWritten, BboTypeOK
<1>2. /\ slot' = [slot EXCEPT ![Index(cursor)][w] = pEvent]
      /\ pLeft' = pLeft \ {w} /\ w \in pLeft
      /\ UNCHANGED <<cursor, consumerCursor, pPc, pSeq, pEvent, consumerVars,
                     published, consumed>>
  BY <1>1 DEF SetWord
<1>3. Accepted' = Accepted
  BY <1>2 DEF Accepted
<1>4. BboTypeOK'
  <2>1. slot' \in [Slots -> Content]
    BY <1>1, <1>2 DEF BboTypeOK, Content
  <2> QED BY <2>1, <1>2 DEF BboTypeOK, consumerVars
<1>5. BboCursorsOrdered'
  BY <1>2, <1>3 DEF BboCursorsOrdered
<1>6. BeingWritten'
  <2>1. slot[Index(cursor)] \in Content
    BY <1>1 DEF BboTypeOK
  <2>2. slot'[Index(cursor)] = [slot[Index(cursor)] EXCEPT ![w] = pEvent]
    BY <1>1, <1>2 DEF BboTypeOK
  <2>3. ASSUME NEW v \in Word
        PROVE  slot'[Index(cursor)][v] =
                 IF v \in pLeft' THEN OneLapBefore(cursor + 1, v)' ELSE pEvent
    BY <1>1, <1>2, <1>3, <2>1, <2>2, SameAccepted DEF BeingWritten, Content
  <2> QED BY <1>1, <1>2, <2>3 DEF BeingWritten
<1>7. SlotsHoldLastLap'
  <2>1. ASSUME NEW s \in 0..cursor, cursor < s + Size, s # cursor
        PROVE  slot'[Index(s)] = Accepted[s + 1]
    <3>1. s \in Nat /\ s < cursor /\ Index(s) \in Slots
      BY <2>1, <1>1, IndexRange
    <3>2. Index(s) # Index(cursor)
      BY <2>1, <3>1, <1>1, IndexInjective
    <3>3. slot'[Index(s)] = slot[Index(s)]
      BY <3>1, <3>2, <1>1, <1>2 DEF BboTypeOK
    <3> QED BY <3>3, <2>1, <1>1 DEF SlotsHoldLastLap
  <2>2. ASSUME NEW i \in Slots, i > cursor
        PROVE  slot'[i] = Whole(Blank)
    <3>1. cursor \in Slots
      BY <2>2, <1>1, SizePositive DEF Slots
    <3>2. i # Index(cursor)
      BY <3>1, <2>2, <1>1, IndexSmall DEF Slots
    <3> QED BY <3>2, <2>2, <1>1, <1>2 DEF SlotsHoldLastLap, BboTypeOK
  <2> QED BY <2>1, <2>2, <1>1, <1>2, <1>3 DEF SlotsHoldLastLap
<1>8. BeingRead'
  BY <1>2, <1>3, SameAccepted DEF BeingRead, consumerVars
<1>9. DamageIsOneLapOld'
  BY <1>2, <1>3, SameAccepted DEF DamageIsOneLapOld
<1> QED BY <1>4, <1>5, <1>6, <1>7, <1>8, <1>9

LEMMA BboPublishStep ==
    ASSUME BboInvariant, Publish
    PROVE  BboInvariant'
<1> USE DEF BboInvariant
<1>1. /\ pPc = "set" /\ pLeft = {} /\ pPc' = "idle" /\ cursor' = pSeq
      /\ pSeq = cursor /\ cursor \in Nat /\ pEvent \in Event
      /\ published' = Append(published, Whole(pEvent))
      /\ UNCHANGED <<consumerCursor, slot, pSeq, pEvent, pLeft, consumerVars,
                     consumed>>
  BY DEF Publish, BeingWritten, BboTypeOK
<1>2. Whole(pEvent) \in [Word -> Event]
  BY <1>1 DEF Whole
<1>3. Accepted' = Accepted
  BY <1>1 DEF Accepted
<1>4. BboTypeOK'
  BY <1>1, <1>2 DEF BboTypeOK, consumerVars
<1>5. BboCursorsOrdered'
  BY <1>1, <1>3 DEF BboCursorsOrdered
<1>6. BeingWritten'
  BY <1>1 DEF BeingWritten
<1>7. SlotsHoldLastLap'
  <2>1. slot[Index(cursor)] = Accepted[cursor + 1]
    <3>1. slot[Index(cursor)] \in Content
      BY <1>1, IndexRange DEF BboTypeOK
    <3>2. \A w \in Word : slot[Index(cursor)][w] = pEvent
      BY <1>1 DEF BeingWritten
    <3>3. slot[Index(cursor)] = Whole(pEvent)
      BY <3>1, <3>2 DEF Content, Whole
    <3>4. Accepted = Append(published, Whole(pEvent)) /\ Len(Accepted) = cursor + 1
      BY <1>1 DEF Accepted, BboCursorsOrdered
    <3> QED BY <3>3, <3>4, <1>2 DEF BboTypeOK
  <2> QED BY <2>1, <1>1, <1>3 DEF SlotsHoldLastLap
<1>8. BeingRead'
  BY <1>1, <1>3, SameAccepted DEF BeingRead, consumerVars
<1>9. DamageIsOneLapOld'
  BY <1>1, <1>3, SameAccepted DEF DamageIsOneLapOld
<1> QED BY <1>4, <1>5, <1>6, <1>7, <1>8, <1>9

LEMMA BboBeginReadStep ==
    ASSUME BboInvariant, BeginRead
    PROVE  BboInvariant'
<1> USE DEF BboInvariant, BeginRead, ringVars, producerVars
<1>1. Accepted' = Accepted
  BY DEF Accepted
<1>2. BboTypeOK'
  BY DEF BboTypeOK
<1>3. BboCursorsOrdered'
  BY <1>1 DEF BboCursorsOrdered
<1>4. BeingWritten'
  BY <1>1, SameAccepted DEF BeingWritten
<1>5. SlotsHoldLastLap'
  BY <1>1 DEF SlotsHoldLastLap
<1>6. BeingRead'
  BY DEF BeingRead, IsAvailable
<1>7. DamageIsOneLapOld'
  BY <1>1, SameAccepted DEF DamageIsOneLapOld
<1> QED BY <1>2, <1>3, <1>4, <1>5, <1>6, <1>7

(* The copy out of a slot reads the accepted quote or the lap before it.   *)
LEMMA BboGetWordStep ==
    ASSUME BboInvariant, NEW w \in Word, GetWord(w)
    PROVE  BboInvariant'
<1> USE DEF BboInvariant
<1>1. /\ cPc = "get" /\ w \in cLeft
      /\ cBuf' = [cBuf EXCEPT ![w] = slot[Index(cSeq)][w]]
      /\ cLeft' = cLeft \ {w}
      /\ UNCHANGED <<cPc, cSeq, ringVars, producerVars, published, consumed>>
  BY DEF GetWord
<1>2. /\ cSeq = consumerCursor + 1 /\ cSeq \in 0..cursor /\ cursor < cSeq + Size
      /\ Index(cSeq) \in Slots /\ cursor \in Nat
  <2>1. cSeq = consumerCursor + 1 /\ cSeq <= cursor
    BY <1>1 DEF BeingRead
  <2>2. cSeq \in Nat /\ cursor \in Nat /\ cursor < cSeq + Size
    BY <2>1, SizePositive DEF BboTypeOK, BboCursorsOrdered
  <2> QED BY <2>1, <2>2, IndexRange
<1>3. Accepted' = Accepted
  BY <1>1 DEF Accepted, producerVars
<1>4. slot[Index(cSeq)][w] \in MayBeRead(cSeq + 1, w)
  <2>1. CASE pPc = "set" /\ cSeq = cursor
    <3>1. slot[Index(cSeq)][w] \in {pEvent, OneLapBefore(cSeq + 1, w)}
      BY <2>1 DEF BeingWritten
    <3>2. Accepted[cSeq + 1][w] = pEvent
      BY <2>1, <1>2, AcceptedType DEF BboCursorsOrdered, BboTypeOK
    <3> QED BY <3>1, <3>2 DEF MayBeRead
  <2>2. CASE ~(pPc = "set" /\ cSeq = cursor)
    <3>1. slot[Index(cSeq)] = Accepted[cSeq + 1]
      BY <2>2, <1>2 DEF SlotsHoldLastLap
    <3> QED BY <3>1 DEF MayBeRead
  <2> QED BY <2>1, <2>2
<1>5. BboTypeOK'
  <2>1. slot[Index(cSeq)][w] \in Event \cup {Blank}
    BY <1>2 DEF BboTypeOK, Content
  <2>2. cBuf' \in Content
    BY <2>1, <1>1 DEF BboTypeOK, Content
  <2> QED BY <2>2, <1>1 DEF BboTypeOK, ringVars, producerVars
<1>6. BboCursorsOrdered'
  BY <1>1, <1>3 DEF BboCursorsOrdered, ringVars
<1>7. BeingWritten'
  BY <1>1, <1>3, SameAccepted DEF BeingWritten, ringVars, producerVars
<1>8. SlotsHoldLastLap'
  BY <1>1, <1>3 DEF SlotsHoldLastLap, ringVars, producerVars
<1>9. BeingRead'
  <2>1. ASSUME NEW v \in Word \ cLeft'
        PROVE  cBuf'[v] \in MayBeRead(cSeq + 1, v)
    <3>1. CASE v = w
      BY <3>1, <1>1, <1>4 DEF BboTypeOK, Content
    <3>2. CASE v # w
      BY <3>2, <1>1 DEF BboTypeOK, Content, BeingRead
    <3> QED BY <3>1, <3>2
  <2> QED BY <2>1, <1>1, <1>2, <1>3, SameAccepted DEF BeingRead, ringVars
<1>10. DamageIsOneLapOld'
  BY <1>1, <1>3, SameAccepted DEF DamageIsOneLapOld
<1> QED BY <1>5, <1>6, <1>7, <1>8, <1>9, <1>10

LEMMA BboSetConsumerCursorStep ==
    ASSUME BboInvariant, SetConsumerCursor
    PROVE  BboInvariant'
<1> USE DEF BboInvariant
<1>1. /\ cPc = "get" /\ cLeft = {} /\ cPc' = "idle" /\ consumerCursor' = cSeq
      /\ consumed' = Append(consumed, cBuf)
      /\ UNCHANGED <<cursor, slot, cSeq, cBuf, cLeft, producerVars, published>>
  BY DEF SetConsumerCursor
<1>2. /\ cSeq = consumerCursor + 1 /\ cSeq <= cursor
      /\ \A w \in Word : cBuf[w] \in MayBeRead(cSeq + 1, w)
      /\ cBuf \in Content /\ consumed \in Seq(Content)
  BY <1>1 DEF BeingRead, BboTypeOK
<1>3. /\ Len(consumed') = Len(consumed) + 1
      /\ consumed'[Len(consumed) + 1] = cBuf
      /\ \A i \in 1..Len(consumed) : consumed'[i] = consumed[i]
  BY <1>1, <1>2
<1>4. Accepted' = Accepted
  BY <1>1 DEF Accepted, producerVars
<1>5. BboTypeOK'
  BY <1>1, <1>2 DEF BboTypeOK, producerVars
<1>6. BboCursorsOrdered'
  BY <1>1, <1>2, <1>3, <1>4, SizePositive DEF BboCursorsOrdered, BboTypeOK
<1>7. BeingWritten'
  BY <1>1, <1>4, SameAccepted DEF BeingWritten, producerVars
<1>8. SlotsHoldLastLap'
  BY <1>1, <1>4 DEF SlotsHoldLastLap, producerVars
<1>9. BeingRead'
  BY <1>1 DEF BeingRead
<1>10. DamageIsOneLapOld'
  <2>1. Len(consumed') <= Len(Accepted)
    BY <1>2, <1>3 DEF BboCursorsOrdered, BboTypeOK
  <2>2. ASSUME NEW i \in 1..Len(consumed'), NEW w \in Word
        PROVE  consumed'[i][w] \in MayBeRead(i, w)
    <3>1. CASE i = Len(consumed) + 1
      BY <3>1, <1>2, <1>3 DEF BboCursorsOrdered, BboTypeOK
    <3>2. CASE i # Len(consumed) + 1
      <4>1. i \in 1..Len(consumed)
        BY <3>2, <1>2, <1>3
      <4> QED BY <4>1, <1>3 DEF DamageIsOneLapOld
    <3> QED BY <3>1, <3>2
  <2> QED BY <2>1, <2>2, <1>4, SameAccepted DEF DamageIsOneLapOld
<1> QED BY <1>5, <1>6, <1>7, <1>8, <1>9, <1>10

LEMMA BboStepInvariant ==
    ASSUME BboInvariant, [BboNext]_vars
    PROVE  BboInvariant'
<1>1. CASE UNCHANGED vars
  <2> USE <1>1 DEF vars, ringVars, producerVars, consumerVars
  <2>1. Accepted' = Accepted
    BY DEF Accepted
  <2>2. BboTypeOK' /\ BboCursorsOrdered' /\ SlotsHoldLastLap'
    BY <2>1 DEF BboInvariant, BboTypeOK, BboCursorsOrdered, SlotsHoldLastLap
  <2>3. BeingWritten' /\ BeingRead' /\ DamageIsOneLapOld'
    BY <2>1, SameAccepted DEF BboInvariant, BeingWritten, BeingRead, DamageIsOneLapOld
  <2> QED BY <2>2, <2>3 DEF BboInvariant
<1>2. CASE BboProducer
  BY <1>1, <1>2, TryNextStep, BboSetWordStep, BboPublishStep
     DEF BboProducer, TryNextFull
<1>3. CASE Consumer
  BY <1>1, <1>3, BboBeginReadStep, BboGetWordStep, BboSetConsumerCursorStep
     DEF Consumer, PollEmpty
<1> QED BY <1>1, <1>2, <1>3 DEF BboNext

---------------------------------------------------------------------------
(* Cursors, slots of two laps, a write and a read in progress agree in     *)
(* every reachable state, though the cursor runs ahead of the copy.        *)
THEOREM BboInvariantHolds == BboSpec => []BboInvariant
<1>1. BboInvariant /\ [BboNext]_vars => BboInvariant'
  BY BboStepInvariant
<1> QED BY <1>1, InitBboInvariant, PTL DEF BboSpec

(* poll() returns one value per accepted quote and each of its words is    *)
(* the quote's or the one the slot held a lap before: no other mixture.    *)
THEOREM DamageIsOneLapOldHolds == BboSpec => []DamageIsOneLapOld
<1>1. BboInvariant => DamageIsOneLapOld
  BY DEF BboInvariant
<1> QED BY <1>1, BboInvariantHolds, PTL

(* A quote whose copy is complete stays intact until it is read.           *)
THEOREM SettledIntactHolds == BboSpec => []SettledIntact
<1>1. BboInvariant => SettledIntact
  <2> SUFFICES ASSUME BboInvariant,
                      NEW s \in (consumerCursor + 1)..cursor,
                      pPc = "set" => s # pSeq
               PROVE  slot[Index(s)] = published[s + 1]
    BY DEF SettledIntact
  <2> USE DEF BboInvariant
  <2>1. s \in 0..cursor /\ cursor < s + Size /\ (pPc = "set" => s # cursor)
    BY SizePositive DEF BboTypeOK, BboCursorsOrdered, BeingWritten
  <2>2. slot[Index(s)] = Accepted[s + 1]
    BY <2>1 DEF SlotsHoldLastLap
  <2>3. s + 1 \in 1..Len(published)
    <3>1. CASE pPc = "set"
      BY <3>1, <2>1, AcceptedType DEF BboCursorsOrdered, BboTypeOK
    <3>2. CASE pPc # "set"
      BY <3>2, <2>1 DEF Accepted, BboCursorsOrdered, BboTypeOK
    <3> QED BY <3>1, <3>2
  <2> QED BY <2>2, <2>3, AcceptedType
<1> QED BY <1>1, BboInvariantHolds, PTL

(* The dropping publisher never has more quotes in flight than slots.      *)
THEOREM NeverOverfullHolds == BboSpec => []NeverOverfull
<1>1. BboInvariant => NeverOverfull
  BY SizePositive DEF BboInvariant, BboCursorsOrdered, BboTypeOK, NeverOverfull
<1> QED BY <1>1, BboInvariantHolds, PTL
============================================================================
