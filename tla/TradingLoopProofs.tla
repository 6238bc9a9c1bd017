------------------------- MODULE TradingLoopProofs -------------------------
(***************************************************************************)
(* For every size of the rings, every quote size and limit, and whatever   *)
(* the network does to reads and to the connection: the types of both      *)
(* loops, the order of orders on the wire and, when a read returns one     *)
(* report, the order of fills up to the position tracker and the ledger    *)
(* that no fill is missing from.                                           *)
(***************************************************************************)
EXTENDS TradingLoop, TLAPS, SequenceTheorems, WellFoundedInduction, NaturalsInduction,
        FiniteSetTheorems

---------------------------------------------------------------------------
(* Decoding a read gives a fill, whatever bytes the read returned.         *)

(* A set of positions of a sequence has a last one.                        *)
LEMMA MaxExists ==
    ASSUME NEW n \in Nat, NEW S \in SUBSET (1..n), S # {}
    PROVE  Max(S) \in S
<1> DEFINE T == {n - x : x \in S}
           Below == {ss \in Nat \X Nat : ss[1] < ss[2]}
<1>1. \A t \in T : t \in Nat
  OBVIOUS
<1>2. T # {}
  OBVIOUS
<1>3. IsWellFoundedOn(Below, Nat)
  BY NatLessThanWellFounded DEF OpToRel
<1>4. PICK t \in T : \A u \in T : <<u, t>> \notin Below
  BY <1>1, <1>2, <1>3, WFMin
<1>5. \A u \in T : ~(u < t)
  BY <1>1, <1>4
<1>6. PICK x \in S : t = n - x
  OBVIOUS
<1>7. \A y \in S : x >= y
  BY <1>5, <1>6
<1> QED BY <1>7 DEF Max

LEMMA OnlyIn ==
    ASSUME NEW S, S # {} PROVE Only(S) \in S
BY DEF Only

LEMMA LastFieldTyped ==
    ASSUME NEW bytes \in Seq(Piece), NEW default
    PROVE  /\ \/ LastField(bytes, "id", default) = default
              \/ LastField(bytes, "id", default) \in SUBSET Nat
           /\ \/ LastField(bytes, "side", default) = default
              \/ LastField(bytes, "side", default) \in (SUBSET {"B", "S"}) \ {{}}
           /\ \/ LastField(bytes, "qty", default) = default
              \/ LastField(bytes, "qty", default) \in (SUBSET Nat) \ {{}}
<1>1. Len(bytes) \in Nat /\ DOMAIN bytes = 1..Len(bytes)
  BY LenProperties
<1>2. \A i \in 1..Len(bytes) : bytes[i] \in Piece
  BY ElementOfSeq
<1> DEFINE at(field) == {i \in DOMAIN bytes : bytes[i][field] # {}}
<1>3. ASSUME NEW field, at(field) # {}
      PROVE  Max(at(field)) \in 1..Len(bytes) /\ bytes[Max(at(field))][field] # {}
  <2>1. Max(at(field)) \in at(field)
    BY <1>1, <1>3, MaxExists
  <2> QED BY <1>1, <2>1
<1>4. LastField(bytes, "id", default) = default
        \/ LastField(bytes, "id", default) \in SUBSET Nat
  BY <1>2, <1>3 DEF LastField, Piece
<1>5. LastField(bytes, "side", default) = default
        \/ LastField(bytes, "side", default) \in (SUBSET {"B", "S"}) \ {{}}
  BY <1>2, <1>3 DEF LastField, Piece
<1>6. LastField(bytes, "qty", default) = default
        \/ LastField(bytes, "qty", default) \in (SUBSET Nat) \ {{}}
  BY <1>2, <1>3 DEF LastField, Piece
<1> QED BY <1>4, <1>5, <1>6

LEMMA DecodedIsFill ==
    ASSUME NEW bytes \in Seq(Piece) PROVE Decode(bytes) \in Fill
<1>1. LastField(bytes, "id", {}) \in SUBSET Nat
  <2>1. {} \in SUBSET Nat
    OBVIOUS
  <2> QED BY <2>1, LastFieldTyped
<1>2. LastField(bytes, "side", {"B"}) \in (SUBSET {"B", "S"}) \ {{}}
  <2>1. {"B"} \in (SUBSET {"B", "S"}) \ {{}}
    OBVIOUS
  <2> QED BY <2>1, LastFieldTyped
<1>3. LastField(bytes, "qty", {0}) \in (SUBSET Nat) \ {{}}
  <2>1. {0} \in (SUBSET Nat) \ {{}}
    OBVIOUS
  <2> QED BY <2>1, LastFieldTyped
<1>4. Only(LastField(bytes, "side", {"B"})) \in {"B", "S"}
  BY <1>2, OnlyIn
<1>5. Only(LastField(bytes, "qty", {0})) \in Nat
  BY <1>3, OnlyIn
<1> QED BY <1>1, <1>4, <1>5 DEF Decode, Fill

---------------------------------------------------------------------------
(* Types.  Two facts make them inductive: ids are odd exactly between the  *)
(* two orders of a pair, so that a pair that starts within the bound ends  *)
(* within it; and the engine writes only what it took from the ring.       *)

MakerTypeOK ==
    /\ mmPc \in {"fills", "bbo", "B", "S"} /\ position \in Int
    /\ orderSeq \in 0..(2 * MaxPairs)
    /\ orderSeq % 2 = IF mmPc = "S" THEN 1 ELSE 0
    /\ mmPc = "B" => orderSeq < 2 * MaxPairs

RingsTypeOK ==
    /\ orderRing \in Seq(Order) /\ Len(orderRing) <= OrderSlots
    /\ fillRing \in Seq(Fill) /\ Len(fillRing) <= FillSlots

EngineTypeOK ==
    /\ enPc \in {"order", "write", "reports", "publish"}
    /\ enOrder \in Order \cup {Logon} /\ enFill \in Fill
    /\ enPc = "write" => enOrder \in Order
    /\ wire \in Seq(Order)

NetTypeOK ==
    /\ connected \in BOOLEAN
    /\ toExchange \in Seq(Order \cup {Logon}) /\ fromExchange \in Seq(Piece)
    /\ executed \in Seq(Order)

LoopTypes == MakerTypeOK /\ RingsTypeOK /\ EngineTypeOK /\ NetTypeOK

LEMMA LoopTypesTyped == LoopTypes => TypeOK
BY DEF LoopTypes, MakerTypeOK, RingsTypeOK, EngineTypeOK, NetTypeOK, TypeOK

LEMMA BookedTyped ==
    ASSUME NEW fill \in Fill, position \in Int PROVE BookFill(fill) \in Int
BY DEF Fill, BookFill, Signed

LEMMA AnswerTyped ==
    ASSUME NEW msg \in Order \cup {Logon} PROVE Answer(msg) \in Seq(Piece)
<1>1. QuoteSize \in Nat
  BY LoopAssumption
<1>2. CASE msg = Logon
  BY <1>2 DEF Answer, LogonPiece, Piece
<1>3. CASE msg # Logon
  <2>1. NamePiece(msg) \in Piece /\ QtyPiece(QuoteSize) \in Piece
    BY <1>1, <1>3 DEF NamePiece, QtyPiece, Piece, Order
  <2> QED BY <1>3, <2>1 DEF Answer
<1> QED BY <1>2, <1>3

LEMMA TypesStep ==
    ASSUME LoopTypes, Next PROVE LoopTypes'
<1>. /\ MakerTypeOK /\ RingsTypeOK /\ EngineTypeOK /\ NetTypeOK
     /\ MaxPairs \in Nat
  BY LoopAssumption DEF LoopTypes
<1>1. CASE ReadFill
  <2>1. Head(fillRing) \in Fill /\ Tail(fillRing) \in Seq(Fill)
        /\ Len(Tail(fillRing)) = Len(fillRing) - 1 /\ Len(fillRing) \in Nat
    BY <1>1, HeadTailProperties, LenProperties DEF ReadFill, RingsTypeOK
  <2>2. position' \in Int
    BY <1>1, <2>1, BookedTyped DEF ReadFill, MakerTypeOK
  <2>3. MakerTypeOK'
    BY <1>1, <2>2 DEF ReadFill, MakerTypeOK
  <2>4. RingsTypeOK'
    <3>1. FillSlots \in Nat
      BY LoopAssumption
    <3> QED BY <1>1, <2>1, <3>1 DEF ReadFill, RingsTypeOK
  <2> QED BY <1>1, <2>3, <2>4 DEF ReadFill, LoopTypes, EngineTypeOK, NetTypeOK,
                                  engineVars, netVars
<1>2. CASE FillsDone
  BY <1>2 DEF FillsDone, LoopTypes, MakerTypeOK, RingsTypeOK, EngineTypeOK, NetTypeOK,
              engineVars, netVars
<1>3. CASE NoQuote
  BY <1>3 DEF NoQuote, LoopTypes, MakerTypeOK, RingsTypeOK, EngineTypeOK, NetTypeOK,
              engineVars, netVars
<1>4. CASE StartPair
  BY <1>4 DEF StartPair, LoopTypes, MakerTypeOK, RingsTypeOK, EngineTypeOK, NetTypeOK,
              engineVars, netVars
<1>5. CASE SendOrder
  <2> DEFINE o == [id |-> orderSeq, side |-> mmPc]
  <2>1. o \in Order
    BY <1>5 DEF SendOrder, MakerTypeOK, Order
  <2>2. RingsTypeOK'
    <3>1. Append(orderRing, o) \in Seq(Order)
          /\ Len(Append(orderRing, o)) = Len(orderRing) + 1 /\ Len(orderRing) \in Nat
      BY <2>1, AppendProperties, LenProperties DEF RingsTypeOK
    <3>2. OrderSlots \in Nat
      BY LoopAssumption
    <3> QED BY <1>5, <3>1, <3>2 DEF SendOrder, RingsTypeOK
  <2>3. MakerTypeOK'
    <3>1. orderSeq \in Nat /\ orderSeq <= 2 * MaxPairs /\ orderSeq' = orderSeq + 1
      BY <1>5 DEF SendOrder, MakerTypeOK
    <3>2. orderSeq < 2 * MaxPairs
      <4>1. CASE mmPc = "B"
        BY <4>1 DEF MakerTypeOK
      <4>2. CASE mmPc = "S"
        BY <3>1, <4>2 DEF MakerTypeOK
      <4> QED BY <1>5, <4>1, <4>2 DEF SendOrder
    <3>3. CASE mmPc = "B"
      BY <1>5, <3>1, <3>2, <3>3 DEF SendOrder, MakerTypeOK
    <3>4. CASE mmPc = "S"
      BY <1>5, <3>1, <3>2, <3>4 DEF SendOrder, MakerTypeOK
    <3> QED BY <1>5, <3>3, <3>4 DEF SendOrder
  <2> QED BY <1>5, <2>2, <2>3 DEF SendOrder, LoopTypes, EngineTypeOK, NetTypeOK,
                                  engineVars, netVars
<1>6. CASE TakeOrder
  <2>1. Head(orderRing) \in Order /\ Tail(orderRing) \in Seq(Order)
        /\ Len(Tail(orderRing)) = Len(orderRing) - 1 /\ Len(orderRing) \in Nat
    BY <1>6, HeadTailProperties, LenProperties DEF TakeOrder, RingsTypeOK
  <2>2. RingsTypeOK'
    <3>1. OrderSlots \in Nat
      BY LoopAssumption
    <3> QED BY <1>6, <2>1, <3>1 DEF TakeOrder, RingsTypeOK
  <2> QED BY <1>6, <2>1, <2>2 DEF TakeOrder, LoopTypes, MakerTypeOK, EngineTypeOK,
                                  NetTypeOK, makerVars, netVars
<1>7. CASE NoOrder
  BY <1>7 DEF NoOrder, LoopTypes, MakerTypeOK, RingsTypeOK, EngineTypeOK, NetTypeOK,
              makerVars, netVars
<1>8. CASE WriteOrder
  <2>1. enOrder \in Order
    BY <1>8 DEF WriteOrder, EngineTypeOK
  <2>2. Append(wire, enOrder) \in Seq(Order)
        /\ Append(toExchange, enOrder) \in Seq(Order \cup {Logon})
    BY <2>1, AppendProperties DEF EngineTypeOK, NetTypeOK
  <2> QED BY <1>8, <2>2 DEF WriteOrder, LoopTypes, MakerTypeOK, RingsTypeOK,
                            EngineTypeOK, NetTypeOK, makerVars
<1>9. CASE WriteFails
  BY <1>9 DEF WriteFails, LoopTypes, MakerTypeOK, RingsTypeOK, EngineTypeOK, NetTypeOK,
              makerVars, netVars
<1>10. CASE ReadReports
  <2>1. PICK n \in 1..Len(fromExchange) :
             /\ enFill' = Decode(SubSeq(fromExchange, 1, n))
             /\ fromExchange' = SubSeq(fromExchange, n + 1, Len(fromExchange))
    BY <1>10 DEF ReadReports
  <2>2. Len(fromExchange) \in Nat
        /\ \A i \in 1..Len(fromExchange) : fromExchange[i] \in Piece
    BY LenProperties, ElementOfSeq DEF NetTypeOK
  <2>3. SubSeq(fromExchange, 1, n) \in Seq(Piece)
    BY <2>2, SubSeqProperties
  <2>4. fromExchange' \in Seq(Piece)
    BY <2>1, <2>2, SubSeqProperties
  <2>5. enFill' \in Fill
    BY <2>1, <2>3, DecodedIsFill
  <2> QED BY <1>10, <2>4, <2>5 DEF ReadReports, LoopTypes, MakerTypeOK, RingsTypeOK,
                                   EngineTypeOK, NetTypeOK, makerVars
<1>11. CASE NoReports
  BY <1>11 DEF NoReports, LoopTypes, MakerTypeOK, RingsTypeOK, EngineTypeOK, NetTypeOK,
               makerVars, netVars
<1>12. CASE PublishFill
  <2>1. RingsTypeOK'
    <3>1. Append(fillRing, enFill) \in Seq(Fill)
          /\ Len(Append(fillRing, enFill)) = Len(fillRing) + 1 /\ Len(fillRing) \in Nat
      BY AppendProperties, LenProperties DEF RingsTypeOK, EngineTypeOK
    <3>2. FillSlots \in Nat
      BY LoopAssumption
    <3> QED BY <1>12, <3>1, <3>2 DEF PublishFill, RingsTypeOK
  <2> QED BY <1>12, <2>1 DEF PublishFill, LoopTypes, MakerTypeOK, EngineTypeOK,
                             NetTypeOK, makerVars, netVars
<1>13. CASE HandleMessage
  <2>1. Head(toExchange) \in Order \cup {Logon}
        /\ Tail(toExchange) \in Seq(Order \cup {Logon})
    BY <1>13, HeadTailProperties DEF HandleMessage, NetTypeOK
  <2>2. fromExchange' \in Seq(Piece)
    BY <1>13, <2>1, AnswerTyped, ConcatProperties DEF HandleMessage, NetTypeOK
  <2>3. executed' \in Seq(Order)
    BY <1>13, <2>1, AppendProperties DEF HandleMessage, NetTypeOK
  <2> QED BY <1>13, <2>1, <2>2, <2>3
          DEF HandleMessage, LoopTypes, MakerTypeOK, RingsTypeOK, EngineTypeOK,
              NetTypeOK, makerVars, engineVars
<1>14. CASE Disconnect
  <2>1. connected' \in BOOLEAN
    BY <1>14 DEF Disconnect
  <2> QED BY <1>14, <2>1
          DEF Disconnect, LoopTypes, MakerTypeOK, RingsTypeOK, EngineTypeOK, NetTypeOK,
              makerVars, engineVars
<1> QED
  BY <1>1, <1>2, <1>3, <1>4, <1>5, <1>6, <1>7, <1>8, <1>9, <1>10, <1>11, <1>12, <1>13,
     <1>14
  DEF Next, MarketMaker, Engine

LEMMA InitTyped == Init => LoopTypes
<1> SUFFICES ASSUME Init PROVE LoopTypes
  OBVIOUS
<1>1. MakerTypeOK
  BY LoopAssumption DEF Init, MakerTypeOK
<1>2. RingsTypeOK
  BY LoopAssumption DEF Init, RingsTypeOK
<1>3. EngineTypeOK
  BY DEF Init, EngineTypeOK, NoFill, Fill
<1>4. NetTypeOK
  <2>1. connected \in BOOLEAN
    BY DEF Init
  <2> QED BY <2>1 DEF Init, NetTypeOK
<1> QED BY <1>1, <1>2, <1>3, <1>4 DEF LoopTypes

LEMMA TypesStutter == LoopTypes /\ UNCHANGED vars => LoopTypes'
BY DEF vars, makerVars, engineVars, netVars, LoopTypes, MakerTypeOK, RingsTypeOK,
       EngineTypeOK, NetTypeOK

(* Both loops, the rings and the session keep their types, and neither     *)
(* ring ever holds more than its slots, for any sizes and any reads.       *)
THEOREM LoopTypeCorrect == Spec => []TypeOK
<1>1. LoopTypes /\ [Next]_vars => LoopTypes'
  BY TypesStutter, TypesStep
<1> QED BY <1>1, InitTyped, LoopTypesTyped, PTL DEF Spec

---------------------------------------------------------------------------
(* The wire.  While the connection lasts the wire, the order in the        *)
(* engine's hand and the ring hold, in this order, all the ids given out.  *)

InHand == IF enPc = "write" THEN 1 ELSE 0

OrdersInLine ==
    connected =>
      /\ Len(wire) + Len(orderRing) + InHand = orderSeq
      /\ \A j \in 1..Len(orderRing) : orderRing[j].id = Len(wire) + InHand + j - 1
      /\ enPc = "write" => enOrder.id = Len(wire)

WireIds == \A i \in DOMAIN wire : wire[i].id = i - 1

WireInvariant == OrdersInLine /\ WireIds

LEMMA InvariantIsWireInOrder == WireInvariant => WireInOrder
BY DEF WireInvariant, OrdersInLine, WireIds, InHand, WireInOrder

LEMMA WireStep ==
    ASSUME LoopTypes, WireInvariant, Next PROVE WireInvariant'
<1>1. /\ orderRing \in Seq(Order) /\ Len(orderRing) \in Nat
      /\ wire \in Seq(Order) /\ Len(wire) \in Nat /\ DOMAIN wire = 1..Len(wire)
      /\ orderSeq \in Nat /\ enOrder \in Order \cup {Logon}
  BY LenProperties, LoopAssumption DEF LoopTypes, MakerTypeOK, RingsTypeOK, EngineTypeOK
<1>2. ASSUME UNCHANGED <<wire, orderRing, orderSeq, enOrder, connected>>, InHand' = InHand
      PROVE  WireInvariant'
  <2>1. enPc' = "write" <=> enPc = "write"
    BY <1>2 DEF InHand
  <2> QED BY <1>2, <2>1 DEF WireInvariant, OrdersInLine, WireIds
<1>3. CASE ReadFill \/ FillsDone \/ NoQuote \/ StartPair
  BY <1>2, <1>3 DEF ReadFill, FillsDone, NoQuote, StartPair, engineVars, netVars, InHand
<1>4. CASE SendOrder
  <2> DEFINE o == [id |-> orderSeq, side |-> mmPc]
  <2>1. /\ orderRing' = Append(orderRing, o) /\ orderSeq' = orderSeq + 1
        /\ UNCHANGED <<enPc, enOrder, wire, connected>>
    BY <1>4 DEF SendOrder, engineVars, netVars
  <2>2. o \in Order
    BY <1>1, <1>4 DEF SendOrder, Order
  <2>3. /\ Len(orderRing') = Len(orderRing) + 1
        /\ \A j \in 1..Len(orderRing) : orderRing'[j] = orderRing[j]
        /\ orderRing'[Len(orderRing) + 1] = o
    BY <1>1, <2>1, <2>2, AppendProperties
  <2>4. WireIds' /\ InHand' = InHand /\ (enPc' = "write" <=> enPc = "write")
    BY <2>1 DEF WireInvariant, WireIds, InHand
  <2>5. ASSUME connected
        PROVE  /\ Len(wire) + Len(orderRing') + InHand = orderSeq'
               /\ \A j \in 1..Len(orderRing') :
                    orderRing'[j].id = Len(wire) + InHand + j - 1
    <3>1. /\ Len(wire) + Len(orderRing) + InHand = orderSeq
          /\ \A j \in 1..Len(orderRing) : orderRing[j].id = Len(wire) + InHand + j - 1
          /\ InHand \in {0, 1} /\ o.id = orderSeq
      BY <2>5 DEF WireInvariant, OrdersInLine, InHand
    <3> HIDE DEF o, InHand
    <3>2. \A j \in 1..Len(orderRing') : j \in 1..Len(orderRing) \/ j = Len(orderRing) + 1
      BY <1>1, <2>3
    <3>3. InHand \in Nat /\ orderSeq' = orderSeq + 1
      BY <2>1, <3>1
    <3>4. Len(wire) + Len(orderRing') + InHand = orderSeq'
      <4>1. Len(wire) + Len(orderRing) + InHand = orderSeq
        BY <3>1
      <4>2. Len(orderRing') = Len(orderRing) + 1
        BY <2>3
      <4>3. Len(wire) \in Nat /\ Len(orderRing) \in Nat /\ orderSeq \in Nat
        BY <1>1
      <4> QED BY <3>3, <4>1, <4>2, <4>3
    <3>5. ASSUME NEW j \in 1..Len(orderRing')
          PROVE  orderRing'[j].id = Len(wire) + InHand + j - 1
      <4>1. CASE j \in 1..Len(orderRing)
        BY <2>3, <3>1, <4>1
      <4>2. CASE j = Len(orderRing) + 1
        BY <1>1, <2>3, <3>1, <3>3, <4>2
      <4> QED BY <3>2, <4>1, <4>2
    <3> QED BY <3>4, <3>5
  <2> QED BY <2>1, <2>4, <2>5 DEF WireInvariant, OrdersInLine
<1>5. CASE TakeOrder
  <2>1. /\ orderRing # <<>> /\ enOrder' = Head(orderRing) /\ orderRing' = Tail(orderRing)
        /\ enPc = "order" /\ enPc' = "write" /\ UNCHANGED <<wire, orderSeq, connected>>
    BY <1>5 DEF TakeOrder, makerVars, netVars
  <2>2. /\ Len(Tail(orderRing)) = Len(orderRing) - 1
        /\ \A j \in 1..Len(Tail(orderRing)) : Tail(orderRing)[j] = orderRing[j + 1]
        /\ Head(orderRing) = orderRing[1] /\ Len(orderRing) >= 1
    BY <1>1, <2>1, HeadTailProperties
  <2> QED BY <1>1, <2>1, <2>2 DEF WireInvariant, OrdersInLine, WireIds, InHand
<1>6. CASE NoOrder \/ NoReports \/ PublishFill
  BY <1>2, <1>6 DEF NoOrder, NoReports, PublishFill, makerVars, netVars, InHand
<1>7. CASE ReadReports
  BY <1>2, <1>7 DEF ReadReports, makerVars, InHand
<1>8. CASE WriteOrder
  <2>1. /\ connected /\ wire' = Append(wire, enOrder) /\ enPc = "write"
        /\ enPc' = "reports" /\ UNCHANGED <<orderRing, orderSeq, connected, enOrder>>
    BY <1>8 DEF WriteOrder, makerVars
  <2>2. enOrder \in Order
    BY <2>1 DEF LoopTypes, EngineTypeOK
  <2>3. /\ Len(wire') = Len(wire) + 1
        /\ \A j \in 1..Len(wire) : wire'[j] = wire[j]
        /\ wire'[Len(wire) + 1] = enOrder
        /\ DOMAIN wire' = 1..(Len(wire) + 1)
    BY <1>1, <2>1, <2>2, AppendProperties
  <2>4. enOrder.id = Len(wire)
    BY <2>1 DEF WireInvariant, OrdersInLine
  <2>5. WireIds'
    BY <1>1, <2>3, <2>4 DEF WireInvariant, WireIds
  <2>6. OrdersInLine'
    BY <1>1, <2>1, <2>3 DEF WireInvariant, OrdersInLine, InHand
  <2> QED BY <2>5, <2>6 DEF WireInvariant
<1>9. CASE WriteFails
  BY <1>9 DEF WriteFails, WireInvariant, OrdersInLine, WireIds, makerVars, netVars
<1>10. CASE HandleMessage
  BY <1>2, <1>10 DEF HandleMessage, makerVars, engineVars, InHand
<1>11. CASE Disconnect
  BY <1>11 DEF Disconnect, WireInvariant, OrdersInLine, WireIds, engineVars
<1> QED
  BY <1>3, <1>4, <1>5, <1>6, <1>7, <1>8, <1>9, <1>10, <1>11
  DEF Next, MarketMaker, Engine

(* Orders reach the wire in the order of their ids, none twice, and none   *)
(* is missing while the connection lasts.                                  *)
THEOREM WireInOrderHolds == Spec => []WireInOrder
<1>1. Init => LoopTypes /\ WireInvariant
  <2>1. Init => WireInvariant
    BY DEF Init, WireInvariant, OrdersInLine, WireIds, InHand
  <2> QED BY <2>1, InitTyped
<1>2. LoopTypes /\ WireInvariant /\ [Next]_vars => (LoopTypes /\ WireInvariant)'
  <2>1. WireInvariant /\ UNCHANGED vars => WireInvariant'
    BY DEF vars, makerVars, engineVars, netVars, WireInvariant, OrdersInLine, WireIds,
           InHand
  <2> QED BY <2>1, TypesStutter, TypesStep, WireStep
<1> QED BY <1>1, <1>2, InvariantIsWireInOrder, PTL DEF Spec


---------------------------------------------------------------------------
(* The way of a message.  The stream of messages is numbered: 0 is the     *)
(* logon and k the order with id k - 1, a buy when k is odd.  Item k > 0   *)
(* is answered by the pieces 2k and 2k + 1 of the byte stream.             *)

SideNo(k) == IF k % 2 = 1 THEN "B" ELSE "S"
OrderNo(k) == [id |-> k - 1, side |-> SideNo(k)]
MsgNo(k) == IF k = 0 THEN Logon ELSE OrderNo(k)
FillNo(k) == IF k = 0 THEN NoFill
             ELSE [id |-> {k - 1}, side |-> SideNo(k), qty |-> QuoteSize]
PieceNo(j) == IF j = 1 THEN LogonPiece
              ELSE IF j % 2 = 0 THEN NamePiece(OrderNo(j \div 2))
              ELSE QtyPiece(QuoteSize)
Pieces(k) == IF k = 0 THEN 0 ELSE 2 * k - 1

(* With b items booked and x items answered by the exchange, every place   *)
(* between them holds the next items, in their order and whole.            *)
Decoded(b) == b + Len(fillRing) + (IF enPc = "publish" THEN 1 ELSE 0)
Booked(b) == IF b # 0 /\ b % 2 = 0 THEN QuoteSize ELSE 0
FillsInOrder(b) ==
    /\ position = Booked(b)
    /\ \A i \in 1..Len(fillRing) : fillRing[i] = FillNo(b + i - 1)
    /\ enPc = "publish" => enFill = FillNo(b + Len(fillRing))
PiecesInOrder(d, x) ==
    /\ d <= x /\ Len(fromExchange) = Pieces(x) - Pieces(d)
    /\ \A i \in 1..Len(fromExchange) : fromExchange[i] = PieceNo(Pieces(d) + i)
MessagesInOrder(x) ==
    /\ x + Len(toExchange) = Len(wire) + 1
    /\ \A i \in 1..Len(toExchange) : toExchange[i] = MsgNo(x + i - 1)

(* Orders alternate from the start.                                        *)
SidesAlternate ==
    /\ \A j \in 1..Len(orderRing) : orderRing[j].side = SideNo(orderRing[j].id + 1)
    /\ enPc = "write" => enOrder.side = SideNo(enOrder.id + 1)

Flow(b, x) == FillsInOrder(b) /\ PiecesInOrder(Decoded(b), x) /\ MessagesInOrder(x)
FlowInvariant == SidesAlternate /\ \E b, x \in Nat : Flow(b, x)

LEMMA MaxOfOne ==
    ASSUME NEW k \in Int PROVE Max({k}) = k
BY DEF Max

LEMMA OnlyOne == ASSUME NEW x PROVE Only({x}) = x
BY DEF Only

(* What a read of one whole message decodes to.                            *)
LEMMA LogonDecoded ==
    ASSUME NEW bytes \in Seq(Piece), Len(bytes) = 1, bytes[1] = LogonPiece
    PROVE  Decode(bytes) = FillNo(0)
<1>1. DOMAIN bytes = {1}
  BY LenProperties
<1>2. \A f \in {"id", "side", "qty"} : {i \in DOMAIN bytes : bytes[i][f] # {}} = {}
  BY <1>1 DEF LogonPiece
<1>3. /\ LastField(bytes, "id", {}) = {}
      /\ LastField(bytes, "side", {"B"}) = {"B"}
      /\ LastField(bytes, "qty", {0}) = {0}
  BY <1>2 DEF LastField
<1> QED BY <1>3, OnlyOne DEF Decode, FillNo, NoFill

LEMMA ReportDecoded ==
    ASSUME NEW bytes \in Seq(Piece), NEW k \in Nat \ {0}, Len(bytes) = 2,
           bytes[1] = NamePiece(OrderNo(k)), bytes[2] = QtyPiece(QuoteSize)
    PROVE  Decode(bytes) = FillNo(k)
<1>1. DOMAIN bytes = {1, 2}
  BY LenProperties
<1>2. /\ bytes[1]["id"] = {k - 1} /\ bytes[2]["id"] = {}
      /\ bytes[1]["side"] = {SideNo(k)} /\ bytes[2]["side"] = {}
      /\ bytes[1]["qty"] = {} /\ bytes[2]["qty"] = {QuoteSize}
  BY DEF NamePiece, QtyPiece, OrderNo
<1>3. /\ {i \in DOMAIN bytes : bytes[i]["id"] # {}} = {1}
      /\ {i \in DOMAIN bytes : bytes[i]["side"] # {}} = {1}
      /\ {i \in DOMAIN bytes : bytes[i]["qty"] # {}} = {2}
  BY <1>1, <1>2
<1>4. Max({1}) = 1 /\ Max({2}) = 2
  BY MaxOfOne
<1>5. /\ LastField(bytes, "id", {}) = {k - 1}
      /\ LastField(bytes, "side", {"B"}) = {SideNo(k)}
      /\ LastField(bytes, "qty", {0}) = {QuoteSize}
  BY <1>2, <1>3, <1>4 DEF LastField
<1> QED BY <1>5, OnlyOne DEF Decode, FillNo

LEMMA PieceNumbers ==
    ASSUME NEW k \in Nat \ {0}
    PROVE  PieceNo(2 * k) = NamePiece(OrderNo(k)) /\ PieceNo(2 * k + 1) = QtyPiece(QuoteSize)
<1>1. 2 * k # 1 /\ (2 * k) % 2 = 0 /\ (2 * k) \div 2 = k
  OBVIOUS
<1>2. 2 * k + 1 # 1 /\ (2 * k + 1) % 2 # 0
  OBVIOUS
<1> QED BY <1>1, <1>2 DEF PieceNo

(* Booking the next item of the stream.                                    *)
LEMMA NextBooked ==
    ASSUME NEW b \in Nat, position = Booked(b)
    PROVE  BookFill(FillNo(b)) = Booked(b + 1)
<1>1. QuoteSize \in Nat
  BY LoopAssumption
<1>2. CASE b = 0
  BY <1>2 DEF BookFill, FillNo, NoFill, Booked
<1>3. CASE b # 0
  <2>1. /\ FillNo(b).id # {} /\ FillNo(b).side = SideNo(b)
        /\ FillNo(b).qty = QuoteSize
    BY <1>3 DEF FillNo
  <2>2. BookFill(FillNo(b)) = position + Signed(SideNo(b), QuoteSize)
    BY <2>1 DEF BookFill
  <2>3. CASE b % 2 = 1
    <3>1. (b + 1) % 2 = 0
      BY <2>3
    <3> QED BY <1>1, <1>3, <2>2, <2>3, <3>1 DEF Signed, SideNo, Booked
  <2>4. CASE b % 2 # 1
    <3>1. (b + 1) % 2 # 0 /\ b % 2 = 0
      BY <2>4
    <3> QED BY <1>1, <1>3, <2>2, <2>4, <3>1 DEF Signed, SideNo, Booked
  <2> QED BY <2>3, <2>4
<1> QED BY <1>2, <1>3

LEMMA AnswerNumbers ==
    ASSUME NEW x \in Nat
    PROVE  /\ x = 0 => Answer(MsgNo(x)) = <<LogonPiece>>
           /\ x # 0 => Answer(MsgNo(x)) = <<NamePiece(OrderNo(x)), QtyPiece(QuoteSize)>>
<1>1. x # 0 => OrderNo(x) # Logon
  BY DEF OrderNo, Logon, None
<1> QED BY <1>1 DEF Answer, MsgNo

---------------------------------------------------------------------------
(* One lemma for each end at which the stream moves.                       *)

(* The market maker books the oldest fill of the ring.                     *)
LEMMA ReadFillMoves ==
    ASSUME LoopTypes, NEW b \in Nat, FillsInOrder(b), ReadFill
    PROVE  FillsInOrder(b + 1)' /\ Decoded(b + 1)' = Decoded(b)
<1>1. /\ fillRing # <<>> /\ fillRing \in Seq(Fill) /\ fillRing' = Tail(fillRing)
      /\ position' = BookFill(Head(fillRing)) /\ UNCHANGED <<enPc, enFill>>
  BY DEF LoopTypes, RingsTypeOK, ReadFill, engineVars
<1>2. /\ Len(fillRing) \in Nat \ {0} /\ Len(fillRing') = Len(fillRing) - 1
      /\ Head(fillRing) = fillRing[1]
      /\ \A i \in 1..Len(fillRing') : fillRing'[i] = fillRing[i + 1]
  BY <1>1, HeadTailProperties, LenProperties
<1>3. position' = Booked(b + 1)
  <2>1. Head(fillRing) = FillNo(b)
    BY <1>2 DEF FillsInOrder
  <2> QED BY <1>1, <2>1, NextBooked DEF FillsInOrder
<1>4. ASSUME NEW i \in 1..Len(fillRing') PROVE fillRing'[i] = FillNo((b + 1) + i - 1)
  <2>1. i + 1 \in 1..Len(fillRing) /\ b + (i + 1) - 1 = (b + 1) + i - 1
    BY <1>2
  <2> QED BY <1>2, <2>1 DEF FillsInOrder
<1>5. b + 1 + Len(fillRing') = b + Len(fillRing)
  BY <1>2
<1>6. enPc' = "publish" => enFill' = FillNo(b + 1 + Len(fillRing'))
  BY <1>1, <1>5 DEF FillsInOrder
<1> QED BY <1>1, <1>3, <1>4, <1>5, <1>6 DEF FillsInOrder, Decoded, Booked

(* The engine publishes the fill it holds.                                 *)
LEMMA PublishFillMoves ==
    ASSUME LoopTypes, NEW b \in Nat, FillsInOrder(b), PublishFill
    PROVE  FillsInOrder(b)' /\ Decoded(b)' = Decoded(b)
<1>1. /\ fillRing \in Seq(Fill) /\ enFill \in Fill /\ enPc = "publish"
      /\ fillRing' = Append(fillRing, enFill) /\ enPc' = "order" /\ position' = position
  BY DEF LoopTypes, RingsTypeOK, EngineTypeOK, PublishFill, makerVars
<1>2. /\ Len(fillRing) \in Nat /\ Len(fillRing') = Len(fillRing) + 1
      /\ \A i \in 1..Len(fillRing) : fillRing'[i] = fillRing[i]
      /\ fillRing'[Len(fillRing) + 1] = enFill
  BY <1>1, AppendProperties, LenProperties
<1>3. ASSUME NEW i \in 1..Len(fillRing') PROVE fillRing'[i] = FillNo(b + i - 1)
  <2>1. CASE i \in 1..Len(fillRing)
    BY <1>2, <2>1 DEF FillsInOrder
  <2>2. CASE i = Len(fillRing) + 1
    <3>1. b + i - 1 = b + Len(fillRing)
      BY <1>2, <2>2
    <3> QED BY <1>1, <1>2, <2>2, <3>1 DEF FillsInOrder
  <2> QED BY <1>2, <2>1, <2>2
<1> QED BY <1>1, <1>2, <1>3 DEF FillsInOrder, Decoded, Booked

(* The engine reads one whole message and decodes it.                      *)
LEMMA ReadReportsMoves ==
    ASSUME LoopTypes, NEW b \in Nat, NEW d \in Nat, NEW x \in Nat, ~SplitReads,
           FillsInOrder(b), Decoded(b) = d, PiecesInOrder(d, x), ReadReports
    PROVE  FillsInOrder(b)' /\ Decoded(b)' = d + 1 /\ PiecesInOrder(d + 1, x)'
<1>1. /\ fillRing \in Seq(Fill) /\ fromExchange \in Seq(Piece)
      /\ enPc = "reports" /\ enPc' = "publish" /\ UNCHANGED <<fillRing, position>>
  BY DEF LoopTypes, RingsTypeOK, NetTypeOK, ReadReports, makerVars
<1>2. Len(fillRing) \in Nat /\ Len(fromExchange) \in Nat
  BY <1>1, LenProperties
<1>3. d = b + Len(fillRing) /\ Decoded(b)' = d + 1
  BY <1>1, <1>2 DEF Decoded
<1>4. PICK n \in 1..Len(fromExchange) :
         /\ Complete(n) /\ enFill' = Decode(SubSeq(fromExchange, 1, n))
         /\ fromExchange' = SubSeq(fromExchange, n + 1, Len(fromExchange))
  BY DEF ReadReports
<1>5. /\ d <= x /\ Len(fromExchange) = Pieces(x) - Pieces(d)
      /\ \A i \in 1..Len(fromExchange) : fromExchange[i] = PieceNo(Pieces(d) + i)
  BY DEF PiecesInOrder
<1>6. x # 0 /\ d < x /\ Pieces(x) = 2 * x - 1
  BY <1>2, <1>3, <1>4, <1>5 DEF Pieces
<1>7. SubSeq(fromExchange, 1, n) \in Seq(Piece) /\ Len(SubSeq(fromExchange, 1, n)) = n
      /\ \A i \in 1..n : SubSeq(fromExchange, 1, n)[i] = fromExchange[i]
  <2>1. \A i \in 1..Len(fromExchange) : fromExchange[i] \in Piece
    BY <1>1, ElementOfSeq
  <2> QED BY <1>2, <2>1, SubSeqProperties
<1>8. /\ Len(fromExchange') = Len(fromExchange) - n
      /\ \A i \in 1..Len(fromExchange') : fromExchange'[i] = fromExchange[n + i]
  <2>1. \A i \in 1..Len(fromExchange) : fromExchange[i] \in Piece
    BY <1>1, ElementOfSeq
  <2> QED BY <1>2, <1>4, <2>1, SubSeqProperties
<1>9. Pieces(d + 1) = Pieces(d) + n /\ enFill' = FillNo(d)
  <2>1. CASE d = 0
    <3>1. Pieces(d) = 0 /\ Pieces(d + 1) = 1
      BY <2>1 DEF Pieces
    <3>2. fromExchange[1] = LogonPiece
      BY <1>4, <1>5, <3>1 DEF PieceNo
    <3>3. n = 1
      BY <1>2, <1>4, <3>2 DEF Complete, Ends
    <3>4. SubSeq(fromExchange, 1, n)[1] = LogonPiece
      BY <1>7, <3>2, <3>3
    <3>5. Decode(SubSeq(fromExchange, 1, n)) = FillNo(0)
      BY <1>7, <3>3, <3>4, LogonDecoded
    <3> QED BY <1>4, <2>1, <3>1, <3>3, <3>5
  <2>2. CASE d # 0
    <3>1. /\ Pieces(d) = 2 * d - 1 /\ Pieces(d + 1) = 2 * d + 1
          /\ Len(fromExchange) >= 2
      BY <1>3, <1>5, <1>6, <2>2 DEF Pieces
    <3>2. /\ fromExchange[1] = NamePiece(OrderNo(d))
          /\ fromExchange[2] = QtyPiece(QuoteSize)
      <4>1. Pieces(d) + 1 = 2 * d /\ Pieces(d) + 2 = 2 * d + 1
        BY <1>3, <3>1
      <4>2. /\ fromExchange[1] = PieceNo(Pieces(d) + 1)
            /\ fromExchange[2] = PieceNo(Pieces(d) + 2)
        BY <1>2, <1>5, <3>1
      <4> QED BY <1>3, <2>2, <4>1, <4>2, PieceNumbers
    <3>3. ~Ends(fromExchange[1]) /\ Ends(fromExchange[2])
      <4>1. /\ NamePiece(OrderNo(d)).id = {d - 1} /\ NamePiece(OrderNo(d)).qty = {}
            /\ QtyPiece(QuoteSize).qty = {QuoteSize} /\ LogonPiece.id = {}
        BY DEF NamePiece, OrderNo, QtyPiece, LogonPiece
      <4>2. d - 1 \in {d - 1} /\ QuoteSize \in {QuoteSize}
        OBVIOUS
      <4> QED BY <3>2, <4>1, <4>2 DEF Ends
    <3>4. n = 2
      BY <1>2, <1>4, <3>3 DEF Complete
    <3>5. Decode(SubSeq(fromExchange, 1, n)) = FillNo(d)
      <4>1. /\ SubSeq(fromExchange, 1, n)[1] = NamePiece(OrderNo(d))
            /\ SubSeq(fromExchange, 1, n)[2] = QtyPiece(QuoteSize)
        BY <1>7, <3>2, <3>4
      <4> QED BY <1>7, <2>2, <3>4, <4>1, ReportDecoded
    <3> QED BY <1>3, <1>4, <3>1, <3>4, <3>5
  <2> QED BY <2>1, <2>2
<1>10. Pieces(d) \in Nat /\ Pieces(x) \in Nat
  BY <1>3, <1>6 DEF Pieces
<1>11. ASSUME NEW i \in 1..Len(fromExchange')
       PROVE  fromExchange'[i] = PieceNo(Pieces(d + 1) + i)
  <2>1. n + i \in 1..Len(fromExchange) /\ Pieces(d) + (n + i) = Pieces(d + 1) + i
    BY <1>2, <1>8, <1>9, <1>10
  <2> QED BY <1>5, <1>8, <2>1
<1>12. d + 1 <= x /\ Len(fromExchange') = Pieces(x) - Pieces(d + 1)
  BY <1>2, <1>3, <1>5, <1>6, <1>8, <1>9, <1>10
<1>13. PiecesInOrder(d + 1, x)'
  BY <1>11, <1>12 DEF PiecesInOrder, Pieces
<1>14. FillsInOrder(b)'
  BY <1>1, <1>3, <1>9 DEF FillsInOrder, Booked
<1> QED BY <1>3, <1>13, <1>14

(* The exchange answers the next message.                                  *)
LEMMA HandleMessageMoves ==
    ASSUME LoopTypes, NEW d \in Nat, NEW x \in Nat,
           PiecesInOrder(d, x), MessagesInOrder(x), HandleMessage
    PROVE  PiecesInOrder(d, x + 1)' /\ MessagesInOrder(x + 1)'
<1>1. /\ toExchange \in Seq(Order \cup {Logon}) /\ fromExchange \in Seq(Piece)
      /\ toExchange # <<>> /\ toExchange' = Tail(toExchange) /\ wire' = wire
      /\ fromExchange' = fromExchange \o Answer(Head(toExchange))
      /\ wire \in Seq(Order)
  BY DEF LoopTypes, NetTypeOK, EngineTypeOK, HandleMessage, engineVars
<1>2. /\ Len(toExchange) \in Nat \ {0} /\ Len(toExchange') = Len(toExchange) - 1
      /\ Head(toExchange) = toExchange[1]
      /\ \A i \in 1..Len(toExchange') : toExchange'[i] = toExchange[i + 1]
      /\ Len(fromExchange) \in Nat /\ Len(wire) \in Nat
  BY <1>1, HeadTailProperties, LenProperties
<1>3. Head(toExchange) = MsgNo(x)
  BY <1>2 DEF MessagesInOrder
<1>4. MessagesInOrder(x + 1)'
  <2>1. x + 1 + Len(toExchange') = Len(wire') + 1
    BY <1>1, <1>2 DEF MessagesInOrder
  <2>2. ASSUME NEW i \in 1..Len(toExchange') PROVE toExchange'[i] = MsgNo((x + 1) + i - 1)
    <3>1. i + 1 \in 1..Len(toExchange) /\ x + (i + 1) - 1 = (x + 1) + i - 1
      BY <1>2
    <3> QED BY <1>2, <3>1 DEF MessagesInOrder
  <2> QED BY <2>1, <2>2 DEF MessagesInOrder
<1>5. PICK a \in Seq(Piece) : a = Answer(MsgNo(x))
  <2>1. MsgNo(x) \in Order \cup {Logon}
    <3>1. Head(toExchange) \in Order \cup {Logon}
      BY <1>1, HeadTailProperties
    <3> QED BY <1>3, <3>1
  <2> QED BY <2>1, AnswerTyped
<1>6. /\ Len(a) = Pieces(x + 1) - Pieces(x) /\ Len(a) \in Nat /\ Pieces(x) \in Nat
      /\ Pieces(d) \in Nat /\ Pieces(x + 1) \in Nat
      /\ \A i \in 1..Len(a) : a[i] = PieceNo(Pieces(x) + i)
  <2>1. CASE x = 0
    <3>1. a = <<LogonPiece>>
      BY <1>5, <2>1, AnswerNumbers
    <3> QED BY <2>1, <3>1 DEF Pieces, PieceNo
  <2>2. CASE x # 0
    <3>1. a = <<NamePiece(OrderNo(x)), QtyPiece(QuoteSize)>>
      BY <1>5, <2>2, AnswerNumbers
    <3>2. Pieces(x) = 2 * x - 1 /\ Pieces(x + 1) = 2 * x + 1
      BY <2>2 DEF Pieces
    <3>3. Pieces(x) + 1 = 2 * x /\ Pieces(x) + 2 = 2 * x + 1
      BY <3>2
    <3>4. /\ PieceNo(Pieces(x) + 1) = NamePiece(OrderNo(x))
          /\ PieceNo(Pieces(x) + 2) = QtyPiece(QuoteSize)
      BY <2>2, <3>3, PieceNumbers
    <3>5. Len(a) = 2 /\ a[1] = NamePiece(OrderNo(x)) /\ a[2] = QtyPiece(QuoteSize)
      BY <3>1
    <3>6. Pieces(d) \in Nat
      BY DEF Pieces
    <3>7. \A i \in 1..Len(a) : i = 1 \/ i = 2
      BY <3>5
    <3>8. \A i \in 1..Len(a) : a[i] = PieceNo(Pieces(x) + i)
      BY <3>4, <3>5, <3>7
    <3>9. Len(a) = Pieces(x + 1) - Pieces(x) /\ Pieces(x) \in Nat /\ Pieces(x + 1) \in Nat
      BY <2>2, <3>2, <3>5
    <3>10. Len(a) \in Nat
      BY <3>5
    <3> QED BY <3>6, <3>8, <3>9, <3>10, Zenon
  <2> QED BY <2>1, <2>2
<1>7. fromExchange' = fromExchange \o a
  BY <1>1, <1>3, <1>5
<1>8. /\ Len(fromExchange') = Len(fromExchange) + Len(a)
      /\ \A i \in 1..Len(fromExchange') :
           fromExchange'[i] = IF i <= Len(fromExchange) THEN fromExchange[i]
                              ELSE a[i - Len(fromExchange)]
  <2>1. Len(fromExchange \o a) = Len(fromExchange) + Len(a)
    BY <1>1, ConcatProperties
  <2>2. \A i \in 1..(Len(fromExchange) + Len(a)) :
           (fromExchange \o a)[i] = IF i <= Len(fromExchange) THEN fromExchange[i]
                                    ELSE a[i - Len(fromExchange)]
    BY <1>1, ConcatProperties
  <2> QED BY <1>7, <2>1, <2>2
<1>9. Len(fromExchange) = Pieces(x) - Pieces(d) /\ d <= x
  BY DEF PiecesInOrder
<1>10. ASSUME NEW i \in 1..Len(fromExchange')
       PROVE  fromExchange'[i] = PieceNo(Pieces(d) + i)
  <2>1. CASE i <= Len(fromExchange)
    BY <1>2, <1>8, <2>1 DEF PiecesInOrder
  <2>2. CASE ~(i <= Len(fromExchange))
    <3>1. /\ Len(fromExchange) \in Nat /\ Len(a) \in Nat
          /\ Pieces(x) \in Nat /\ Pieces(d) \in Nat
      BY <1>2, <1>6
    <3>2. i \in 1..(Len(fromExchange) + Len(a))
      BY <1>8
    <3>3. i - Len(fromExchange) \in 1..Len(a)
      BY <2>2, <3>1, <3>2
    <3>4. Pieces(x) + (i - Len(fromExchange)) = Pieces(d) + i
      BY <1>9, <3>1, <3>2
    <3>5. fromExchange'[i] = a[i - Len(fromExchange)]
      BY <1>8, <2>2
    <3>6. a[i - Len(fromExchange)] = PieceNo(Pieces(x) + (i - Len(fromExchange)))
      BY <1>6, <3>3
    <3> QED BY <3>4, <3>5, <3>6
  <2> QED BY <2>1, <2>2
<1>11. d <= x + 1 /\ Len(fromExchange') = Pieces(x + 1) - Pieces(d)
  BY <1>2, <1>6, <1>8, <1>9
<1>12. PiecesInOrder(d, x + 1)'
  BY <1>10, <1>11 DEF PiecesInOrder, Pieces
<1> QED BY <1>4, <1>12

(* The engine writes the order it holds: the next one, of the right side.  *)
LEMMA WriteOrderMoves ==
    ASSUME LoopTypes, WireInvariant, SidesAlternate, NEW x \in Nat,
           MessagesInOrder(x), WriteOrder
    PROVE  MessagesInOrder(x)'
<1>1. /\ toExchange \in Seq(Order \cup {Logon}) /\ wire \in Seq(Order) /\ enOrder \in Order
      /\ toExchange' = Append(toExchange, enOrder) /\ wire' = Append(wire, enOrder)
  BY DEF LoopTypes, NetTypeOK, EngineTypeOK, WriteOrder
<1>2. /\ Len(toExchange) \in Nat /\ Len(toExchange') = Len(toExchange) + 1
      /\ \A i \in 1..Len(toExchange) : toExchange'[i] = toExchange[i]
      /\ toExchange'[Len(toExchange) + 1] = enOrder
      /\ Len(wire) \in Nat /\ Len(wire') = Len(wire) + 1
  BY <1>1, AppendProperties, LenProperties
<1>3. enOrder = MsgNo(x + Len(toExchange))
  <2>1. enOrder.id = Len(wire) /\ enOrder.side = SideNo(enOrder.id + 1)
    BY DEF WriteOrder, WireInvariant, OrdersInLine, SidesAlternate
  <2>2. x + Len(toExchange) = Len(wire) + 1
    BY DEF MessagesInOrder
  <2>3. enOrder = [id |-> Len(wire), side |-> SideNo(Len(wire) + 1)]
    BY <1>1, <2>1 DEF Order
  <2>4. Len(wire) + 1 # 0 /\ Len(wire) + 1 - 1 = Len(wire)
    BY <1>2
  <2> QED BY <2>2, <2>3, <2>4 DEF MsgNo, OrderNo
<1>4. ASSUME NEW i \in 1..Len(toExchange') PROVE toExchange'[i] = MsgNo(x + i - 1)
  <2>1. CASE i \in 1..Len(toExchange)
    BY <1>2, <2>1 DEF MessagesInOrder
  <2>2. CASE i = Len(toExchange) + 1
    <3>1. x + i - 1 = x + Len(toExchange)
      BY <1>2, <2>2
    <3> QED BY <1>2, <1>3, <2>2, <3>1
  <2> QED BY <1>2, <2>1, <2>2
<1>5. x + Len(toExchange') = Len(wire') + 1
  BY <1>2 DEF MessagesInOrder
<1> QED BY <1>4, <1>5 DEF MessagesInOrder

---------------------------------------------------------------------------
LEMMA SidesStep ==
    ASSUME LoopTypes, SidesAlternate, Next PROVE SidesAlternate'
<1>1. orderRing \in Seq(Order) /\ Len(orderRing) \in Nat
  BY LenProperties DEF LoopTypes, RingsTypeOK
<1>2. ASSUME UNCHANGED <<orderRing, enOrder>>, enPc' = "write" => enPc = "write"
      PROVE  SidesAlternate'
  BY <1>2 DEF SidesAlternate, SideNo
<1>3. CASE SendOrder
  <2> DEFINE o == [id |-> orderSeq, side |-> mmPc]
  <2>1. orderRing' = Append(orderRing, o) /\ UNCHANGED <<enPc, enOrder>>
    BY <1>3 DEF SendOrder, engineVars
  <2>2. orderSeq \in Nat /\ mmPc \in {"B", "S"}
    BY <1>3, LoopAssumption DEF LoopTypes, MakerTypeOK, SendOrder
  <2>3. o \in Order /\ o.side = SideNo(o.id + 1)
    <3>1. orderSeq % 2 = IF mmPc = "S" THEN 1 ELSE 0
      BY DEF LoopTypes, MakerTypeOK
    <3>2. (orderSeq + 1) % 2 = IF mmPc = "S" THEN 0 ELSE 1
      BY <2>2, <3>1
    <3> QED BY <2>2, <3>2 DEF SideNo, Order
  <2> HIDE DEF o
  <2>4. /\ Len(orderRing') = Len(orderRing) + 1
        /\ \A j \in 1..Len(orderRing) : orderRing'[j] = orderRing[j]
        /\ orderRing'[Len(orderRing) + 1] = o
    BY <1>1, <2>1, <2>3, AppendProperties
  <2>5. ASSUME NEW j \in 1..Len(orderRing')
        PROVE  orderRing'[j].side = SideNo(orderRing'[j].id + 1)
    <3>1. CASE j \in 1..Len(orderRing)
      BY <2>4, <3>1 DEF SidesAlternate
    <3>2. CASE j = Len(orderRing) + 1
      BY <2>3, <2>4, <3>2
    <3> QED BY <1>1, <2>4, <3>1, <3>2
  <2> QED BY <2>1, <2>5 DEF SidesAlternate, SideNo
<1>4. CASE TakeOrder
  <2>1. /\ orderRing # <<>> /\ enOrder' = Head(orderRing) /\ orderRing' = Tail(orderRing)
    BY <1>4 DEF TakeOrder
  <2>2. /\ Len(orderRing') = Len(orderRing) - 1 /\ Len(orderRing) >= 1
        /\ \A j \in 1..Len(orderRing') : orderRing'[j] = orderRing[j + 1]
        /\ enOrder' = orderRing[1]
    BY <1>1, <2>1, HeadTailProperties
  <2>3. \A j \in 1..Len(orderRing') : j + 1 \in 1..Len(orderRing)
    BY <1>1, <2>2
  <2>4. 1 \in 1..Len(orderRing)
    BY <1>1, <2>2
  <2> QED BY <2>2, <2>3, <2>4 DEF SidesAlternate, SideNo
<1>5. CASE ReadFill \/ FillsDone \/ NoQuote \/ StartPair
  BY <1>2, <1>5 DEF ReadFill, FillsDone, NoQuote, StartPair, engineVars
<1>6. CASE NoOrder \/ WriteOrder \/ WriteFails \/ ReadReports \/ NoReports \/ PublishFill
  BY <1>2, <1>6 DEF NoOrder, WriteOrder, WriteFails, ReadReports, NoReports, PublishFill
<1>7. CASE HandleMessage \/ Disconnect
  BY <1>2, <1>7 DEF HandleMessage, Disconnect, engineVars
<1> QED BY <1>3, <1>4, <1>5, <1>6, <1>7 DEF Next, MarketMaker, Engine

LEMMA FlowStep ==
    ASSUME ~SplitReads, LoopTypes, WireInvariant, FlowInvariant, Next
    PROVE  FlowInvariant'
<1>1. PICK b, x \in Nat : Flow(b, x)
  BY DEF FlowInvariant
<1>2. SUFFICES \E c, y \in Nat : Flow(c, y)'
  BY SidesStep DEF FlowInvariant
<1>3. FillsInOrder(b) /\ PiecesInOrder(Decoded(b), x) /\ MessagesInOrder(x)
  BY <1>1 DEF Flow
<1>4. Decoded(b) \in Nat
  <2>1. Len(fillRing) \in Nat
    BY LenProperties DEF LoopTypes, RingsTypeOK
  <2> QED BY <2>1 DEF Decoded
<1>5. UNCHANGED <<position, fillRing, enPc, enFill>> =>
        FillsInOrder(b)' /\ Decoded(b)' = Decoded(b)
  BY <1>3 DEF FillsInOrder, Decoded, Booked
<1>6. UNCHANGED fromExchange => \A d \in Nat : PiecesInOrder(d, x) => PiecesInOrder(d, x)'
  BY DEF PiecesInOrder, Pieces
<1>7. UNCHANGED <<toExchange, wire>> => MessagesInOrder(x)'
  BY <1>3 DEF MessagesInOrder
<1>8. ASSUME NEW c \in Nat, NEW y \in Nat, NEW d \in Nat,
             FillsInOrder(c)', Decoded(c)' = d, PiecesInOrder(d, y)', MessagesInOrder(y)'
      PROVE  Flow(c, y)'
  BY <1>8 DEF Flow, PiecesInOrder, Pieces
<1>9. CASE ReadFill
  <2>1. UNCHANGED <<fromExchange, toExchange, wire>>
    BY <1>9 DEF ReadFill, engineVars, netVars
  <2>2. FillsInOrder(b + 1)' /\ Decoded(b + 1)' = Decoded(b)
    BY <1>3, <1>9, ReadFillMoves
  <2>3. Flow(b + 1, x)'
    BY <1>3, <1>4, <1>6, <1>7, <1>8, <2>1, <2>2
  <2> QED BY <2>3
<1>10. ASSUME UNCHANGED <<position, fillRing, enFill, fromExchange, toExchange, wire>>,
              enPc' = "publish" <=> enPc = "publish"
       PROVE  \E c, y \in Nat : Flow(c, y)'
  <2>1. FillsInOrder(b)' /\ Decoded(b)' = Decoded(b)
    BY <1>3, <1>10 DEF FillsInOrder, Decoded, Booked
  <2>2. Flow(b, x)'
    BY <1>3, <1>4, <1>6, <1>7, <1>8, <1>10, <2>1
  <2> QED BY <2>2
<1>11. CASE FillsDone \/ NoQuote \/ StartPair \/ SendOrder
  BY <1>10, <1>11 DEF FillsDone, NoQuote, StartPair, SendOrder, engineVars, netVars
<1>12. CASE TakeOrder \/ NoOrder \/ WriteFails \/ NoReports
  BY <1>10, <1>12 DEF TakeOrder, NoOrder, WriteFails, NoReports, makerVars, netVars
<1>13. CASE Disconnect
  BY <1>10, <1>13 DEF Disconnect, makerVars, engineVars
<1>14. CASE WriteOrder
  <2>1. /\ UNCHANGED <<position, fillRing, enFill, fromExchange>>
        /\ enPc = "write" /\ enPc' = "reports"
    BY <1>14 DEF WriteOrder, makerVars
  <2>2. FillsInOrder(b)' /\ Decoded(b)' = Decoded(b)
    BY <1>3, <2>1 DEF FillsInOrder, Decoded, Booked
  <2>3. MessagesInOrder(x)'
    BY <1>3, <1>14, WriteOrderMoves DEF FlowInvariant
  <2>4. Flow(b, x)'
    BY <1>3, <1>4, <1>6, <1>8, <2>1, <2>2, <2>3
  <2> QED BY <2>4
<1>15. CASE ReadReports
  <2>1. UNCHANGED <<toExchange, wire>>
    BY <1>15 DEF ReadReports
  <2>2. PICK d \in Nat : Decoded(b) = d
    BY <1>4
  <2>3. FillsInOrder(b)' /\ Decoded(b)' = d + 1 /\ PiecesInOrder(d + 1, x)'
    BY <1>3, <1>15, <2>2, ReadReportsMoves
  <2>4. d + 1 \in Nat
    OBVIOUS
  <2>5. Flow(b, x)'
    BY <1>7, <1>8, <2>1, <2>3, <2>4
  <2> QED BY <2>5
<1>16. CASE PublishFill
  <2>1. UNCHANGED <<fromExchange, toExchange, wire>>
    BY <1>16 DEF PublishFill, netVars
  <2>2. FillsInOrder(b)' /\ Decoded(b)' = Decoded(b)
    BY <1>3, <1>16, PublishFillMoves
  <2>3. Flow(b, x)'
    BY <1>3, <1>4, <1>6, <1>7, <1>8, <2>1, <2>2
  <2> QED BY <2>3
<1>17. CASE HandleMessage
  <2>1. UNCHANGED <<position, fillRing, enPc, enFill>>
    BY <1>17 DEF HandleMessage, makerVars, engineVars
  <2>2. PiecesInOrder(Decoded(b), x + 1)' /\ MessagesInOrder(x + 1)'
    <3>1. ASSUME NEW d \in Nat, PiecesInOrder(d, x) PROVE PiecesInOrder(d, x + 1)'
      BY <1>3, <1>17, <3>1, HandleMessageMoves
    <3>2. MessagesInOrder(x + 1)'
      BY <1>3, <1>4, <1>17, HandleMessageMoves
    <3> QED BY <1>3, <1>4, <1>5, <2>1, <3>1, <3>2
  <2>3. Flow(b, x + 1)'
    BY <1>4, <1>5, <1>8, <2>1, <2>2
  <2> QED BY <2>3
<1> QED
  BY <1>9, <1>11, <1>12, <1>13, <1>14, <1>15, <1>16, <1>17 DEF Next, MarketMaker, Engine

(* The whole of it is inductive.                                           *)
FlowIInv == LoopTypes /\ WireInvariant /\ FlowInvariant

LEMMA FlowHoldsInitially == Init => FlowIInv
<1> SUFFICES ASSUME Init PROVE FlowIInv
  OBVIOUS
<1>1. WireInvariant
  BY DEF Init, WireInvariant, OrdersInLine, WireIds, InHand
<1>2. SidesAlternate
  BY DEF Init, SidesAlternate
<1>3. FillsInOrder(0) /\ Decoded(0) = 0
  BY DEF Init, FillsInOrder, Booked, Decoded
<1>4. PiecesInOrder(0, 0)
  BY DEF Init, PiecesInOrder, Pieces
<1>5. MessagesInOrder(0)
  BY DEF Init, MessagesInOrder, MsgNo
<1>6. Flow(0, 0)
  BY <1>3, <1>4, <1>5 DEF Flow
<1> QED BY <1>1, <1>2, <1>6, InitTyped DEF FlowInvariant, FlowIInv

LEMMA FlowIsKept ==
    ASSUME ~SplitReads PROVE FlowIInv /\ [Next]_vars => FlowIInv'
<1>1. WireInvariant /\ UNCHANGED vars => WireInvariant'
  BY DEF vars, makerVars, engineVars, netVars, WireInvariant, OrdersInLine, WireIds,
         InHand
<1>2. ASSUME FlowInvariant, UNCHANGED vars PROVE FlowInvariant'
  <2>1. SidesAlternate'
    BY <1>2 DEF vars, engineVars, FlowInvariant, SidesAlternate, SideNo
  <2>2. PICK b, x \in Nat : Flow(b, x)
    BY <1>2 DEF FlowInvariant
  <2>3. FillsInOrder(b)' /\ Decoded(b)' = Decoded(b)
    BY <1>2, <2>2 DEF vars, makerVars, engineVars, Flow, FillsInOrder, Decoded, Booked
  <2>4. PiecesInOrder(Decoded(b), x)'
    BY <1>2, <2>2, <2>3 DEF vars, netVars, Flow, PiecesInOrder, Pieces
  <2>5. MessagesInOrder(x)'
    BY <1>2, <2>2 DEF vars, engineVars, netVars, Flow, MessagesInOrder
  <2> QED BY <2>1, <2>3, <2>4, <2>5 DEF FlowInvariant, Flow
<1> QED BY <1>1, <1>2, TypesStutter, TypesStep, WireStep, FlowStep DEF FlowIInv

(* With one report per read, what the exchange filled is booked once, in   *)
(* the order of the wire and as it was filled: at any moment the fills     *)
(* booked, those in the ring, the one in the engine's hand, the reports    *)
(* and the orders under way follow each other without gap or repetition.   *)
THEOREM FillsStayInOrder ==
    ASSUME ~SplitReads PROVE Spec => []FlowInvariant
<1>1. FlowIInv => FlowInvariant
  BY DEF FlowIInv
<1> QED BY <1>1, FlowHoldsInitially, FlowIsKept, PTL DEF Spec

(* With one report per read, the booked position is flat or one quote, for *)
(* any ring sizes, number of pairs and moment of the connection's end.     *)
THEOREM PositionWithinOneQuoteHolds ==
    ASSUME ~SplitReads PROVE Spec => []PositionWithinOneQuote
<1>1. FlowInvariant => PositionWithinOneQuote
  BY DEF FlowInvariant, Flow, FillsInOrder, Booked, PositionWithinOneQuote
<1> QED BY <1>1, FillsStayInOrder, PTL

---------------------------------------------------------------------------
(* The ledger.  What a side counts for, and sequences of sides that are    *)
(* one longer at the end or at the front.                                  *)

SideOrNone == {"B", "S", "-"}
Lot(side) == IF side = "B" THEN 1 ELSE IF side = "S" THEN -1 ELSE 0
Sides(s, n) == s \in [1..n -> SideOrNone]

(* s with one side more behind it is t.                                    *)
OneBehind(s, n, t) == Sides(s, n) /\ Sides(t, n + 1) /\ \A i \in 1..n : t[i] = s[i]
(* s without its first side is t.                                          *)
OneTaken(s, n, t) == Sides(s, n + 1) /\ Sides(t, n) /\ \A i \in 1..n : t[i] = s[i + 1]

LEMMA PlacesFinite ==
    ASSUME NEW n \in Nat, NEW s, Sides(s, n), NEW v
    PROVE  /\ Places(s, v) = {i \in 1..n : s[i] = v}
           /\ IsFiniteSet(Places(s, v)) /\ Cardinality(Places(s, v)) \in Nat
<1>1. Places(s, v) = {i \in 1..n : s[i] = v}
  BY DEF Places, Sides
<1>2. IsFiniteSet(1..n)
  BY FS_Interval
<1>3. IsFiniteSet(Places(s, v))
  BY <1>1, <1>2, FS_Subset
<1> QED BY <1>1, <1>3, FS_CardinalityType

LEMMA LotsTyped ==
    ASSUME NEW n \in Nat, NEW s, Sides(s, n)
    PROVE  Lots(s) \in Int
<1>1. Cardinality(Places(s, "B")) \in Nat /\ Cardinality(Places(s, "S")) \in Nat
  BY PlacesFinite
<1> QED BY <1>1 DEF Lots

LEMMA PlacesBehind ==
    ASSUME NEW n \in Nat, NEW s, NEW t, OneBehind(s, n, t), NEW v
    PROVE  Cardinality(Places(t, v)) =
             Cardinality(Places(s, v)) + (IF t[n + 1] = v THEN 1 ELSE 0)
<1>1. Sides(s, n) /\ Sides(t, n + 1) /\ n + 1 \in Nat
  BY DEF OneBehind
<1>2. /\ Places(s, v) = {i \in 1..n : s[i] = v} /\ IsFiniteSet(Places(s, v))
      /\ Cardinality(Places(s, v)) \in Nat
  BY <1>1, PlacesFinite
<1>3. Places(t, v) = {i \in 1..(n + 1) : t[i] = v}
  BY <1>1, PlacesFinite
<1>4. \A i \in 1..n : t[i] = s[i]
  BY DEF OneBehind
<1>5. CASE t[n + 1] = v
  <2>1. Places(t, v) = Places(s, v) \cup {n + 1} /\ n + 1 \notin Places(s, v)
    BY <1>2, <1>3, <1>4, <1>5
  <2>2. Cardinality(Places(s, v) \cup {n + 1}) = Cardinality(Places(s, v)) + 1
    BY <1>2, <2>1, FS_AddElement
  <2> QED BY <1>5, <2>1, <2>2
<1>6. CASE t[n + 1] # v
  <2>1. Places(t, v) = Places(s, v)
    BY <1>2, <1>3, <1>4, <1>6
  <2> QED BY <1>2, <1>6, <2>1
<1> QED BY <1>5, <1>6

LEMMA LotsBehind ==
    ASSUME NEW n \in Nat, NEW s, NEW t, OneBehind(s, n, t)
    PROVE  Lots(t) = Lots(s) + Lot(t[n + 1])
<1>1. Cardinality(Places(s, "B")) \in Nat /\ Cardinality(Places(s, "S")) \in Nat
  BY PlacesFinite DEF OneBehind
<1>2. Cardinality(Places(t, "B")) =
        Cardinality(Places(s, "B")) + (IF t[n + 1] = "B" THEN 1 ELSE 0)
  BY PlacesBehind
<1>3. Cardinality(Places(t, "S")) =
        Cardinality(Places(s, "S")) + (IF t[n + 1] = "S" THEN 1 ELSE 0)
  BY PlacesBehind
<1> QED BY <1>1, <1>2, <1>3 DEF Lots, Lot

(* The places move down by one, and the first is gone.                     *)
LEMMA PlacesTaken ==
    ASSUME NEW n \in Nat, NEW s, NEW t, OneTaken(s, n, t), NEW v
    PROVE  Cardinality(Places(s, v)) =
             Cardinality(Places(t, v)) + (IF s[1] = v THEN 1 ELSE 0)
<1>1. Sides(s, n + 1) /\ Sides(t, n) /\ n + 1 \in Nat
  BY DEF OneTaken
<1>2. /\ Places(t, v) = {i \in 1..n : t[i] = v} /\ IsFiniteSet(Places(t, v))
      /\ Cardinality(Places(t, v)) \in Nat
  BY <1>1, PlacesFinite
<1>3. Places(s, v) = {i \in 1..(n + 1) : s[i] = v}
  BY <1>1, PlacesFinite
<1>4. \A i \in 1..n : t[i] = s[i + 1]
  BY DEF OneTaken
<1> DEFINE Rest == {i \in 2..(n + 1) : s[i] = v}
           up == [i \in Places(t, v) |-> i + 1]
<1>5. up \in [Places(t, v) -> Rest]
  BY <1>2, <1>4
<1>6. up \in Injection(Places(t, v), Rest)
  <2>1. \A i, j \in DOMAIN up : up[i] = up[j] => i = j
    BY <1>2
  <2> QED BY <1>5, <2>1 DEF Injection, IsInjective
<1>7. up \in Surjection(Places(t, v), Rest)
  <2>1. ASSUME NEW j \in Rest PROVE \E i \in Places(t, v) : up[i] = j
    <3>1. j - 1 \in 1..n /\ (j - 1) + 1 = j
      OBVIOUS
    <3>2. t[j - 1] = s[j]
      BY <1>4, <3>1
    <3>3. j - 1 \in Places(t, v)
      BY <1>2, <3>1, <3>2
    <3> QED BY <3>1, <3>3
  <2> QED BY <1>5, <2>1 DEF Surjection
<1>8. ExistsBijection(Places(t, v), Rest)
  BY <1>6, <1>7 DEF ExistsBijection, Bijection
<1>9. IsFiniteSet(Rest) /\ Cardinality(Rest) = Cardinality(Places(t, v))
  BY <1>2, <1>8, FS_Bijection
<1>10. CASE s[1] = v
  <2>1. Places(s, v) = Rest \cup {1} /\ 1 \notin Rest
    BY <1>3, <1>10
  <2>2. Cardinality(Rest \cup {1}) = Cardinality(Rest) + 1
    BY <1>9, <2>1, FS_AddElement
  <2> QED BY <1>9, <1>10, <2>1, <2>2
<1>11. CASE s[1] # v
  <2>1. Places(s, v) = Rest
    BY <1>3, <1>11
  <2> QED BY <1>2, <1>9, <1>11, <2>1
<1> QED BY <1>10, <1>11

LEMMA LotsTaken ==
    ASSUME NEW n \in Nat, NEW s, NEW t, OneTaken(s, n, t)
    PROVE  Lots(s) = Lots(t) + Lot(s[1])
<1>1. Cardinality(Places(t, "B")) \in Nat /\ Cardinality(Places(t, "S")) \in Nat
  BY PlacesFinite DEF OneTaken
<1>2. Cardinality(Places(s, "B")) =
        Cardinality(Places(t, "B")) + (IF s[1] = "B" THEN 1 ELSE 0)
  BY PlacesTaken
<1>3. Cardinality(Places(s, "S")) =
        Cardinality(Places(t, "S")) + (IF s[1] = "S" THEN 1 ELSE 0)
  BY PlacesTaken
<1> QED BY <1>1, <1>2, <1>3 DEF Lots, Lot

LEMMA LotsOfNone ==
    ASSUME NEW s, DOMAIN s = {} PROVE Lots(s) = 0
<1>1. Places(s, "B") = {} /\ Places(s, "S") = {}
  BY DEF Places
<1>2. Cardinality({}) = 0
  BY FS_EmptySet
<1> QED BY <1>1, <1>2 DEF Lots

(* The side of one fill and of one piece.                                  *)
FillSide(fill) == IF fill.id = {} THEN "-" ELSE fill.side
PieceSide(piece) == IF piece.id = {} THEN "-" ELSE Only(piece.side)

LEMMA FillSidesTyped ==
    ASSUME NEW f \in Seq(Fill), NEW n \in Nat, Len(f) = n
    PROVE  Sides(FillSides(f), n) /\ \A i \in 1..n : FillSides(f)[i] = FillSide(f[i])
<1>1. DOMAIN f = 1..n /\ \A i \in 1..n : f[i] \in Fill
  BY LenProperties, ElementOfSeq
<1>2. FillSides(f) = [i \in 1..n |-> FillSide(f[i])]
  BY <1>1 DEF FillSides, FillSide
<1>3. \A i \in 1..n : FillSide(f[i]) \in SideOrNone
  BY <1>1 DEF FillSide, Fill, SideOrNone
<1> QED BY <1>2, <1>3 DEF Sides

LEMMA OrderSidesTyped ==
    ASSUME NEW f \in Seq(Order), NEW n \in Nat, Len(f) = n
    PROVE  Sides(OrderSides(f), n) /\ \A i \in 1..n : OrderSides(f)[i] = f[i].side
<1>1. DOMAIN f = 1..n /\ \A i \in 1..n : f[i] \in Order
  BY LenProperties, ElementOfSeq
<1>2. OrderSides(f) = [i \in 1..n |-> f[i].side]
  BY <1>1 DEF OrderSides
<1>3. \A i \in 1..n : f[i].side \in SideOrNone
  BY <1>1 DEF Order, SideOrNone
<1> QED BY <1>2, <1>3 DEF Sides

LEMMA LotsOfOne ==
    ASSUME NEW f \in Fill
    PROVE  /\ Lots(FillSides(<<f>>)) = Lot(FillSide(f))
           /\ Lots(FillSides(<<>>)) = 0
<1>1. /\ <<>> \in Seq(Fill) /\ Len(<<>>) = 0 /\ <<f>> \in Seq(Fill) /\ Len(<<f>>) = 1
      /\ <<f>>[1] = f
  OBVIOUS
<1>2. Sides(FillSides(<<>>), 0) /\ DOMAIN FillSides(<<>>) = {}
  <2>1. Sides(FillSides(<<>>), 0)
    BY <1>1, FillSidesTyped
  <2> QED BY <2>1 DEF Sides
<1>3. Sides(FillSides(<<f>>), 1) /\ FillSides(<<f>>)[1] = FillSide(f)
  <2>1. PICK one \in Seq(Fill) : one = <<f>> /\ Len(one) = 1 /\ one[1] = f
    BY <1>1
  <2>2. Sides(FillSides(one), 1) /\ \A i \in 1..1 : FillSides(one)[i] = FillSide(one[i])
    BY <2>1, FillSidesTyped
  <2> QED BY <2>1, <2>2
<1>4. Lots(FillSides(<<>>)) = 0
  BY <1>2, LotsOfNone
<1>5. OneBehind(FillSides(<<>>), 0, FillSides(<<f>>))
  BY <1>2, <1>3 DEF OneBehind
<1>6. Lots(FillSides(<<f>>)) = Lots(FillSides(<<>>)) + Lot(FillSides(<<f>>)[0 + 1])
  BY <1>5, LotsBehind
<1>7. Lot(FillSide(f)) \in Int
  BY DEF Lot
<1> QED BY <1>3, <1>4, <1>6, <1>7

(* What is counted at the front and at the back of a ring of fills.        *)
LEMMA FillsTaken ==
    ASSUME NEW f \in Seq(Fill), f # <<>>
    PROVE  Lots(FillSides(f)) = Lots(FillSides(Tail(f))) + Lot(FillSide(Head(f)))
<1>1. PICK n \in Nat : n = Len(Tail(f))
  BY HeadTailProperties, LenProperties
<1>2. /\ Len(f) = n + 1 /\ Tail(f) \in Seq(Fill) /\ Head(f) = f[1]
      /\ \A i \in 1..n : Tail(f)[i] = f[i + 1]
  BY <1>1, HeadTailProperties, LenProperties
<1>3. /\ Sides(FillSides(f), n + 1)
      /\ \A i \in 1..(n + 1) : FillSides(f)[i] = FillSide(f[i])
  <2>1. n + 1 \in Nat
    OBVIOUS
  <2> QED BY <1>2, <2>1, FillSidesTyped
<1>4. /\ Sides(FillSides(Tail(f)), n)
      /\ \A i \in 1..n : FillSides(Tail(f))[i] = FillSide(Tail(f)[i])
  BY <1>1, <1>2, FillSidesTyped
<1>5. OneTaken(FillSides(f), n, FillSides(Tail(f)))
  BY <1>2, <1>3, <1>4 DEF OneTaken
<1>6. FillSides(f)[1] = FillSide(Head(f))
  BY <1>2, <1>3
<1> QED BY <1>5, <1>6, LotsTaken

LEMMA FillsBehind ==
    ASSUME NEW f \in Seq(Fill), NEW g \in Fill
    PROVE  Lots(FillSides(Append(f, g))) = Lots(FillSides(f)) + Lot(FillSide(g))
<1>1. PICK n \in Nat : n = Len(f)
  BY LenProperties
<1>2. PICK t \in Seq(Fill) : t = Append(f, g)
  BY AppendProperties
<1>3. Len(t) = n + 1 /\ t[n + 1] = g /\ \A i \in 1..n : t[i] = f[i]
  BY <1>1, <1>2, AppendProperties
<1>4. Sides(FillSides(f), n) /\ \A i \in 1..n : FillSides(f)[i] = FillSide(f[i])
  BY <1>1, FillSidesTyped
<1>5. /\ Sides(FillSides(t), n + 1)
      /\ \A i \in 1..(n + 1) : FillSides(t)[i] = FillSide(t[i])
  <2>1. n + 1 \in Nat
    OBVIOUS
  <2> QED BY <1>3, <2>1, FillSidesTyped
<1>6. OneBehind(FillSides(f), n, FillSides(t)) /\ FillSides(t)[n + 1] = FillSide(g)
  BY <1>3, <1>4, <1>5 DEF OneBehind
<1> QED BY <1>2, <1>6, LotsBehind

LEMMA OrdersBehind ==
    ASSUME NEW f \in Seq(Order), NEW g \in Order
    PROVE  Lots(OrderSides(Append(f, g))) = Lots(OrderSides(f)) + Lot(g.side)
<1>1. PICK n \in Nat : n = Len(f)
  BY LenProperties
<1>2. PICK t \in Seq(Order) : t = Append(f, g)
  BY AppendProperties
<1>3. Len(t) = n + 1 /\ t[n + 1] = g /\ \A i \in 1..n : t[i] = f[i]
  BY <1>1, <1>2, AppendProperties
<1>4. Sides(OrderSides(f), n) /\ \A i \in 1..n : OrderSides(f)[i] = f[i].side
  BY <1>1, OrderSidesTyped
<1>5. /\ Sides(OrderSides(t), n + 1)
      /\ \A i \in 1..(n + 1) : OrderSides(t)[i] = t[i].side
  <2>1. n + 1 \in Nat
    OBVIOUS
  <2> QED BY <1>3, <2>1, OrderSidesTyped
<1>6. OneBehind(OrderSides(f), n, OrderSides(t)) /\ OrderSides(t)[n + 1] = g.side
  BY <1>3, <1>4, <1>5 DEF OneBehind
<1> QED BY <1>2, <1>6, LotsBehind

(* The sides of n pieces of the stream after its first lo.                 *)
StreamSides(lo, n) == [i \in 1..n |-> PieceSide(PieceNo(lo + i))]

LEMMA StreamSide ==
    ASSUME NEW j \in Nat \ {0}
    PROVE  /\ PieceSide(PieceNo(j)) \in SideOrNone
           /\ j % 2 = 0 => PieceSide(PieceNo(j)) = SideNo(j \div 2)
           /\ j % 2 # 0 => PieceSide(PieceNo(j)) = "-"
<1>1. CASE j % 2 = 0
  <2>1. j # 1
    BY <1>1
  <2>2. PieceNo(j) = NamePiece(OrderNo(j \div 2))
    BY <1>1, <2>1 DEF PieceNo
  <2>3. PieceNo(j).id = {(j \div 2) - 1} /\ PieceNo(j).side = {SideNo(j \div 2)}
    BY <2>2 DEF NamePiece, OrderNo
  <2>4. PieceNo(j).id # {}
    BY <2>3
  <2>5. PieceSide(PieceNo(j)) = SideNo(j \div 2)
    BY <2>3, <2>4, OnlyOne DEF PieceSide
  <2> QED BY <1>1, <2>5 DEF SideNo, SideOrNone
<1>2. CASE j % 2 # 0
  <2>1. PieceNo(j).id = {}
    BY <1>2 DEF PieceNo, LogonPiece, QtyPiece
  <2> QED BY <1>2, <2>1 DEF PieceSide, SideOrNone
<1> QED BY <1>1, <1>2

LEMMA StreamMoves ==
    ASSUME NEW lo \in Nat, NEW n \in Nat
    PROVE  /\ Sides(StreamSides(lo, n), n)
           /\ Lots(StreamSides(lo, n + 1)) =
                Lots(StreamSides(lo, n)) + Lot(PieceSide(PieceNo(lo + n + 1)))
           /\ Lots(StreamSides(lo, n + 1)) =
                Lots(StreamSides(lo + 1, n)) + Lot(PieceSide(PieceNo(lo + 1)))
<1>1. ASSUME NEW a \in Nat, NEW m \in Nat
      PROVE  /\ Sides(StreamSides(a, m), m)
             /\ \A i \in 1..m : StreamSides(a, m)[i] = PieceSide(PieceNo(a + i))
  <2>1. \A i \in 1..m : PieceSide(PieceNo(a + i)) \in SideOrNone
    <3>1. \A i \in 1..m : a + i \in Nat \ {0}
      OBVIOUS
    <3> QED BY <3>1, StreamSide
  <2> QED BY <2>1 DEF Sides, StreamSides
<1>2. PICK s, t, u : /\ s = StreamSides(lo, n) /\ t = StreamSides(lo, n + 1)
                     /\ u = StreamSides(lo + 1, n)
  OBVIOUS
<1>3. /\ Sides(s, n) /\ Sides(t, n + 1) /\ Sides(u, n)
      /\ \A i \in 1..n : s[i] = PieceSide(PieceNo(lo + i))
      /\ \A i \in 1..(n + 1) : t[i] = PieceSide(PieceNo(lo + i))
      /\ \A i \in 1..n : u[i] = PieceSide(PieceNo(lo + 1 + i))
  <2>1. n + 1 \in Nat /\ lo + 1 \in Nat
    OBVIOUS
  <2> QED BY <1>1, <1>2, <2>1
<1>4. OneBehind(s, n, t)
  <2>1. \A i \in 1..n : i \in 1..(n + 1)
    OBVIOUS
  <2> QED BY <1>3, <2>1 DEF OneBehind
<1>5. OneTaken(t, n, u)
  <2>1. \A i \in 1..n : i + 1 \in 1..(n + 1) /\ lo + (i + 1) = lo + 1 + i
    OBVIOUS
  <2> QED BY <1>3, <2>1 DEF OneTaken
<1>6. /\ t[n + 1] = PieceSide(PieceNo(lo + n + 1))
      /\ t[1] = PieceSide(PieceNo(lo + 1))
  <2>1. n + 1 \in 1..(n + 1) /\ 1 \in 1..(n + 1) /\ lo + (n + 1) = lo + n + 1
    OBVIOUS
  <2> QED BY <1>3, <2>1
<1>7. Lots(t) = Lots(s) + Lot(t[n + 1])
  BY <1>4, LotsBehind
<1>8. Lots(t) = Lots(u) + Lot(t[1])
  BY <1>5, LotsTaken
<1> QED BY <1>2, <1>3, <1>6, <1>7, <1>8

LEMMA PiecesAreStream ==
    ASSUME NEW bytes \in Seq(Piece), NEW lo \in Nat, NEW n \in Nat, Len(bytes) = n,
           \A i \in 1..n : bytes[i] = PieceNo(lo + i)
    PROVE  PieceSides(bytes) = StreamSides(lo, n)
<1>1. DOMAIN bytes = 1..n
  BY LenProperties
<1> QED BY <1>1 DEF PieceSides, PieceSide, StreamSides

(* The lots still to be booked.                                            *)
PieceLots == Lots(PieceSides(fromExchange))
HandLots == Lots(HandSides)
RingLots == Lots(FillSides(fillRing))
DoneLots == Lots(OrderSides(executed))
LotsBooked == DoneLots - PieceLots - HandLots - RingLots

LEMMA StreamCounted ==
    ASSUME fromExchange \in Seq(Piece), NEW d \in Nat, NEW x \in Nat, PiecesInOrder(d, x)
    PROVE  /\ Pieces(d) \in Nat /\ Pieces(x) - Pieces(d) \in Nat
           /\ PieceLots = Lots(StreamSides(Pieces(d), Pieces(x) - Pieces(d)))
<1>1. Pieces(d) \in Nat
  BY DEF Pieces
<1>2. PICK n \in Nat : n = Len(fromExchange)
  BY LenProperties
<1>3. n = Pieces(x) - Pieces(d) /\ \A i \in 1..n : fromExchange[i] = PieceNo(Pieces(d) + i)
  BY <1>2 DEF PiecesInOrder
<1>4. PieceSides(fromExchange) = StreamSides(Pieces(d), n)
  BY <1>1, <1>2, <1>3, PiecesAreStream
<1> QED BY <1>1, <1>2, <1>3, <1>4 DEF PieceLots

(* Item k of the stream is in two pieces, and the logon in one.            *)
LEMMA ItemCounted ==
    ASSUME NEW k \in Nat, NEW n \in Nat
    PROVE  LET m == Pieces(k + 1) - Pieces(k) IN
           /\ m \in Nat
           /\ Lots(StreamSides(Pieces(k), n + m)) =
                Lots(StreamSides(Pieces(k + 1), n)) + Lot(FillSide(FillNo(k)))
<1>1. CASE k = 0
  <2>1. Pieces(k) = 0 /\ Pieces(k + 1) = 1
    BY <1>1 DEF Pieces
  <2>2. Lots(StreamSides(0, n + 1)) = Lots(StreamSides(0 + 1, n)) + Lot(PieceSide(PieceNo(0 + 1)))
    BY StreamMoves
  <2>3. PieceSide(PieceNo(1)) = "-"
    BY StreamSide
  <2>4. FillSide(FillNo(k)) = "-"
    BY <1>1 DEF FillSide, FillNo, NoFill
  <2> QED BY <2>1, <2>2, <2>3, <2>4
<1>2. CASE k # 0
  <2>1. Pieces(k) = 2 * k - 1 /\ Pieces(k + 1) = 2 * k + 1
    BY <1>2 DEF Pieces
  <2>2. PICK lo \in Nat : lo = 2 * k - 1
    BY <1>2
  <2>3. Lots(StreamSides(lo, n + 1 + 1)) =
          Lots(StreamSides(lo + 1, n + 1)) + Lot(PieceSide(PieceNo(lo + 1)))
    <3>1. n + 1 \in Nat
      OBVIOUS
    <3> QED BY <3>1, StreamMoves
  <2>4. Lots(StreamSides(lo + 1, n + 1)) =
          Lots(StreamSides(lo + 1 + 1, n)) + Lot(PieceSide(PieceNo(lo + 1 + 1)))
    <3>1. lo + 1 \in Nat
      OBVIOUS
    <3> QED BY <3>1, StreamMoves
  <2>5. PieceSide(PieceNo(2 * k)) = SideNo(k)
    <3>1. 2 * k \in Nat \ {0} /\ (2 * k) % 2 = 0 /\ (2 * k) \div 2 = k
      BY <1>2
    <3> QED BY <3>1, StreamSide
  <2>6. PieceSide(PieceNo(2 * k + 1)) = "-"
    <3>1. 2 * k + 1 \in Nat \ {0} /\ (2 * k + 1) % 2 # 0
      BY <1>2
    <3> QED BY <3>1, StreamSide
  <2>7. FillSide(FillNo(k)) = SideNo(k)
    <3>1. FillNo(k).id = {k - 1} /\ FillNo(k).side = SideNo(k)
      BY <1>2 DEF FillNo
    <3>2. FillNo(k).id # {}
      BY <3>1
    <3> QED BY <3>1, <3>2 DEF FillSide
  <2>8. lo + 1 = 2 * k /\ lo + 1 + 1 = 2 * k + 1 /\ n + 1 + 1 = n + 2
    BY <2>2
  <2>9. Pieces(k + 1) - Pieces(k) = 2
    BY <2>1
  <2>10. Lots(StreamSides(2 * k + 1, n)) \in Int /\ Lot("-") = 0
    <3>1. Sides(StreamSides(2 * k + 1, n), n)
      BY StreamMoves
    <3> QED BY <3>1, LotsTyped DEF Lot
  <2>11. Lots(StreamSides(Pieces(k), n + 2)) =
           Lots(StreamSides(2 * k + 1, n)) + 0 + Lot(SideNo(k))
    BY <2>1, <2>2, <2>3, <2>4, <2>5, <2>6, <2>8, <2>10
  <2> QED BY <2>1, <2>7, <2>9, <2>10, <2>11
<1> QED BY <1>1, <1>2

LEMMA ItemAnswered ==
    ASSUME NEW k \in Nat, NEW n \in Nat, NEW lo \in Nat, lo + n = Pieces(k)
    PROVE  LET m == Pieces(k + 1) - Pieces(k) IN
           Lots(StreamSides(lo, n + m)) =
                Lots(StreamSides(lo, n)) + Lot(FillSide(FillNo(k)))
<1>1. CASE k = 0
  <2>1. Pieces(k) = 0 /\ Pieces(k + 1) = 1 /\ lo + n + 1 = 1
    BY <1>1 DEF Pieces
  <2>2. Lots(StreamSides(lo, n + 1)) = Lots(StreamSides(lo, n)) + Lot(PieceSide(PieceNo(lo + n + 1)))
    BY StreamMoves
  <2>3. PieceSide(PieceNo(1)) = "-"
    BY StreamSide
  <2>4. FillSide(FillNo(k)) = "-"
    BY <1>1 DEF FillSide, FillNo, NoFill
  <2>5. Pieces(k + 1) - Pieces(k) = 1
    BY <2>1
  <2> QED BY <2>1, <2>2, <2>3, <2>4, <2>5
<1>2. CASE k # 0
  <2>1. Pieces(k) = 2 * k - 1 /\ Pieces(k + 1) = 2 * k + 1
    BY <1>2 DEF Pieces
  <2>3. Lots(StreamSides(lo, n + 1)) =
          Lots(StreamSides(lo, n)) + Lot(PieceSide(PieceNo(lo + n + 1)))
    BY StreamMoves
  <2>4. Lots(StreamSides(lo, n + 1 + 1)) =
          Lots(StreamSides(lo, n + 1)) + Lot(PieceSide(PieceNo(lo + (n + 1) + 1)))
    <3>1. n + 1 \in Nat
      OBVIOUS
    <3> QED BY <3>1, StreamMoves
  <2>5. PieceSide(PieceNo(2 * k)) = SideNo(k)
    <3>1. 2 * k \in Nat \ {0} /\ (2 * k) % 2 = 0 /\ (2 * k) \div 2 = k
      BY <1>2
    <3> QED BY <3>1, StreamSide
  <2>6. PieceSide(PieceNo(2 * k + 1)) = "-"
    <3>1. 2 * k + 1 \in Nat \ {0} /\ (2 * k + 1) % 2 # 0
      BY <1>2
    <3> QED BY <3>1, StreamSide
  <2>7. FillSide(FillNo(k)) = SideNo(k)
    <3>1. FillNo(k).id = {k - 1} /\ FillNo(k).side = SideNo(k)
      BY <1>2 DEF FillNo
    <3>2. FillNo(k).id # {}
      BY <3>1
    <3> QED BY <3>1, <3>2 DEF FillSide
  <2>8. lo + n + 1 = 2 * k /\ lo + (n + 1) + 1 = 2 * k + 1 /\ n + 1 + 1 = n + 2
    BY <2>1
  <2>9. Pieces(k + 1) - Pieces(k) = 2
    BY <2>1
  <2>10. Lots(StreamSides(lo, n)) \in Int /\ Lot("-") = 0 /\ Lot(SideNo(k)) \in Int
    <3>1. Sides(StreamSides(lo, n), n)
      BY StreamMoves
    <3> QED BY <3>1, LotsTyped DEF Lot
  <2>11. Lots(StreamSides(lo, n + 2)) = Lots(StreamSides(lo, n)) + Lot(SideNo(k)) + 0
    BY <2>3, <2>4, <2>5, <2>6, <2>8, <2>10
  <2> QED BY <2>7, <2>9, <2>10, <2>11
<1> QED BY <1>1, <1>2

LEMMA LotsAreInts ==
    ASSUME LoopTypes, NEW d \in Nat, NEW x \in Nat, PiecesInOrder(d, x)
    PROVE  PieceLots \in Int /\ HandLots \in Int /\ RingLots \in Int /\ DoneLots \in Int
<1>1. /\ fillRing \in Seq(Fill) /\ executed \in Seq(Order) /\ fromExchange \in Seq(Piece)
      /\ enFill \in Fill
  BY DEF LoopTypes, RingsTypeOK, EngineTypeOK, NetTypeOK
<1>2. DoneLots \in Int
  <2>1. PICK n \in Nat : n = Len(executed)
    BY <1>1, LenProperties
  <2>2. Sides(OrderSides(executed), n)
    BY <1>1, <2>1, OrderSidesTyped
  <2> QED BY <2>2, LotsTyped DEF DoneLots
<1>3. ASSUME NEW f \in Seq(Fill) PROVE Lots(FillSides(f)) \in Int
  <2>1. PICK n \in Nat : n = Len(f)
    BY LenProperties
  <2>2. Sides(FillSides(f), n)
    BY <2>1, FillSidesTyped
  <2> QED BY <2>2, LotsTyped
<1>4. RingLots \in Int
  BY <1>1, <1>3 DEF RingLots
<1>5. HandLots \in Int
  <2>1. (IF enPc = "publish" THEN <<enFill>> ELSE <<>>) \in Seq(Fill)
    BY <1>1
  <2> QED BY <1>3, <2>1 DEF HandLots, HandSides
<1>6. PieceLots \in Int
  <2>1. PICK n \in Nat : n = Pieces(x) - Pieces(d)
    BY <1>1, StreamCounted
  <2>2. PieceLots = Lots(StreamSides(Pieces(d), n)) /\ Pieces(d) \in Nat
    BY <1>1, <2>1, StreamCounted
  <2>3. Sides(StreamSides(Pieces(d), n), n)
    BY <2>2, StreamMoves
  <2> QED BY <2>2, <2>3, LotsTyped
<1> QED BY <1>2, <1>4, <1>5, <1>6

LEMMA LedgerByLots ==
    LedgerAgrees <=> position = QuoteSize * LotsBooked
BY DEF LedgerAgrees, LotsBooked, DoneLots, PieceLots, HandLots, RingLots

(* A step that books nothing and loses nothing.                            *)
LEMMA LedgerKept ==
    ASSUME LedgerAgrees, position' = position, LotsBooked' = LotsBooked
    PROVE  LedgerAgrees'
<1>1. position' = QuoteSize * LotsBooked'
  BY LedgerByLots
<1> QED BY <1>1 DEF LedgerAgrees, LotsBooked, DoneLots, PieceLots, HandLots, RingLots

LEMMA ReadFillBooks ==
    ASSUME LoopTypes, NEW b \in Nat, FillsInOrder(b), NEW x \in Nat,
           PiecesInOrder(Decoded(b), x), LedgerAgrees, ReadFill
    PROVE  LedgerAgrees'
<1>1. /\ fillRing # <<>> /\ fillRing \in Seq(Fill) /\ fillRing' = Tail(fillRing)
      /\ position \in Int /\ position' = BookFill(Head(fillRing))
      /\ UNCHANGED <<enPc, enFill, fromExchange, executed>>
  BY DEF LoopTypes, MakerTypeOK, RingsTypeOK, ReadFill, engineVars, netVars
<1>2. Head(fillRing) = FillNo(b) /\ Head(fillRing) \in Fill
  <2>1. Head(fillRing) = fillRing[1] /\ Len(fillRing) \in Nat \ {0}
    BY <1>1, HeadTailProperties, LenProperties
  <2> QED BY <1>1, <2>1, HeadTailProperties DEF FillsInOrder
<1>3. PICK l \in Int : l = Lot(FillSide(FillNo(b)))
  BY DEF Lot
<1>4. RingLots = RingLots' + l
  BY <1>1, <1>2, <1>3, FillsTaken DEF RingLots
<1>5. PieceLots' = PieceLots /\ HandLots' = HandLots /\ DoneLots' = DoneLots
  BY <1>1 DEF PieceLots, HandLots, HandSides, DoneLots
<1>6. Decoded(b) \in Nat
  <2>1. Len(fillRing) \in Nat
    BY <1>1, LenProperties
  <2> QED BY <2>1 DEF Decoded
<1>7. PieceLots \in Int /\ HandLots \in Int /\ RingLots \in Int /\ DoneLots \in Int
  BY <1>6, LotsAreInts
<1>8. RingLots' \in Int
  <2>1. fillRing' \in Seq(Fill)
    BY <1>1, HeadTailProperties
  <2>2. PICK n \in Nat : n = Len(fillRing')
    BY <2>1, LenProperties
  <2>3. Sides(FillSides(fillRing'), n)
    BY <2>1, <2>2, FillSidesTyped
  <2>4. Lots(FillSides(fillRing')) \in Int
    BY <2>3, LotsTyped
  <2> QED BY <2>4 DEF RingLots
<1>9. LotsBooked' = LotsBooked + l /\ LotsBooked \in Int
  BY <1>3, <1>4, <1>5, <1>7, <1>8 DEF LotsBooked
<1>10. QuoteSize \in Nat
  BY LoopAssumption
<1>11. position' = position + QuoteSize * l
  <2>1. CASE b = 0
    <3>1. l = 0 /\ BookFill(FillNo(b)) = position
      BY <1>3, <2>1 DEF FillNo, NoFill, FillSide, Lot, BookFill
    <3> QED BY <1>1, <1>2, <1>10, <3>1
  <2>2. CASE b # 0
    <3>1. /\ FillNo(b).id = {b - 1} /\ FillNo(b).side = SideNo(b)
          /\ FillNo(b).qty = QuoteSize
      BY <2>2 DEF FillNo
    <3>2. FillNo(b).id # {}
      BY <3>1
    <3>3. l = Lot(SideNo(b)) /\ BookFill(FillNo(b)) = position + Signed(SideNo(b), QuoteSize)
      BY <1>3, <3>1, <3>2 DEF FillSide, BookFill
    <3>4. Signed(SideNo(b), QuoteSize) = QuoteSize * Lot(SideNo(b))
      BY <1>10 DEF Signed, SideNo, Lot
    <3> QED BY <1>1, <1>2, <3>3, <3>4
  <2> QED BY <2>1, <2>2
<1>12. position = QuoteSize * LotsBooked
  BY LedgerByLots
<1>13. ASSUME NEW q \in Nat, NEW p \in Int, NEW k \in Int
       PROVE  q * (p + k) = q * p + q * k
  BY <1>13
<1>14. position' = QuoteSize * LotsBooked'
  BY <1>3, <1>9, <1>10, <1>11, <1>12, <1>13
<1> QED BY <1>14 DEF LedgerAgrees, LotsBooked, DoneLots, PieceLots, HandLots, RingLots

LEMMA PublishFillKeeps ==
    ASSUME LoopTypes, NEW d \in Nat, NEW x \in Nat, PiecesInOrder(d, x),
           LedgerAgrees, PublishFill
    PROVE  LedgerAgrees'
<1>1. /\ fillRing \in Seq(Fill) /\ enFill \in Fill /\ enPc = "publish"
      /\ fillRing' = Append(fillRing, enFill) /\ enPc' = "order" /\ position' = position
      /\ UNCHANGED <<fromExchange, executed, enFill>>
  BY DEF LoopTypes, RingsTypeOK, EngineTypeOK, PublishFill, makerVars, netVars
<1>2. PICK l \in Int : l = Lot(FillSide(enFill))
  BY DEF Lot
<1>3. RingLots' = RingLots + l
  BY <1>1, <1>2, FillsBehind DEF RingLots
<1>4. HandLots = l /\ HandLots' = 0
  <2>1. Lots(FillSides(<<enFill>>)) = l /\ Lots(FillSides(<<>>)) = 0
    BY <1>1, <1>2, LotsOfOne
  <2>2. HandSides = FillSides(<<enFill>>) /\ HandSides' = FillSides(<<>>)
    BY <1>1 DEF HandSides
  <2> QED BY <2>1, <2>2 DEF HandLots
<1>5. PieceLots' = PieceLots /\ DoneLots' = DoneLots
  BY <1>1 DEF PieceLots, DoneLots
<1>6. PieceLots \in Int /\ RingLots \in Int /\ DoneLots \in Int
  BY LotsAreInts
<1>7. LotsBooked' = LotsBooked
  BY <1>2, <1>3, <1>4, <1>5, <1>6 DEF LotsBooked
<1> QED BY <1>1, <1>7, LedgerKept

LEMMA ReadReportsKeeps ==
    ASSUME LoopTypes, LoopTypes', NEW b \in Nat, NEW d \in Nat, NEW x \in Nat, ~SplitReads,
           FillsInOrder(b), Decoded(b) = d, PiecesInOrder(d, x), LedgerAgrees, ReadReports
    PROVE  LedgerAgrees'
<1>1. /\ enPc = "reports" /\ enPc' = "publish"
      /\ UNCHANGED <<position, fillRing, executed>>
      /\ fromExchange \in Seq(Piece) /\ fromExchange' \in Seq(Piece) /\ enFill' \in Fill
      /\ enFill \in Fill
  BY DEF ReadReports, makerVars, LoopTypes, NetTypeOK, EngineTypeOK
<1>2. FillsInOrder(b)' /\ PiecesInOrder(d + 1, x)'
  BY ReadReportsMoves
<1>3. enFill' = FillNo(d)
  <2>1. enFill' = FillNo(b + Len(fillRing))
    BY <1>1, <1>2 DEF FillsInOrder
  <2>2. Decoded(b) = b + Len(fillRing)
    <3>1. Len(fillRing) \in Nat
      BY LenProperties DEF LoopTypes, RingsTypeOK
    <3> QED BY <1>1, <3>1 DEF Decoded
  <2> QED BY <2>1, <2>2
<1>4. PICK l \in Int : l = Lot(FillSide(FillNo(d)))
  BY DEF Lot
<1>5. HandLots = 0 /\ HandLots' = l
  <2>1. Lots(FillSides(<<enFill'>>)) = l
    BY <1>1, <1>3, <1>4, LotsOfOne
  <2>2. HandSides = FillSides(<<>>) /\ HandSides' = FillSides(<<enFill'>>)
    BY <1>1 DEF HandSides
  <2>3. Lots(FillSides(<<>>)) = 0
    BY <1>1, LotsOfOne
  <2> QED BY <2>1, <2>2, <2>3 DEF HandLots
<1>6. PieceLots = PieceLots' + l
  <2>1. PICK n \in Nat :
           n = Pieces(x) - Pieces(d + 1) /\ PieceLots' = Lots(StreamSides(Pieces(d + 1), n))
    <3>1. PICK n : n = Len(fromExchange')
      OBVIOUS
    <3>2. n \in Nat
      BY <1>1, <3>1, LenProperties
    <3>3. /\ n = Pieces(x) - Pieces(d + 1)
          /\ \A i \in 1..n : fromExchange'[i] = PieceNo(Pieces(d + 1) + i)
      BY <1>2, <3>1 DEF PiecesInOrder, Pieces
    <3>4. Pieces(d + 1) \in Nat
      BY DEF Pieces
    <3>5. PieceSides(fromExchange') = StreamSides(Pieces(d + 1), n)
      BY <1>1, <3>1, <3>2, <3>3, <3>4, PiecesAreStream
    <3> QED BY <3>2, <3>3, <3>5 DEF PieceLots
  <2>2. PieceLots = Lots(StreamSides(Pieces(d), Pieces(x) - Pieces(d)))
    BY <1>1, StreamCounted
  <2>3. Lots(StreamSides(Pieces(d), n + (Pieces(d + 1) - Pieces(d)))) =
          Lots(StreamSides(Pieces(d + 1), n)) + Lot(FillSide(FillNo(d)))
    BY ItemCounted
  <2>4. n + (Pieces(d + 1) - Pieces(d)) = Pieces(x) - Pieces(d)
    <3>1. Pieces(d) \in Int /\ Pieces(x) \in Int /\ Pieces(d + 1) \in Int
      BY DEF Pieces
    <3> QED BY <2>1, <3>1
  <2> QED BY <1>4, <2>1, <2>2, <2>3, <2>4
<1>7. RingLots' = RingLots /\ DoneLots' = DoneLots
  BY <1>1 DEF RingLots, DoneLots
<1>8. PieceLots \in Int /\ RingLots \in Int /\ DoneLots \in Int
  BY LotsAreInts
<1>9. PieceLots' \in Int
  <2>1. d + 1 \in Nat
    OBVIOUS
  <2>2. PICK c \in Nat : c = d + 1
    BY <2>1
  <2>3. PICK n \in Nat : n = Len(fromExchange')
    BY <1>1, LenProperties
  <2>4. /\ \A i \in 1..n : fromExchange'[i] = PieceNo(Pieces(c) + i)
    BY <1>2, <2>2, <2>3 DEF PiecesInOrder, Pieces
  <2>5. Pieces(c) \in Nat
    BY DEF Pieces
  <2>6. PieceSides(fromExchange') = StreamSides(Pieces(c), n)
    BY <1>1, <2>3, <2>4, <2>5, PiecesAreStream
  <2>7. Sides(StreamSides(Pieces(c), n), n)
    BY <2>5, StreamMoves
  <2> QED BY <2>6, <2>7, LotsTyped DEF PieceLots
<1>10. LotsBooked' = LotsBooked
  BY <1>4, <1>5, <1>6, <1>7, <1>8, <1>9 DEF LotsBooked
<1> QED BY <1>1, <1>10, LedgerKept

LEMMA HandleMessageKeeps ==
    ASSUME LoopTypes, LoopTypes', NEW d \in Nat, NEW x \in Nat,
           PiecesInOrder(d, x), MessagesInOrder(x), LedgerAgrees, HandleMessage
    PROVE  LedgerAgrees'
<1>1. /\ toExchange # <<>> /\ toExchange \in Seq(Order \cup {Logon})
      /\ UNCHANGED <<position, fillRing, enPc, enFill>>
      /\ fromExchange \in Seq(Piece) /\ fromExchange' \in Seq(Piece)
      /\ executed \in Seq(Order)
      /\ executed' = IF Head(toExchange) = Logon THEN executed
                     ELSE Append(executed, Head(toExchange))
  BY DEF HandleMessage, makerVars, engineVars, LoopTypes, NetTypeOK
<1>2. PiecesInOrder(d, x + 1)'
  BY HandleMessageMoves
<1>3. Head(toExchange) = MsgNo(x) /\ Head(toExchange) \in Order \cup {Logon}
  <2>1. Head(toExchange) = toExchange[1] /\ Len(toExchange) \in Nat \ {0}
    BY <1>1, HeadTailProperties, LenProperties
  <2> QED BY <1>1, <2>1, HeadTailProperties DEF MessagesInOrder
<1>4. PICK l \in Int : l = Lot(FillSide(FillNo(x)))
  BY DEF Lot
<1>5. PieceLots \in Int /\ RingLots \in Int /\ DoneLots \in Int /\ HandLots \in Int
  BY LotsAreInts
<1>6. DoneLots' = DoneLots + l
  <2>1. CASE x = 0
    <3>1. Head(toExchange) = Logon /\ l = 0
      BY <1>3, <1>4, <2>1 DEF MsgNo, FillNo, NoFill, FillSide, Lot
    <3> QED BY <1>1, <1>5, <3>1 DEF DoneLots
  <2>2. CASE x # 0
    <3>1. MsgNo(x) = OrderNo(x) /\ OrderNo(x) # Logon /\ OrderNo(x).side = SideNo(x)
      BY <2>2 DEF MsgNo, OrderNo, Logon, None
    <3>2. FillNo(x).id = {x - 1} /\ FillNo(x).side = SideNo(x)
      BY <2>2 DEF FillNo
    <3>3. FillSide(FillNo(x)) = SideNo(x)
      <4>1. FillNo(x).id # {}
        BY <3>2
      <4> QED BY <3>2, <4>1 DEF FillSide
    <3>4. PICK o \in Order : o = OrderNo(x)
      BY <1>3, <3>1
    <3>5. executed' = Append(executed, o)
      BY <1>1, <1>3, <3>1, <3>4
    <3>6. Lots(OrderSides(Append(executed, o))) = Lots(OrderSides(executed)) + Lot(o.side)
      BY <1>1, OrdersBehind
    <3> QED BY <1>4, <3>1, <3>3, <3>4, <3>5, <3>6 DEF DoneLots
  <2> QED BY <2>1, <2>2
<1>7. PieceLots' = PieceLots + l
  <2>1. PICK n \in Nat :
           n = Pieces(x) - Pieces(d) /\ PieceLots = Lots(StreamSides(Pieces(d), n))
    BY <1>1, StreamCounted
  <2>2. Pieces(d) \in Nat /\ Pieces(x) \in Int /\ Pieces(x + 1) \in Int
    BY DEF Pieces
  <2>3. PieceLots' = Lots(StreamSides(Pieces(d), Pieces(x + 1) - Pieces(d)))
    <3>1. PICK m : m = Len(fromExchange')
      OBVIOUS
    <3>2. m \in Nat
      BY <1>1, <3>1, LenProperties
    <3>3. /\ m = Pieces(x + 1) - Pieces(d)
          /\ \A i \in 1..m : fromExchange'[i] = PieceNo(Pieces(d) + i)
      BY <1>2, <3>1 DEF PiecesInOrder, Pieces
    <3>4. PieceSides(fromExchange') = StreamSides(Pieces(d), m)
      BY <1>1, <2>2, <3>1, <3>2, <3>3, PiecesAreStream
    <3> QED BY <3>3, <3>4 DEF PieceLots
  <2>4. Pieces(d) + n = Pieces(x)
    BY <2>1, <2>2
  <2>5. Lots(StreamSides(Pieces(d), n + (Pieces(x + 1) - Pieces(x)))) =
          Lots(StreamSides(Pieces(d), n)) + Lot(FillSide(FillNo(x)))
    BY <2>2, <2>4, ItemAnswered
  <2>6. n + (Pieces(x + 1) - Pieces(x)) = Pieces(x + 1) - Pieces(d)
    BY <2>1, <2>2
  <2> QED BY <1>4, <2>1, <2>3, <2>5, <2>6
<1>8. RingLots' = RingLots /\ HandLots' = HandLots
  BY <1>1 DEF RingLots, HandLots, HandSides
<1>9. LotsBooked' = LotsBooked
  BY <1>4, <1>5, <1>6, <1>7, <1>8 DEF LotsBooked
<1> QED BY <1>1, <1>9, LedgerKept

LEMMA LedgerStep ==
    ASSUME ~SplitReads, LoopTypes, WireInvariant, FlowInvariant, LedgerAgrees, Next
    PROVE  LedgerAgrees'
<1>1. PICK b, x \in Nat : Flow(b, x)
  BY DEF FlowInvariant
<1>2. FillsInOrder(b) /\ PiecesInOrder(Decoded(b), x) /\ MessagesInOrder(x)
  BY <1>1 DEF Flow
<1>3. PICK d \in Nat : d = Decoded(b)
  <2>1. Len(fillRing) \in Nat
    BY LenProperties DEF LoopTypes, RingsTypeOK
  <2> QED BY <2>1 DEF Decoded
<1>4. LoopTypes'
  BY TypesStep
<1>5. CASE ReadFill
  BY <1>2, <1>5, ReadFillBooks
<1>6. ASSUME UNCHANGED <<position, fillRing, enFill, fromExchange, executed>>,
             enPc' = "publish" <=> enPc = "publish"
      PROVE  LedgerAgrees'
  <2>1. LotsBooked' = LotsBooked
    BY <1>6 DEF LotsBooked, DoneLots, PieceLots, HandLots, HandSides, RingLots
  <2> QED BY <1>6, <2>1, LedgerKept
<1>7. CASE FillsDone \/ NoQuote \/ StartPair \/ SendOrder
  BY <1>6, <1>7 DEF FillsDone, NoQuote, StartPair, SendOrder, engineVars, netVars
<1>8. CASE TakeOrder \/ NoOrder \/ WriteFails \/ NoReports
  BY <1>6, <1>8 DEF TakeOrder, NoOrder, WriteFails, NoReports, makerVars, netVars
<1>9. CASE WriteOrder
  BY <1>6, <1>9 DEF WriteOrder, makerVars
<1>10. CASE Disconnect
  BY <1>6, <1>10 DEF Disconnect, makerVars, engineVars
<1>11. CASE ReadReports
  BY <1>2, <1>3, <1>4, <1>11, ReadReportsKeeps
<1>12. CASE PublishFill
  BY <1>2, <1>3, <1>12, PublishFillKeeps
<1>13. CASE HandleMessage
  BY <1>2, <1>3, <1>4, <1>13, HandleMessageKeeps
<1> QED
  BY <1>5, <1>7, <1>8, <1>9, <1>10, <1>11, <1>12, <1>13 DEF Next, MarketMaker, Engine

(* With one report per read no fill is lost or booked twice: what the      *)
(* tracker has booked is what the exchange executed but for the reports,   *)
(* the fill in the engine's hand and the fills in the ring, whatever the   *)
(* sizes of the rings, the loops' interleaving and the connection's end.   *)
THEOREM LedgerAgreesHolds ==
    ASSUME ~SplitReads PROVE Spec => []LedgerAgrees
<1>1. Init => LedgerAgrees
  <2> SUFFICES ASSUME Init PROVE LedgerAgrees
    OBVIOUS
  <2>1. /\ position = 0 /\ fillRing = <<>> /\ enPc = "order" /\ fromExchange = <<>>
        /\ executed = <<>>
    BY DEF Init
  <2>2. /\ DOMAIN OrderSides(executed) = {} /\ DOMAIN PieceSides(fromExchange) = {}
        /\ DOMAIN HandSides = {} /\ DOMAIN FillSides(fillRing) = {}
    BY <2>1 DEF OrderSides, PieceSides, HandSides, FillSides
  <2>3. DoneLots = 0 /\ PieceLots = 0 /\ HandLots = 0 /\ RingLots = 0
    BY <2>2, LotsOfNone DEF DoneLots, PieceLots, HandLots, RingLots
  <2>4. LotsBooked = 0 /\ QuoteSize \in Nat
    BY <2>3, LoopAssumption DEF LotsBooked
  <2>5. position = QuoteSize * LotsBooked
    BY <2>1, <2>4
  <2> QED BY <2>5, LedgerByLots
<1>2. FlowIInv /\ LedgerAgrees /\ [Next]_vars => LedgerAgrees'
  <2>1. LedgerAgrees /\ UNCHANGED vars => LedgerAgrees'
    BY DEF vars, makerVars, engineVars, netVars, LedgerAgrees, HandSides
  <2> QED BY <2>1, LedgerStep DEF FlowIInv
<1> QED BY <1>1, <1>2, FlowHoldsInitially, FlowIsKept, PTL DEF Spec
============================================================================
