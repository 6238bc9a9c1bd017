---------------------------- MODULE TradingLoop ----------------------------
(***************************************************************************)
(* The order path: the market maker's main loop (15-market-maker), the     *)
(* execution engine's main loop (16-order-execution), the two rings that   *)
(* join them and the FIX session with an exchange that fills every order   *)
(* as it arrives.  A ring is the bounded FIFO channel that SpscRing is     *)
(* proved to implement: a sequence with one end for each process.          *)
(*                                                                         *)
(* FIX messages travel in a byte stream.  An ExecutionReport is two pieces *)
(* of it, the fields that name the order (11, 55, 54) and the field that   *)
(* says how much was filled (32); a read returns whatever has arrived.     *)
(***************************************************************************)
EXTENDS Integers, Sequences, FiniteSetsExt

CONSTANTS
    OrderSlots, FillSlots,   \* sizes of the two rings (8192)
    QuoteSize, MaxPosition,
    FillRingOpen,   \* did OrderProducer find the fill ring when it started
    SplitReads,     \* may a TCP read merge or cut messages
    MayDisconnect,  \* may the FIX connection break
    MaxPairs        \* bound: pairs of orders sent

ASSUME LoopAssumption ==
    /\ {OrderSlots, FillSlots, QuoteSize, MaxPosition} \subseteq Nat \ {0}
    /\ MaxPairs \in Nat
    /\ {FillRingOpen, SplitReads, MayDisconnect} \subseteq BOOLEAN

VARIABLES
    mmPc, position, orderSeq,   \* market maker: loop, tracker, next order id
    orderRing, fillRing,
    enPc, enOrder, enFill,      \* engine: loop and what it holds
    connected,                  \* the TCP connection
    toExchange, fromExchange,   \* bytes under way in each direction
    wire,                       \* history: orders written to the socket
    executed                    \* history: orders the exchange has filled

makerVars == <<mmPc, position, orderSeq>>
engineVars == <<enPc, enOrder, enFill, wire>>
netVars == <<connected, toExchange, fromExchange, executed>>
vars == <<makerVars, orderRing, fillRing, engineVars, netVars>>

None == -1
Order == [id : Nat, side : {"B", "S"}]
Logon == [id |-> None, side |-> "A"]   \* MsgType A, to and from the exchange

(* Pieces of the byte stream from the exchange: a field is the set of its  *)
(* value, empty when the piece does not carry it.                          *)
Piece == [id : SUBSET Nat, side : SUBSET {"B", "S"}, qty : SUBSET Nat]
NamePiece(o) == [id |-> {o.id}, side |-> {o.side}, qty |-> {}]
QtyPiece(q) == [id |-> {}, side |-> {}, qty |-> {q}]
LogonPiece == [id |-> {}, side |-> {}, qty |-> {}]
NoFill == [id |-> {}, side |-> "B", qty |-> 0]

Signed(side, q) == IF side = "B" THEN q ELSE -q

Init ==
    /\ mmPc = "fills" /\ position = 0 /\ orderSeq = 0
    /\ orderRing = <<>> /\ fillRing = <<>>
    /\ enPc = "order" /\ enOrder = Logon /\ enFill = NoFill
    /\ connected = TRUE
    /\ toExchange = <<Logon>> /\ fromExchange = <<>>
    /\ wire = <<>> /\ executed = <<>>

---------------------------------------------------------------------------
(* Market maker: while (g_running) { processFills(); read a BBO; quote }   *)

(* A fill without order fields has no symbol either: it is booked on the   *)
(* empty symbol, not on the one that is traded.                            *)
BookFill(fill) ==
    IF fill.id = {} THEN position
    ELSE position + Signed(fill.side, fill.qty)

ReadFill ==
    /\ mmPc = "fills"
    /\ FillRingOpen /\ fillRing # <<>>
    /\ position' = BookFill(Head(fillRing))
    /\ fillRing' = Tail(fillRing)
    /\ UNCHANGED <<mmPc, orderSeq, orderRing, engineVars, netVars>>

(* try_read_fill() is false: the ring is empty, or was never opened.       *)
FillsDone ==
    /\ mmPc = "fills"
    /\ ~FillRingOpen \/ fillRing = <<>>
    /\ mmPc' = "bbo"
    /\ UNCHANGED <<position, orderSeq, orderRing, fillRing, engineVars, netVars>>

(* No BBO, one that is filtered or throttled, or a quote that is rejected. *)
NoQuote ==
    /\ mmPc = "bbo"
    /\ mmPc' = "fills"
    /\ UNCHANGED <<position, orderSeq, orderRing, fillRing, engineVars, netVars>>

Distance(p) == IF p < 0 THEN -p ELSE p
RiskOk ==
    /\ Distance(position + QuoteSize) <= MaxPosition
    /\ Distance(position - QuoteSize) <= MaxPosition
    /\ 10 * Distance(position) <= 8 * MaxPosition

StartPair ==
    /\ mmPc = "bbo"
    /\ orderSeq < 2 * MaxPairs
    /\ RiskOk
    /\ mmPc' = "B"
    /\ UNCHANGED <<position, orderSeq, orderRing, fillRing, engineVars, netVars>>

(* send_order(): publish() spins while the order ring is full.             *)
(* The mutant gives both orders of a pair one id.                          *)
SendOrderSameId ==
    /\ mmPc \in {"B", "S"}
    /\ Len(orderRing) < OrderSlots
    /\ orderRing' = Append(orderRing, [id |-> orderSeq, side |-> mmPc])
    /\ orderSeq' = IF mmPc = "S" THEN orderSeq + 2 ELSE orderSeq
    /\ mmPc' = IF mmPc = "B" THEN "S" ELSE "fills"
    /\ UNCHANGED <<position, fillRing, engineVars, netVars>>
SendOrder ==
    /\ mmPc \in {"B", "S"}
    /\ Len(orderRing) < OrderSlots
    /\ orderRing' = Append(orderRing, [id |-> orderSeq, side |-> mmPc])
    /\ orderSeq' = orderSeq + 1
    /\ mmPc' = IF mmPc = "B" THEN "S" ELSE "fills"
    /\ UNCHANGED <<position, fillRing, engineVars, netVars>>

MarketMaker == ReadFill \/ FillsDone \/ NoQuote \/ StartPair \/ SendOrder

---------------------------------------------------------------------------
(* Engine: while (g_running) { try_read an order and write it; read what   *)
(* the socket has and publish it as a fill }                               *)

TakeOrder ==
    /\ enPc = "order"
    /\ orderRing # <<>>
    /\ enOrder' = Head(orderRing)
    /\ orderRing' = Tail(orderRing)
    /\ enPc' = "write"
    /\ UNCHANGED <<makerVars, fillRing, enFill, wire, netVars>>

NoOrder ==
    /\ enPc = "order"
    /\ orderRing = <<>>
    /\ enPc' = "reports"
    /\ UNCHANGED <<makerVars, orderRing, fillRing, enOrder, enFill, wire, netVars>>

WriteOrder ==
    /\ enPc = "write" /\ connected
    /\ toExchange' = Append(toExchange, enOrder)
    /\ wire' = Append(wire, enOrder)
    /\ enPc' = "reports"
    /\ UNCHANGED <<makerVars, orderRing, fillRing, enOrder, enFill, connected,
                   fromExchange, executed>>

(* write() throws: the error is logged and the order, already taken from   *)
(* the ring, is dropped.                                                   *)
WriteFails ==
    /\ enPc = "write" /\ ~connected
    /\ enPc' = "reports"
    /\ UNCHANGED <<makerVars, orderRing, fillRing, enOrder, enFill, wire, netVars>>

(* parse_message fills a map: a field that occurs twice keeps its last     *)
(* value, and a missing one has the decoder's default (side buy, zero      *)
(* shares).                                                                *)
LastField(bytes, field, default) ==
    LET at == {i \in DOMAIN bytes : bytes[i][field] # {}}
    IN  IF at = {} THEN default ELSE bytes[Max(at)][field]

Only(S) == CHOOSE x \in S : TRUE

Decode(bytes) ==
    [id |-> LastField(bytes, "id", {}),
     side |-> Only(LastField(bytes, "side", {"B"})),
     qty |-> Only(LastField(bytes, "qty", {0}))]

(* A message ends with its quantity; a logon is one piece.                 *)
Ends(piece) == piece = LogonPiece \/ piece.qty # {}
Complete(n) ==
    Ends(fromExchange[n]) /\ \A m \in 1..(n - 1) : ~Ends(fromExchange[m])

(* read_some() returns the bytes that have arrived, at least one piece;    *)
(* without SplitReads exactly one message.                                 *)
ReadReports ==
    /\ enPc = "reports"
    /\ \E n \in 1..Len(fromExchange) :
         /\ SplitReads \/ Complete(n)
         /\ enFill' = Decode(SubSeq(fromExchange, 1, n))
         /\ fromExchange' = SubSeq(fromExchange, n + 1, Len(fromExchange))
    /\ enPc' = "publish"
    /\ UNCHANGED <<makerVars, orderRing, fillRing, enOrder, wire, connected,
                   toExchange, executed>>

(* Nothing has arrived yet.  The mutant reads without asking available()   *)
(* and stays in the read while the connection lasts.                       *)
NoReportsBlocking ==
    /\ enPc = "reports" /\ ~connected
    /\ enPc' = "order"
    /\ UNCHANGED <<makerVars, orderRing, fillRing, enOrder, enFill, wire, netVars>>
NoReports ==
    /\ enPc = "reports"
    /\ enPc' = "order"
    /\ UNCHANGED <<makerVars, orderRing, fillRing, enOrder, enFill, wire, netVars>>

(* publish() spins while the fill ring is full; the mutant drops the fill  *)
(* instead.                                                                *)
PublishFillOrDrop ==
    /\ enPc = "publish"
    /\ fillRing' = IF Len(fillRing) < FillSlots
                     THEN Append(fillRing, enFill) ELSE fillRing
    /\ enPc' = "order"
    /\ UNCHANGED <<makerVars, orderRing, enOrder, enFill, wire, netVars>>
PublishFill ==
    /\ enPc = "publish"
    /\ Len(fillRing) < FillSlots
    /\ fillRing' = Append(fillRing, enFill)
    /\ enPc' = "order"
    /\ UNCHANGED <<makerVars, orderRing, enOrder, enFill, wire, netVars>>

Engine == TakeOrder \/ NoOrder \/ WriteOrder \/ WriteFails \/ ReadReports
          \/ NoReports \/ PublishFill

---------------------------------------------------------------------------
(* The exchange at the other end of the socket: it acknowledges the logon  *)
(* and fills each order on arrival, as handle_message of the simulated     *)
(* exchange does with each message it is given.  How the simulated         *)
(* exchange cuts its input into messages is not modelled here.             *)

Answer(msg) ==
    IF msg = Logon THEN <<LogonPiece>>
    ELSE <<NamePiece(msg), QtyPiece(QuoteSize)>>

(* The mutant, like an exchange with a reject rate, skips sells.           *)
HandleMessageBuysOnly ==
    /\ connected /\ toExchange # <<>>
    /\ LET msg == Head(toExchange) IN
         /\ fromExchange' = IF msg.side = "S" THEN fromExchange
                            ELSE fromExchange \o Answer(msg)
         /\ executed' = IF msg.side = "B" THEN Append(executed, msg) ELSE executed
    /\ toExchange' = Tail(toExchange)
    /\ UNCHANGED <<makerVars, orderRing, fillRing, engineVars, connected>>
HandleMessage ==
    /\ connected /\ toExchange # <<>>
    /\ LET msg == Head(toExchange) IN
         /\ fromExchange' = fromExchange \o Answer(msg)
         /\ executed' = IF msg = Logon THEN executed ELSE Append(executed, msg)
    /\ toExchange' = Tail(toExchange)
    /\ UNCHANGED <<makerVars, orderRing, fillRing, engineVars, connected>>

(* The connection breaks for good: the engine never connects again.        *)
Disconnect ==
    /\ MayDisconnect /\ connected
    /\ connected' = FALSE
    /\ UNCHANGED <<makerVars, orderRing, fillRing, engineVars, toExchange,
                   fromExchange, executed>>

Next == MarketMaker \/ Engine \/ HandleMessage \/ Disconnect

Spec == Init /\ [][Next]_vars

(* Two processes the scheduler keeps running, and an exchange that reads.  *)
(* A socket whose bytes keep being available is eventually seen so.        *)
FairSpec ==
    /\ Spec
    /\ WF_vars(MarketMaker) /\ WF_vars(Engine) /\ WF_vars(HandleMessage)
    /\ SF_vars(ReadReports)

---------------------------------------------------------------------------
(* Types of both loops, the rings and the session.                         *)
Fill == [id : SUBSET Nat, side : {"B", "S"}, qty : Nat]
TypeOK ==
    /\ mmPc \in {"fills", "bbo", "B", "S"}
    /\ position \in Int
    /\ orderSeq \in 0..(2 * MaxPairs)
    /\ orderRing \in Seq(Order) /\ Len(orderRing) <= OrderSlots
    /\ fillRing \in Seq(Fill) /\ Len(fillRing) <= FillSlots
    /\ enPc \in {"order", "write", "reports", "publish"}
    /\ enOrder \in Order \cup {Logon}
    /\ enFill \in Fill
    /\ connected \in BOOLEAN
    /\ toExchange \in Seq(Order \cup {Logon})
    /\ fromExchange \in Seq(Piece)
    /\ wire \in Seq(Order) /\ executed \in Seq(Order)

(* The sides of the orders that fills, pieces of reports or orders stand   *)
(* for: "-" where there is none.  Lots counts buys minus sells.            *)
FillSides(fills) == [i \in DOMAIN fills |->
                       IF fills[i].id = {} THEN "-" ELSE fills[i].side]
PieceSides(bytes) == [i \in DOMAIN bytes |->
                        IF bytes[i].id = {} THEN "-" ELSE Only(bytes[i].side)]
OrderSides(orders) == [i \in DOMAIN orders |-> orders[i].side]
Places(sides, side) == {i \in DOMAIN sides : sides[i] = side}
Lots(sides) == Cardinality(Places(sides, "B")) - Cardinality(Places(sides, "S"))
HandSides == FillSides(IF enPc = "publish" THEN <<enFill>> ELSE <<>>)

(* No fill is lost or booked twice between the exchange and the position   *)
(* tracker: what is booked is what was executed but for what is under way. *)
LedgerAgrees ==
    position = QuoteSize * (Lots(OrderSides(executed)) - Lots(PieceSides(fromExchange))
                              - Lots(HandSides) - Lots(FillSides(fillRing)))

(* Orders reach the wire in the order of their ids, none twice; while the  *)
(* connection lasts none is missing between the tracker and the wire.      *)
WireInOrder ==
    /\ \A i \in DOMAIN wire : wire[i].id = i - 1
    /\ connected => Len(wire) + Len(orderRing)
                      + (IF enPc = "write" THEN 1 ELSE 0) = orderSeq

(* With an exchange that fills each order as it arrives, and one report    *)
(* per read, the booked position never exceeds a single quote.             *)
PositionWithinOneQuote == position \in {0, QuoteSize}

(* Every order sent is answered by a fill that the tracker has booked, for *)
(* as long as the connection lasts.                                        *)
OrdersAnswered ==
    (orderSeq = 2 * MaxPairs) ~>
      \/ Len(executed) = 2 * MaxPairs /\ position = 0
      \/ ~connected

(* Neither process waits for the other for ever: the market maker returns  *)
(* to its fills and the engine to its orders.  publish() spins without a   *)
(* bound in both loops, so this needs rings that together hold every order *)
(* whose fill is not booked.                                               *)
LoopsKeepTurning == []<>(mmPc = "fills") /\ []<>(enPc = "order")
============================================================================
