-------------------------- MODULE OrderBookProofs --------------------------
(***************************************************************************)
(* For every number of levels and orders and every set of messages: the    *)
(* registers of the order book keep to their ranges, the BBO never shows a *)
(* price that was not offered on that side, a scan begins with the price   *)
(* level table at rest, a scan that nothing interrupts finds the levels    *)
(* that QuietScanResult says, and the counter of the order storage is      *)
(* right.                                                                  *)
(*                                                                         *)
(* Each block is treated on its own: what a clock of it preserves, given   *)
(* what is on its ports; the manager is what puts something on the ports.  *)
(***************************************************************************)
EXTENDS OrderBook, TLAPS, FiniteSetTheorems

USE DEF Side

(* Every price has a level, on either side in the half of the buys.        *)
LEMMA PriceHasAddress ==
    ASSUME NEW p \in Price, NEW s \in Side
    PROVE  PriceToAddr(p, s) \in LevelAddr /\ PriceToAddr(p, s) < Levels
<1>1. Levels \in Nat /\ PriceUnit \in Nat /\ Levels > 0 /\ PriceUnit > 0
  BY TableAssumption
<1> DEFINE bits == p \div PriceUnit
<1>2. p \in Nat /\ p < Levels * PriceUnit
  BY <1>1 DEF Price
<1>3. bits \in Nat /\ bits * PriceUnit <= p
  BY <1>1, <1>2
<1>4. bits < Levels
  <2>1. SUFFICES ASSUME bits >= Levels PROVE FALSE
    BY <1>1, <1>3
  <2>2. bits * PriceUnit >= Levels * PriceUnit
    BY <1>1, <1>3, <2>1
  <2> QED BY <1>1, <1>2, <1>3, <2>2
<1> HIDE DEF bits
<1>5. (bits + Levels) % Levels \in 0..(Levels - 1)
  BY <1>1, <1>3
<1> QED
  BY <1>1, <1>3, <1>4, <1>5 DEF PriceToAddr, LevelAddr, bits

LEMMA AddressesExist == 0 \in LevelAddr /\ 0 \in OrderAddr /\ 0 \in Price
<1>1. Levels \in Nat /\ PriceUnit \in Nat /\ Levels > 0 /\ PriceUnit > 0
  BY TableAssumption
<1>2. Levels * PriceUnit > 0 /\ Levels * PriceUnit \in Nat
  BY <1>1
<1> QED BY <1>1, <1>2, StorageAssumption DEF LevelAddr, OrderAddr, Price

LEMMA BlanksTyped ==
    NoLevel \in Level /\ NoCmd \in Cmd /\ NoOrder \in Order /\ NoRead \in Read
BY AddressesExist DEF NoLevel, NoCmd, NoOrder, NoRead, Level, Cmd, Order, Read

LEMMA Subtracts ==
    ASSUME NEW a \in Nat, NEW b \in Nat
    PROVE  SharesSubtract(a, b) \in Nat /\ SharesSubtract(a, b) <= a
BY DEF SharesSubtract

---------------------------------------------------------------------------
(* Types.                                                                  *)

LEMMA AddedTyped ==
    ASSUME TableTypeOK PROVE Added \in Level
<1>1. pipeOldLevel \in Level /\ pipe \in Cmd
  BY DEF TableTypeOK
<1>2. [price |-> pipe.price, shares |-> pipe.shares, count |-> 1, side |-> pipe.side,
       valid |-> TRUE] \in Level
  BY <1>1 DEF Level, Cmd
<1>3. [pipeOldLevel EXCEPT !.shares = @ + pipe.shares, !.count = @ + 1] \in Level
  <2>1. pipeOldLevel.shares + pipe.shares \in Nat /\ pipeOldLevel.count + 1 \in Nat
    BY <1>1 DEF Level, Cmd
  <2> QED BY <1>1, <2>1 DEF Level
<1> QED BY <1>2, <1>3 DEF Added

LEMMA RemovedTyped ==
    ASSUME TableTypeOK PROVE Removed \in Level
<1>1. pipeOldLevel \in Level /\ pipe \in Cmd
  BY DEF TableTypeOK
<1>2. SharesLeft \in Nat /\ OrdersLeft \in Nat
  <2>1. pipeOldLevel.shares \in Nat /\ pipe.shares \in Nat /\ pipeOldLevel.count \in Nat
    BY <1>1 DEF Level, Cmd
  <2> QED BY <2>1, Subtracts DEF SharesLeft, OrdersLeft
<1>3. [pipeOldLevel EXCEPT !.shares = 0, !.count = 0, !.valid = FALSE] \in Level
  BY <1>1 DEF Level
<1>4. [pipeOldLevel EXCEPT !.shares = SharesLeft, !.count = OrdersLeft] \in Level
  BY <1>1, <1>2 DEF Level
<1> QED BY <1>3, <1>4 DEF Removed

LEMMA CountTyped ==
    ASSUME TableTypeOK
    PROVE  NewLevelCount \in [Side -> 0..(CounterRange - 1)]
<1>1. pipe.side \in Side /\ levelCount \in [Side -> 0..(CounterRange - 1)]
  BY DEF TableTypeOK, Cmd
<1>2. CounterRange \in Nat /\ CounterRange > 1
  BY TableAssumption
<1> DEFINE c == levelCount[pipe.side]
<1>3. c \in 0..(CounterRange - 1)
  BY <1>1
<1>4. (c + 1) % CounterRange \in 0..(CounterRange - 1)
  BY <1>2, <1>3
<1>5. SharesSubtract(c, 1) \in 0..(CounterRange - 1)
  BY <1>2, <1>3 DEF SharesSubtract
<1>6. [levelCount EXCEPT ![pipe.side] = (@ + 1) % CounterRange]
          \in [Side -> 0..(CounterRange - 1)]
  BY <1>1, <1>4
<1>7. [levelCount EXCEPT ![pipe.side] = SharesSubtract(@, 1)]
          \in [Side -> 0..(CounterRange - 1)]
  BY <1>1, <1>5
<1> QED BY <1>1, <1>6, <1>7 DEF NewLevelCount

(* A clock of the price level table, whatever command is on its inputs.    *)
LEMMA TableStep ==
    ASSUME TableTypeOK, NEW cmd \in Cmd, TableClock(cmd)
    PROVE  TableTypeOK'
<1>1. bram' \in [LevelAddr -> Level]
  BY DEF TableTypeOK, TableClock
<1>2. bramDo' \in Level /\ pipeOldLevel' \in Level
  BY DEF TableTypeOK, TableClock
<1>3. bramAddr' \in LevelAddr
  <2>1. pipe.addr \in LevelAddr /\ cmd.addr \in LevelAddr /\ bramAddr \in LevelAddr
    BY DEF TableTypeOK, Cmd
  <2> QED BY <2>1 DEF TableClock
<1>4. bramWe' \in BOOLEAN
  BY DEF TableTypeOK, TableClock, Writes, Adding, Removing, Cmd, Level
<1>5. bramDi' \in Level
  BY AddedTyped, RemovedTyped, BlanksTyped DEF TableClock
<1>6. pipe' \in Cmd
  BY BlanksTyped DEF TableClock
<1>7. rdStage1' \in Level /\ rdStage2' \in Level
  BY BlanksTyped DEF TableTypeOK, TableClock
<1>8. levelCount' \in [Side -> 0..(CounterRange - 1)]
  BY CountTyped DEF TableClock
<1> QED
  BY <1>1, <1>2, <1>3, <1>4, <1>5, <1>6, <1>7, <1>8 DEF TableTypeOK

(* A clock of the order storage, whatever is on its ports.                 *)
LEMMA StorageStep ==
    ASSUME StorageTypeOK,
           NEW wr \in [en : BOOLEAN, addr : OrderAddr, order : Order],
           NEW rd \in [en : BOOLEAN, addr : OrderAddr],
           StorageClock(wr, rd)
    PROVE  StorageTypeOK'
<1>1. orders' \in [OrderAddr -> Order]
  BY DEF StorageTypeOK, StorageClock
<1>2. storRd1' \in Read /\ storRd2' \in Read
  <2>1. [valid |-> TRUE, order |-> orders[rd.addr]] \in Read
    BY DEF StorageTypeOK, Read
  <2> QED BY <2>1, BlanksTyped DEF StorageTypeOK, StorageClock
<1>3. validBits' \subseteq OrderAddr
  BY DEF StorageTypeOK, StorageClock
<1>4. orderCount' \in Nat
  <2>1. NewOrderCount(wr) \in Nat
    BY DEF StorageTypeOK, NewOrderCount
  <2> QED BY <2>1 DEF StorageTypeOK, StorageClock
<1> QED
  BY <1>1, <1>2, <1>3, <1>4 DEF StorageTypeOK

LEMMA ScanAddrInTable ==
    ASSUME TrackerTypeOK, scanCounter < ScanDepth PROVE ScanAddr \in LevelAddr
<1>1. ScanDepth \in Nat /\ ScanDepth = Levels
  BY TrackerAssumption, BookAssumption
<1>2. scanCounter \in 0..(ScanDepth - 1)
  BY <1>1 DEF TrackerTypeOK
<1> QED BY <1>1, <1>2 DEF ScanAddr, LevelAddr

LEMMA BestTyped ==
    ASSUME TrackerTypeOK, NEW level \in Level PROVE (WithBest(level))
           \in [bid : Price, bidShares : Nat, ask : Price \cup {NoAsk}, askShares : Nat,
                spread : Nat, valid : BOOLEAN]
BY DEF TrackerTypeOK, WithBest, Level

(* A clock of the tracker, whatever level the table returns.               *)
LEMMA TrackerStep ==
    ASSUME TrackerTypeOK, NEW level \in Level, NEW trigger \in BOOLEAN,
           TrackerClock(level, trigger)
    PROVE  TrackerTypeOK'
<1>1. ScanDepth \in Nat /\ ScanDepth > 0 /\ NoAsk \in Nat
  BY TrackerAssumption
<1>2. NoReq \in [valid : BOOLEAN, addr : LevelAddr]
  BY AddressesExist DEF NoReq
<1>3. CASE TrackerIdle(trigger)
  <2>1. levelReq' = NoReq /\ bbo' = bbo
    BY <1>3 DEF TrackerIdle
  <2>2. CASE trigger
    <3>1. /\ trState' = "SCAN" /\ scanSide' = "buy" /\ scanCounter' = 0
          /\ found' = FALSE
      BY <1>3, <2>2 DEF TrackerIdle
    <3>2. scanCounter' \in 0..ScanDepth /\ scanSide' \in Side
      BY <1>1, <3>1
    <3>3. found' \in BOOLEAN
      BY <3>1
    <3> QED BY <1>2, <2>1, <3>1, <3>2, <3>3 DEF TrackerTypeOK
  <2>3. CASE ~trigger
    <3>1. UNCHANGED <<trState, scanSide, scanCounter, found>>
      BY <1>3, <2>3 DEF TrackerIdle
    <3> QED BY <1>2, <2>1, <3>1 DEF TrackerTypeOK
  <2> QED BY <2>2, <2>3
<1>4. CASE RequestLevel
  <2>1. ScanAddr \in LevelAddr /\ scanCounter < ScanDepth
    BY <1>4, ScanAddrInTable DEF RequestLevel
  <2> QED BY <1>4, <2>1 DEF TrackerTypeOK, RequestLevel
<1>5. CASE SideDone
  <2>1. levelReq' = NoReq /\ bbo' = bbo /\ trState = "SCAN"
    BY <1>5 DEF SideDone
  <2>2. CASE scanSide = "buy"
    <3>1. /\ scanSide' = "sell" /\ scanCounter' = 0 /\ found' = FALSE
          /\ trState' = trState
      BY <1>5, <2>2 DEF SideDone
    <3>2. scanCounter' \in 0..ScanDepth /\ scanSide' \in Side
      BY <1>1, <3>1
    <3>3. found' \in BOOLEAN
      BY <3>1
    <3> QED BY <1>2, <2>1, <3>1, <3>2, <3>3 DEF TrackerTypeOK
  <2>3. CASE scanSide # "buy"
    <3>1. trState' = "COMPUTE_SPREAD" /\ UNCHANGED <<scanSide, scanCounter, found>>
      BY <1>5, <2>3 DEF SideDone
    <3> QED BY <1>2, <2>1, <3>1 DEF TrackerTypeOK
  <2> QED BY <2>2, <2>3
<1>6. CASE WaitForLevel
  <2>1. scanCounter < ScanDepth
    BY <1>6 DEF TrackerTypeOK, WaitForLevel
  <2> QED BY <1>2, <1>6, <2>1 DEF TrackerTypeOK, WaitForLevel
<1>7. CASE TakeLevel(level)
  <2>1. scanCounter + 1 \in 0..ScanDepth
    BY <1>1, <1>7 DEF TrackerTypeOK, TakeLevel
  <2>2. Improves(level) \in BOOLEAN
    BY DEF Improves, TrackerTypeOK
  <2>3. found' \in BOOLEAN
    BY <1>7 DEF TakeLevel
  <2> QED BY <1>2, <1>7, <2>1, <2>3, BestTyped DEF TrackerTypeOK, TakeLevel
<1>8. CASE ComputeSpread
  <2>1. Spread \in Nat
    <3>1. Price \subseteq Nat
      BY DEF Price
    <3>2. bbo.bid \in Nat /\ bbo.ask \in Nat
      BY <1>1, <3>1 DEF TrackerTypeOK
    <3> QED BY <3>2 DEF Spread
  <2>2. bbo' \in [bid : Price, bidShares : Nat, ask : Price \cup {NoAsk},
                  askShares : Nat, spread : Nat, valid : BOOLEAN]
    BY <1>8, <2>1 DEF TrackerTypeOK, ComputeSpread
  <2> QED BY <1>2, <1>8, <2>2 DEF TrackerTypeOK, ComputeSpread
<1>9. CASE ScanDone
  BY <1>2, <1>9 DEF TrackerTypeOK, ScanDone
<1> QED
  BY <1>3, <1>4, <1>5, <1>6, <1>7, <1>8, <1>9 DEF TrackerClock

(* One edge of the three blocks.                                           *)
LEMMA BlocksStep ==
    ASSUME TypeOK, BlocksClock PROVE TableTypeOK' /\ StorageTypeOK' /\ TrackerTypeOK'
<1>1. TableTypeOK'
  <2>1. priceCmd \in Cmd
    BY DEF TypeOK, ManagerTypeOK
  <2> QED BY <2>1, TableStep DEF TypeOK, BlocksClock
<1>2. StorageTypeOK'
  <2>1. /\ storWr \in [en : BOOLEAN, addr : OrderAddr, order : Order]
        /\ storRd \in [en : BOOLEAN, addr : OrderAddr]
    BY DEF TypeOK, ManagerTypeOK
  <2> QED BY <2>1, StorageStep DEF TypeOK, BlocksClock
<1>3. TrackerTypeOK'
  <2>1. rdStage2 \in Level /\ bboTrigger \in BOOLEAN
    BY DEF TypeOK, ManagerTypeOK, TableTypeOK
  <2> QED BY <2>1, TrackerStep DEF TypeOK, BlocksClock
<1> QED BY <1>1, <1>2, <1>3

WritePort == [en : BOOLEAN, addr : OrderAddr, order : Order]
ReadPort == [en : BOOLEAN, addr : OrderAddr]

LEMMA HashTyped ==
    ASSUME NEW ref \in Nat PROVE HashOrderRef(ref) \in OrderAddr
BY StorageAssumption DEF HashOrderRef, OrderAddr

LEMMA WriteTyped ==
    ASSUME ManagerTypeOK, NEW order \in Order PROVE Write(order) \in WritePort
<1>1. msg.ref \in Nat
  BY DEF ManagerTypeOK
<1> QED BY <1>1, HashTyped DEF Write, WritePort

LEMMA IdlePorts == NoWrite \in WritePort /\ NoLookup \in ReadPort
BY AddressesExist, BlanksTyped DEF NoWrite, NoLookup, WritePort, ReadPort

LEMMA PriceCmdTyped ==
    ASSUME NEW type \in {"ADD", "REMOVE"}, NEW price \in Price, NEW shares \in Nat,
           NEW side \in Side
    PROVE  PriceCmd(type, price, shares, side) \in Cmd
<1>1. PriceToAddr(price, side) \in LevelAddr
  BY PriceHasAddress
<1> QED BY <1>1 DEF PriceCmd, Cmd

LEMMA ForwardedTyped ==
    ASSUME TrackerTypeOK PROVE Forwarded \in Cmd
<1>1. levelReq.addr \in LevelAddr
  BY DEF TrackerTypeOK
<1>2. [NoCmd EXCEPT !.valid = TRUE, !.type = "LOOKUP", !.addr = levelReq.addr] \in Cmd
  BY <1>1, BlanksTyped DEF Cmd
<1> QED BY <1>2, BlanksTyped DEF Forwarded

LEMMA UpdatedOrdersTyped ==
    ASSUME TypeOK
    PROVE  /\ NewOrder \in Order /\ ReducedOrder \in Order
           /\ storRd2.order \in Order /\ [storRd2.order EXCEPT !.valid = FALSE] \in Order
<1>1. storRd2.order \in Order
  BY DEF TypeOK, StorageTypeOK, Read
<1>2. /\ msg.ref \in Nat /\ msg.price \in Price /\ msg.shares \in Nat
      /\ msg.side \in Side
  BY DEF TypeOK, ManagerTypeOK
<1>3. NewOrder \in Order
  BY <1>2 DEF NewOrder, Order
<1>4. ReducedOrder \in Order
  <2> DEFINE left == SharesSubtract(storRd2.order.shares, msg.shares)
  <2>1. left \in Nat
    BY <1>1, <1>2, Subtracts DEF Order
  <2> HIDE DEF left
  <2>2. [storRd2.order EXCEPT !.shares = left, !.valid = left # 0] \in Order
    BY <1>1, <2>1 DEF Order
  <2> QED BY <2>2 DEF ReducedOrder, left
<1> QED BY <1>1, <1>3, <1>4 DEF Order

(* What the manager drives is of the types of the ports.                   *)
LEMMA DriveTyped ==
    ASSUME NEW wr \in WritePort, NEW rd \in ReadPort, NEW cmd \in Cmd,
           NEW trigger \in BOOLEAN, Drive(wr, rd, cmd, trigger)
    PROVE  /\ storWr' \in WritePort /\ storRd' \in ReadPort
           /\ priceCmd' \in Cmd /\ bboTrigger' \in BOOLEAN
BY DEF Drive

LEMMA ReleaseTyped ==
    ASSUME Release
    PROVE  /\ storWr' \in WritePort /\ storRd' \in ReadPort
           /\ priceCmd' \in Cmd /\ bboTrigger' \in BOOLEAN
<1>1. NoCmd \in Cmd
  BY BlanksTyped
<1> QED BY <1>1, IdlePorts, DriveTyped DEF Release

(* One step of the manager: the ports by the two lemmas above, then its    *)
(* own registers.                                                          *)
PortsTypeOK ==
    /\ storWr \in WritePort /\ storRd \in ReadPort
    /\ priceCmd \in Cmd /\ bboTrigger \in BOOLEAN

RegistersTypeOK ==
    /\ state \in {"IDLE", "ADD_ORDER", "LOOKUP_ORDER", "WAIT_PRICE_CMD", "UPDATE_ORDER",
                  "UPDATE_BBO", "WAIT_BBO", "DONE"}
    /\ msg \in [type : {"A", "E", "D", "U", "P"}, ref : Nat, price : Price, shares : Nat,
                side : Side]
    /\ waitCounter \in 0..2 /\ tempOrder \in Order

LEMMA ManagerParts ==
    /\ ManagerTypeOK <=> PortsTypeOK /\ RegistersTypeOK
    /\ ManagerTypeOK' <=> PortsTypeOK' /\ RegistersTypeOK'
BY DEF ManagerTypeOK, PortsTypeOK, RegistersTypeOK, WritePort, ReadPort

LEMMA MessageTyped ==
    ASSUME NEW m \in Message
    PROVE  m \in [type : {"A", "E", "D", "U", "P"}, ref : Nat, price : Price,
                  shares : Nat, side : Side]
<1>1. m \in [type : {"A", "E", "D", "U", "P"}, ref : Nat,
             price : 1..(Levels * PriceUnit - 1), shares : Nat \ {0}, side : Side]
  BY BookAssumption
<1>2. Levels * PriceUnit \in Nat
  BY TableAssumption
<1>3. 1..(Levels * PriceUnit - 1) \subseteq Price
  BY <1>2 DEF Price
<1> QED BY <1>1, <1>3

LEMMA ManagerStep ==
    ASSUME TypeOK, Next PROVE ManagerTypeOK'
<1>. /\ TrackerTypeOK /\ ManagerTypeOK /\ PortsTypeOK /\ RegistersTypeOK
  BY ManagerParts DEF TypeOK
<1>1. ASSUME NEW m \in Message, Accept(m) PROVE ManagerTypeOK'
  <2>1. PortsTypeOK'
    BY <1>1, ReleaseTyped DEF Accept, PortsTypeOK
  <2>2. msg' \in [type : {"A", "E", "D", "U", "P"}, ref : Nat, price : Price,
                  shares : Nat, side : Side]
    BY <1>1, MessageTyped DEF Accept
  <2>3. RegistersTypeOK'
    BY <1>1, <2>2 DEF Accept, RegistersTypeOK, FirstState
  <2> QED BY <2>1, <2>3, ManagerParts
<1>2. CASE Idle
  <2>1. PortsTypeOK'
    BY <1>2, ForwardedTyped, IdlePorts, DriveTyped DEF Idle, PortsTypeOK
  <2>2. RegistersTypeOK'
    BY <1>2 DEF Idle, RegistersTypeOK
  <2> QED BY <2>1, <2>2, ManagerParts
<1>3. CASE AddOrder
  <2>1. PriceCmd("ADD", msg.price, msg.shares, msg.side) \in Cmd
    BY PriceCmdTyped DEF RegistersTypeOK
  <2>2. Write(NewOrder) \in WritePort
    BY WriteTyped, UpdatedOrdersTyped
  <2>3. PortsTypeOK'
    BY <1>3, <2>1, <2>2, IdlePorts, DriveTyped DEF AddOrder, PortsTypeOK
  <2>4. RegistersTypeOK'
    BY <1>3 DEF AddOrder, RegistersTypeOK
  <2> QED BY <2>3, <2>4, ManagerParts
<1>4. CASE LookupOrder
  <2>1. [en |-> TRUE, addr |-> HashOrderRef(msg.ref)] \in ReadPort
    BY HashTyped DEF RegistersTypeOK, ReadPort
  <2>2. PortsTypeOK'
    BY <1>4, <2>1, IdlePorts, BlanksTyped, DriveTyped DEF LookupOrder, PortsTypeOK
  <2>3. RegistersTypeOK'
    BY <1>4 DEF LookupOrder, RegistersTypeOK
  <2> QED BY <2>2, <2>3, ManagerParts
<1>5. CASE Wait
  <2>1. PortsTypeOK'
    BY <1>5, ReleaseTyped DEF Wait, PortsTypeOK
  <2>2. RegistersTypeOK'
    BY <1>5 DEF Wait, RegistersTypeOK
  <2> QED BY <2>1, <2>2, ManagerParts
<1>6. CASE PriceCmdDone
  <2>1. PortsTypeOK'
    BY <1>6, ReleaseTyped DEF PriceCmdDone, PortsTypeOK
  <2>2. RegistersTypeOK'
    BY <1>6 DEF PriceCmdDone, RegistersTypeOK
  <2> QED BY <2>1, <2>2, ManagerParts
<1>7. CASE UpdateOrder
  <2>1. Write(tempOrder) \in WritePort
    BY WriteTyped DEF RegistersTypeOK
  <2> DEFINE shares == IF msg.type = "E" THEN msg.shares ELSE storRd2.order.shares
             cmd == PriceCmd("REMOVE", storRd2.order.price, shares, storRd2.order.side)
  <2>2. cmd \in Cmd
    <3>1. /\ storRd2.order.price \in Price /\ storRd2.order.shares \in Nat
          /\ storRd2.order.side \in Side /\ msg.shares \in Nat
      BY UpdatedOrdersTyped DEF Order, RegistersTypeOK
    <3> QED BY <3>1, PriceCmdTyped
  <2>3. Drive(Write(tempOrder), NoLookup, cmd, FALSE)
    BY <1>7 DEF UpdateOrder
  <2> HIDE DEF cmd
  <2>4. PortsTypeOK'
    BY <2>1, <2>2, <2>3, IdlePorts, DriveTyped DEF PortsTypeOK
  <2>5. RegistersTypeOK'
    BY <1>7, UpdatedOrdersTyped DEF UpdateOrder, RegistersTypeOK
  <2> QED BY <2>4, <2>5, ManagerParts
<1>8. CASE NothingToUpdate
  <2>1. PortsTypeOK'
    BY <1>8, ReleaseTyped DEF NothingToUpdate, PortsTypeOK
  <2>2. RegistersTypeOK'
    BY <1>8, UpdatedOrdersTyped DEF NothingToUpdate, RegistersTypeOK
  <2> QED BY <2>1, <2>2, ManagerParts
<1>9. CASE UpdateBbo
  <2>1. BboReady \in BOOLEAN
    BY DEF BboReady
  <2>2. PortsTypeOK'
    BY <1>9, <2>1, IdlePorts, BlanksTyped, DriveTyped DEF UpdateBbo, PortsTypeOK
  <2>3. RegistersTypeOK'
    BY <1>9 DEF UpdateBbo, RegistersTypeOK
  <2> QED BY <2>2, <2>3, ManagerParts
<1>10. CASE WaitBbo
  <2>1. (~BboReady) \in BOOLEAN
    BY DEF BboReady
  <2>2. PortsTypeOK'
    BY <1>10, <2>1, ForwardedTyped, IdlePorts, DriveTyped DEF WaitBbo, PortsTypeOK
  <2>3. RegistersTypeOK'
    BY <1>10 DEF WaitBbo, RegistersTypeOK
  <2> QED BY <2>2, <2>3, ManagerParts
<1>11. CASE Done
  <2>1. PortsTypeOK'
    BY <1>11, ReleaseTyped DEF Done, PortsTypeOK
  <2>2. RegistersTypeOK'
    BY <1>11 DEF Done, RegistersTypeOK
  <2> QED BY <2>1, <2>2, ManagerParts
<1> QED
  BY <1>1, <1>2, <1>3, <1>4, <1>5, <1>6, <1>7, <1>8, <1>9, <1>10, <1>11 DEF Next

LEMMA EveryStepClocks ==
    ASSUME Next PROVE BlocksClock
BY DEF Next, Accept, Idle, AddOrder, LookupOrder, Wait, PriceCmdDone, UpdateOrder,
       NothingToUpdate, UpdateBbo, WaitBbo, Done, QuietClock

(* Every register keeps to its range and every level asked for is in the   *)
(* table: for any depth, any prices of a level, any order references.      *)
THEOREM BookTypes == Spec => []TypeOK
<1>1. Init => TypeOK
  <2> SUFFICES ASSUME Init PROVE TypeOK
    OBVIOUS
  <2>1. TableTypeOK
    <3>1. 0 \in 0..(CounterRange - 1)
      BY TableAssumption
    <3> QED BY <3>1, AddressesExist, BlanksTyped DEF Init, TableInit, TableTypeOK
  <2>2. StorageTypeOK
    BY BlanksTyped DEF Init, StorageInit, StorageTypeOK
  <2>3. TrackerTypeOK
    <3>1. found \in BOOLEAN
      BY DEF Init, TrackerInit
    <3>2. /\ NoReq \in [valid : BOOLEAN, addr : LevelAddr]
          /\ NoBid \in Price /\ 0 \in 0..ScanDepth
      BY TrackerAssumption, AddressesExist DEF NoReq, NoBid
    <3>3. bbo \in [bid : Price, bidShares : Nat, ask : Price \cup {NoAsk},
                  askShares : Nat, spread : Nat, valid : BOOLEAN]
      BY <3>2 DEF Init, TrackerInit
    <3> QED BY <3>1, <3>2, <3>3 DEF Init, TrackerInit, TrackerTypeOK
  <2>4. PortsTypeOK
    BY IdlePorts, BlanksTyped DEF Init, PortsTypeOK
  <2>5. RegistersTypeOK
    BY AddressesExist, BlanksTyped DEF Init, RegistersTypeOK, NoMsg
  <2> QED BY <2>1, <2>2, <2>3, <2>4, <2>5, ManagerParts DEF TypeOK
<1>2. TypeOK /\ [Next]_vars => TypeOK'
  <2> SUFFICES ASSUME TypeOK, [Next]_vars PROVE TypeOK'
    OBVIOUS
  <2>1. CASE Next
    BY <2>1, EveryStepClocks, BlocksStep, ManagerStep DEF TypeOK
  <2>2. CASE UNCHANGED vars
    BY <2>2 DEF vars, tableVars, storageVars, trackerVars, managerVars, history, TypeOK,
                TableTypeOK, StorageTypeOK, TrackerTypeOK, ManagerTypeOK
  <2> QED BY <2>1, <2>2
<1> QED BY <1>1, <1>2, PTL DEF Spec

---------------------------------------------------------------------------
(* The BBO shows only what was offered.  The invariant follows a price     *)
(* from the message through every register on its way to the BBO.          *)

Offer(side, price) == <<side, price>> \in offered
LevelOffered(level) == level.valid => Offer(level.side, level.price)
CmdOffered(cmd) == cmd.valid /\ cmd.type = "ADD" => Offer(cmd.side, cmd.price)

TableOffered ==
    /\ \A a \in LevelAddr : LevelOffered(bram[a])
    /\ LevelOffered(bramDo) /\ LevelOffered(bramDi) /\ LevelOffered(pipeOldLevel)
    /\ LevelOffered(rdStage1) /\ LevelOffered(rdStage2)
    /\ CmdOffered(pipe)

OfferedInvariant ==
    /\ TableOffered
    /\ CmdOffered(priceCmd)
    /\ state = "ADD_ORDER" => Offer(msg.side, msg.price)
    /\ BboWasOffered

LEMMA WrittenOffered ==
    ASSUME TableTypeOK, TableOffered
    PROVE  /\ Adding => LevelOffered(Added)
           /\ Writes /\ ~Adding => LevelOffered(Removed)
<1>1. pipeOldLevel \in Level /\ pipe \in Cmd
  BY DEF TableTypeOK
<1>2. ASSUME Adding PROVE LevelOffered(Added)
  <2>1. Offer(pipe.side, pipe.price)
    BY <1>2 DEF Adding, TableOffered, CmdOffered
  <2>2. CASE Uncounted \/ pipeOldLevel.side # pipe.side
    BY <2>1, <2>2 DEF Added, LevelOffered
  <2>3. CASE ~(Uncounted \/ pipeOldLevel.side # pipe.side)
    <3>1. Offer(pipeOldLevel.side, pipeOldLevel.price)
      BY <2>3 DEF Uncounted, TableOffered, LevelOffered
    <3>2. /\ Added.side = pipeOldLevel.side /\ Added.price = pipeOldLevel.price
      BY <1>1, <2>3 DEF Added, Level
    <3> QED BY <3>1, <3>2 DEF LevelOffered
  <2> QED BY <2>2, <2>3
<1>3. ASSUME Writes, ~Adding PROVE LevelOffered(Removed)
  <2>1. Offer(pipeOldLevel.side, pipeOldLevel.price)
    BY <1>3 DEF Writes, TableOffered, LevelOffered
  <2>2. Removed.side = pipeOldLevel.side /\ Removed.price = pipeOldLevel.price
    BY <1>1 DEF Removed, Level
  <2> QED BY <2>1, <2>2 DEF LevelOffered
<1> QED BY <1>2, <1>3

(* What has been offered stays offered.                                    *)
LEMMA OffersStay ==
    ASSUME offered \subseteq offered'
    PROVE  /\ \A level : LevelOffered(level) => (level.valid =>
                              <<level.side, level.price>> \in offered')
           /\ \A cmd : CmdOffered(cmd) => (cmd.valid /\ cmd.type = "ADD" =>
                              <<cmd.side, cmd.price>> \in offered')
BY DEF LevelOffered, CmdOffered, Offer

LEMMA TableStepOffered ==
    ASSUME TableTypeOK, TableOffered, NEW cmd \in Cmd, CmdOffered(cmd),
           TableClock(cmd), offered \subseteq offered'
    PROVE  TableOffered'
<1> DEFINE Still(level) == level.valid => <<level.side, level.price>> \in offered'
<1>1. Still(NoLevel) /\ CmdOffered(NoCmd)
  BY DEF NoLevel, NoCmd, CmdOffered
<1>2. \A a \in LevelAddr : Still(bram'[a])
  <2>1. \A a \in LevelAddr : Still(bram[a])
    BY OffersStay DEF TableOffered
  <2>2. Still(bramDi)
    BY OffersStay DEF TableOffered
  <2>3. bram' = bram \/ bram' = [bram EXCEPT ![bramAddr] = bramDi]
    BY DEF TableClock
  <2> HIDE DEF Still
  <2> QED BY <2>1, <2>2, <2>3 DEF TableTypeOK
<1>3. Still(bramDo')
  <2>1. bramAddr \in LevelAddr /\ bramDo' = bram[bramAddr]
    BY DEF TableTypeOK, TableClock
  <2> QED BY <2>1, OffersStay DEF TableOffered
<1>4. Still(bramDi')
  <2>1. CASE Adding
    BY <2>1, WrittenOffered, OffersStay DEF TableClock
  <2>2. CASE ~Adding /\ Writes
    BY <2>2, WrittenOffered, OffersStay DEF TableClock
  <2>3. CASE ~Adding /\ ~Writes
    BY <2>3, <1>1 DEF TableClock
  <2> QED BY <2>1, <2>2, <2>3
<1>5. Still(pipeOldLevel')
  <2>1. pipeOldLevel' = bramDo \/ pipeOldLevel' = pipeOldLevel
    BY DEF TableClock
  <2> QED BY <2>1, OffersStay DEF TableOffered
<1>6. Still(rdStage1') /\ Still(rdStage2')
  <2>1. (rdStage1' = bramDo \/ rdStage1' = NoLevel) /\ rdStage2' = rdStage1
    BY DEF TableClock
  <2> QED BY <2>1, <1>1, OffersStay DEF TableOffered
<1>7. pipe'.valid /\ pipe'.type = "ADD" => <<pipe'.side, pipe'.price>> \in offered'
  <2>1. pipe' = cmd \/ pipe' = NoCmd
    BY DEF TableClock
  <2> QED BY <2>1, <1>1, OffersStay
<1> QED
  BY <1>2, <1>3, <1>4, <1>5, <1>6, <1>7 DEF TableOffered, LevelOffered, CmdOffered, Offer

LEMMA TrackerStepOffered ==
    ASSUME TrackerTypeOK, BboWasOffered, NEW level \in Level, LevelOffered(level),
           NEW trigger \in BOOLEAN, TrackerClock(level, trigger), offered \subseteq offered'
    PROVE  BboWasOffered'
<1>1. CASE bbo' = bbo
  BY <1>1 DEF BboWasOffered
<1>2. CASE TakeLevel(level) /\ Improves(level)
  <2>1. Offer(scanSide, level.price)
    BY <1>2 DEF Improves, LevelOffered
  <2>2. bbo' = WithBest(level)
    BY <1>2 DEF TakeLevel
  <2>3. CASE scanSide = "buy"
    <3>1. bbo'.bid = level.price /\ bbo'.ask = bbo.ask
      BY <2>2, <2>3 DEF WithBest, TrackerTypeOK
    <3> QED BY <2>1, <2>3, <3>1 DEF BboWasOffered, Offer
  <2>4. CASE scanSide # "buy"
    <3>1. bbo'.bid = bbo.bid /\ bbo'.ask = level.price /\ scanSide = "sell"
      BY <2>2, <2>4 DEF WithBest, TrackerTypeOK
    <3> QED BY <2>1, <3>1 DEF BboWasOffered, Offer
  <2> QED BY <2>3, <2>4
<1>3. CASE ComputeSpread
  <2>1. bbo'.bid = bbo.bid /\ bbo'.ask = bbo.ask
    BY <1>3 DEF ComputeSpread, TrackerTypeOK
  <2> QED BY <2>1 DEF BboWasOffered
<1> QED
  BY <1>1, <1>2, <1>3
  DEF TrackerClock, TrackerIdle, RequestLevel, SideDone, WaitForLevel, TakeLevel, ScanDone

(* What the manager sends to the table was offered.                        *)
LEMMA ManagerStepOffered ==
    ASSUME TypeOK, OfferedInvariant, Next
    PROVE  /\ offered \subseteq offered'
           /\ CmdOffered(priceCmd)'
           /\ state' = "ADD_ORDER" => Offer(msg.side, msg.price)'
<1>2. ASSUME Release PROVE CmdOffered(priceCmd)'
  BY <1>2 DEF Release, Drive, CmdOffered, NoCmd
<1>3. ASSUME priceCmd' = Forwarded PROVE CmdOffered(priceCmd)'
  <2>1. Forwarded.valid => Forwarded.type = "LOOKUP"
    BY DEF Forwarded, NoCmd
  <2> QED BY <1>3, <2>1 DEF CmdOffered
<1>4. ASSUME NEW m \in Message, Accept(m)
      PROVE  /\ offered \subseteq offered'
             /\ CmdOffered(priceCmd)'
             /\ state' = "ADD_ORDER" => Offer(msg.side, msg.price)'
  <2>1. offered \subseteq offered' /\ CmdOffered(priceCmd)'
    BY <1>2, <1>4 DEF Accept
  <2>2. ASSUME state' = "ADD_ORDER" PROVE Offer(msg.side, msg.price)'
    <3>1. m.type = "A"
      BY <1>4, <2>2, MessageTyped DEF Accept, FirstState
    <3>2. msg' = m /\ offered' = offered \cup {<<m.side, m.price>>}
      BY <1>4, <3>1 DEF Accept
    <3> QED BY <3>2 DEF Offer
  <2> QED BY <2>1, <2>2
<1>5. CASE AddOrder
  <2>1. Offer(msg.side, msg.price)
    BY <1>5 DEF AddOrder, OfferedInvariant
  <2>2. /\ priceCmd' = PriceCmd("ADD", msg.price, msg.shares, msg.side)
        /\ offered' = offered /\ state' # "ADD_ORDER"
    BY <1>5 DEF AddOrder, Drive, QuietClock
  <2> QED BY <2>1, <2>2 DEF CmdOffered, Offer, PriceCmd
<1>6. CASE UpdateOrder
  <2>1. priceCmd'.type = "REMOVE" /\ offered' = offered /\ state' # "ADD_ORDER"
    BY <1>6 DEF UpdateOrder, Drive, QuietClock, PriceCmd
  <2> QED BY <2>1 DEF CmdOffered
<1>7. CASE Idle \/ WaitBbo
  BY <1>3, <1>7 DEF Idle, WaitBbo, Drive, QuietClock
<1>8. CASE UpdateBbo
  BY <1>8 DEF UpdateBbo, Drive, QuietClock, CmdOffered, NoCmd
<1>9. CASE LookupOrder
  BY <1>9 DEF LookupOrder, Drive, QuietClock, CmdOffered, NoCmd
<1>10. CASE Wait \/ PriceCmdDone \/ NothingToUpdate \/ Done
  BY <1>2, <1>10 DEF Wait, PriceCmdDone, NothingToUpdate, Done, QuietClock
<1> QED
  BY <1>4, <1>5, <1>6, <1>7, <1>8, <1>9, <1>10 DEF Next

(* The book never shows a price that nobody offered on that side.          *)
THEOREM BboOffered == Spec => []BboWasOffered
<1>1. Init => OfferedInvariant
  BY DEF Init, TableInit, TrackerInit, NoLevel, NoCmd, NoBid, OfferedInvariant,
         TableOffered, LevelOffered, CmdOffered, BboWasOffered
<1>2. TypeOK /\ OfferedInvariant /\ [Next]_vars => OfferedInvariant'
  <2> SUFFICES ASSUME TypeOK, OfferedInvariant, [Next]_vars PROVE OfferedInvariant'
    OBVIOUS
  <2>1. CASE Next
    <3>1. /\ TableClock(priceCmd) /\ TrackerClock(rdStage2, bboTrigger)
      BY <2>1, EveryStepClocks DEF BlocksClock
    <3>2. /\ priceCmd \in Cmd /\ rdStage2 \in Level /\ bboTrigger \in BOOLEAN
          /\ CmdOffered(priceCmd) /\ LevelOffered(rdStage2)
      BY DEF TypeOK, ManagerTypeOK, TableTypeOK, OfferedInvariant, TableOffered
    <3>3. /\ offered \subseteq offered' /\ CmdOffered(priceCmd)'
          /\ state' = "ADD_ORDER" => Offer(msg.side, msg.price)'
      BY <2>1, ManagerStepOffered
    <3>4. TableOffered'
      BY <3>1, <3>2, <3>3, TableStepOffered DEF TypeOK, OfferedInvariant
    <3>5. BboWasOffered'
      BY <3>1, <3>2, <3>3, TrackerStepOffered DEF TypeOK, OfferedInvariant
    <3> QED BY <3>3, <3>4, <3>5 DEF OfferedInvariant
  <2>2. CASE UNCHANGED vars
    BY <2>2 DEF vars, tableVars, trackerVars, managerVars, history, OfferedInvariant,
                TableOffered, LevelOffered, CmdOffered, Offer, BboWasOffered
  <2> QED BY <2>1, <2>2
<1>3. OfferedInvariant => BboWasOffered
  BY DEF OfferedInvariant
<1> QED BY <1>1, <1>2, <1>3, BookTypes, PTL DEF Spec

---------------------------------------------------------------------------
(* A scan begins when the table is at rest.  The invariant says in which   *)
(* state of the manager a command can be at each stage of the pipeline,    *)
(* and when the tracker asks.                                              *)

PipelineTiming ==
    /\ priceCmd.valid => \/ state = "IDLE" /\ priceCmd.type = "LOOKUP"
                         \/ state = "WAIT_PRICE_CMD" /\ waitCounter = 2
    /\ pipe.valid => \/ state \in {"IDLE", "ADD_ORDER", "LOOKUP_ORDER"} /\ pipe.type = "LOOKUP"
                     \/ state = "WAIT_PRICE_CMD" /\ waitCounter = 1
    /\ bramWe => state = "WAIT_PRICE_CMD" /\ waitCounter = 0

TriggerTiming ==
    /\ levelReq.valid => trState = "WAIT1"
    /\ bboTrigger => state = "WAIT_BBO"
    /\ state = "WAIT_BBO" => bboTrigger /\ trState = "IDLE"

ScanTiming == PipelineTiming /\ TriggerTiming

(* What moves through the table on a clock.                                *)
LEMMA CommandMoves ==
    ASSUME TypeOK, BlocksClock
    PROVE  /\ pipe'.valid => priceCmd.valid /\ pipe' = priceCmd
           /\ bramWe' => pipe.valid /\ pipe.type # "LOOKUP"
<1>1. pipe' = IF priceCmd.valid THEN priceCmd ELSE NoCmd
  BY DEF BlocksClock, TableClock
<1>2. bramWe' = Writes
  BY DEF BlocksClock, TableClock
<1> QED BY <1>1, <1>2 DEF NoCmd, Writes, Adding, Removing

LEMMA TrackerAsks ==
    ASSUME TypeOK, BlocksClock
    PROVE  /\ levelReq'.valid => trState' = "WAIT1"
           /\ trState = "IDLE" /\ ~bboTrigger => trState' = "IDLE"
BY DEF BlocksClock, TrackerClock, TrackerIdle, RequestLevel, SideDone, WaitForLevel,
       TakeLevel, ComputeSpread, ScanDone, NoReq

LEMMA TimingStep ==
    ASSUME TypeOK, ScanTiming, Next PROVE ScanTiming'
<1>1. BlocksClock
  BY EveryStepClocks
<1>2. /\ pipe'.valid => priceCmd.valid /\ pipe' = priceCmd
      /\ bramWe' => pipe.valid /\ pipe.type # "LOOKUP"
      /\ levelReq'.valid => trState' = "WAIT1"
      /\ trState = "IDLE" /\ ~bboTrigger => trState' = "IDLE"
  BY <1>1, CommandMoves, TrackerAsks
<1>3. ~NoCmd.valid
  BY DEF NoCmd
<1>4. ASSUME NEW m \in Message, Accept(m) PROVE ScanTiming'
  <2>1. /\ state = "IDLE" /\ state' \in {"IDLE", "ADD_ORDER", "LOOKUP_ORDER"}
        /\ priceCmd' = NoCmd /\ bboTrigger' = FALSE
    BY <1>4 DEF Accept, FirstState, Release, Drive
  <2> QED BY <1>2, <1>3, <2>1 DEF ScanTiming, PipelineTiming, TriggerTiming
<1>5. CASE Idle
  <2>1. /\ state = "IDLE" /\ state' = "IDLE" /\ priceCmd' = Forwarded
        /\ bboTrigger' = FALSE
    BY <1>5 DEF Idle, Drive
  <2>2. Forwarded.valid => Forwarded.type = "LOOKUP"
    BY DEF Forwarded, NoCmd
  <2> QED BY <1>2, <2>1, <2>2 DEF ScanTiming, PipelineTiming, TriggerTiming
<1>6. CASE AddOrder
  <2>1. /\ state = "ADD_ORDER" /\ state' = "WAIT_PRICE_CMD" /\ waitCounter' = 2
        /\ bboTrigger' = FALSE
    BY <1>6 DEF AddOrder, Drive
  <2> QED BY <1>2, <2>1 DEF ScanTiming, PipelineTiming, TriggerTiming
<1>7. CASE LookupOrder
  <2>1. /\ state = "LOOKUP_ORDER" /\ state' = "UPDATE_ORDER"
        /\ priceCmd' = NoCmd /\ bboTrigger' = FALSE
    BY <1>7 DEF LookupOrder, Drive
  <2> QED BY <1>2, <1>3, <2>1 DEF ScanTiming, PipelineTiming, TriggerTiming
<1>8. CASE Wait
  <2>1. /\ state \in {"WAIT_PRICE_CMD", "UPDATE_ORDER"} /\ state' = state
        /\ waitCounter \in 0..2 /\ waitCounter' = waitCounter - 1
        /\ priceCmd' = NoCmd /\ bboTrigger' = FALSE
    BY <1>8 DEF Wait, Release, Drive, TypeOK, ManagerTypeOK
  <2> QED BY <1>2, <1>3, <2>1 DEF ScanTiming, PipelineTiming, TriggerTiming
<1>9. CASE PriceCmdDone
  <2>1. /\ state = "WAIT_PRICE_CMD" /\ waitCounter = 0 /\ state' = "UPDATE_BBO"
        /\ priceCmd' = NoCmd /\ bboTrigger' = FALSE
    BY <1>9 DEF PriceCmdDone, Release, Drive
  <2> QED BY <1>2, <1>3, <2>1 DEF ScanTiming, PipelineTiming, TriggerTiming
<1>10. CASE UpdateOrder
  <2>1. /\ state = "UPDATE_ORDER" /\ state' = "WAIT_PRICE_CMD" /\ waitCounter' = 2
        /\ bboTrigger' = FALSE
    BY <1>10 DEF UpdateOrder, Drive
  <2> QED BY <1>2, <2>1 DEF ScanTiming, PipelineTiming, TriggerTiming
<1>11. CASE NothingToUpdate
  <2>1. /\ state = "UPDATE_ORDER" /\ state' = "DONE"
        /\ priceCmd' = NoCmd /\ bboTrigger' = FALSE
    BY <1>11 DEF NothingToUpdate, Release, Drive
  <2> QED BY <1>2, <1>3, <2>1 DEF ScanTiming, PipelineTiming, TriggerTiming
<1>12. CASE UpdateBbo
  <2>1. /\ state = "UPDATE_BBO" /\ priceCmd' = NoCmd
        /\ bboTrigger' = BboReady
        /\ state' = IF BboReady THEN "WAIT_BBO" ELSE "UPDATE_BBO"
    BY <1>12 DEF UpdateBbo, Drive
  <2>2. ~bboTrigger
    BY <2>1 DEF ScanTiming, TriggerTiming
  <2> QED BY <1>2, <1>3, <2>1, <2>2
          DEF ScanTiming, PipelineTiming, TriggerTiming, BboReady
<1>13. CASE WaitBbo
  <2>1. state = "WAIT_BBO" /\ BboReady /\ ~levelReq.valid
    BY <1>13 DEF WaitBbo, ScanTiming, TriggerTiming, BboReady
  <2>2. state' = "DONE" /\ priceCmd' = NoCmd /\ bboTrigger' = FALSE
    BY <1>13, <2>1 DEF WaitBbo, Drive, Forwarded
  <2> QED BY <1>2, <1>3, <2>1, <2>2 DEF ScanTiming, PipelineTiming, TriggerTiming
<1>14. CASE Done
  <2>1. /\ state = "DONE" /\ state' = "IDLE"
        /\ priceCmd' = NoCmd /\ bboTrigger' = FALSE
    BY <1>14 DEF Done, Release, Drive
  <2> QED BY <1>2, <1>3, <2>1 DEF ScanTiming, PipelineTiming, TriggerTiming
<1> QED
  BY <1>4, <1>5, <1>6, <1>7, <1>8, <1>9, <1>10, <1>11, <1>12, <1>13, <1>14 DEF Next

THEOREM TimingHolds == Spec => []ScanTiming
<1>1. Init => ScanTiming
  BY DEF Init, TableInit, TrackerInit, NoCmd, NoReq, ScanTiming, PipelineTiming,
         TriggerTiming
<1>2. TypeOK /\ ScanTiming /\ [Next]_vars => ScanTiming'
  <2>1. TypeOK /\ ScanTiming /\ UNCHANGED vars => ScanTiming'
    BY DEF vars, tableVars, trackerVars, managerVars, ScanTiming, PipelineTiming,
           TriggerTiming
  <2> QED BY <2>1, TimingStep
<1> QED BY <1>1, <1>2, BookTypes, PTL DEF Spec

(* No command is in the price level table when a scan begins.              *)
THEOREM ScansStartSettled == Spec => []SettledBeforeScan
<1>1. ScanTiming => SettledBeforeScan
  BY DEF ScanTiming, PipelineTiming, TriggerTiming, ScanBegins, SettledBeforeScan
<1> QED BY <1>1, TimingHolds, PTL

(* WAIT_BBO lasts one clock: the manager goes on before the scan that it   *)
(* asked for has begun (order_book_manager.vhd:490).                       *)
THEOREM NeverWaitsForScan ==
    Spec => [][state = "WAIT_BBO" => state' = "DONE"]_vars
<1>1. ScanTiming /\ [Next]_vars => [state = "WAIT_BBO" => state' = "DONE"]_vars
  <2> SUFFICES ASSUME ScanTiming, Next, state = "WAIT_BBO" PROVE state' = "DONE"
    OBVIOUS
  <2>1. WaitBbo
    BY DEF Next, Accept, Idle, AddOrder, LookupOrder, Wait, PriceCmdDone, UpdateOrder,
           NothingToUpdate, UpdateBbo, WaitBbo, Done
  <2> QED BY <2>1 DEF WaitBbo, ScanTiming, TriggerTiming, BboReady
<1> QED BY <1>1, TimingHolds, PTL DEF Spec

---------------------------------------------------------------------------
(* The counter of the order storage.                                       *)

StorageAgrees ==
    /\ validBits = {a \in OrderAddr : orders[a].valid}
    /\ orderCount = Cardinality(validBits)

LEMMA AddressesFinite ==
    ASSUME NEW S \in SUBSET OrderAddr PROVE IsFiniteSet(S) /\ Cardinality(S) \in Nat
<1>1. IsFiniteSet(OrderAddr)
  BY FS_Interval, StorageAssumption DEF OrderAddr
<1> QED BY <1>1, FS_Subset, FS_CardinalityType

LEMMA StorageStepAgrees ==
    ASSUME StorageTypeOK, StorageAgrees, NEW wr \in WritePort, NEW rd \in ReadPort,
           StorageClock(wr, rd)
    PROVE  StorageAgrees'
<1>1. CASE ~wr.en
  <2>1. UNCHANGED <<orders, validBits, orderCount>>
    BY <1>1 DEF StorageClock
  <2> QED BY <2>1 DEF StorageAgrees
<1>2. CASE wr.en
  <2>1. /\ orders' = [orders EXCEPT ![wr.addr] = wr.order]
        /\ validBits' = IF wr.order.valid THEN validBits \cup {wr.addr}
                        ELSE validBits \ {wr.addr}
        /\ orderCount' = NewOrderCount(wr)
    BY <1>2 DEF StorageClock
  <2>2. wr.addr \in OrderAddr /\ orders \in [OrderAddr -> Order]
    BY DEF WritePort, StorageTypeOK
  <2>3. \A a \in OrderAddr : orders'[a] = IF a = wr.addr THEN wr.order ELSE orders[a]
    BY <2>1, <2>2
  <2>4. validBits' = {a \in OrderAddr : orders'[a].valid}
    BY <2>1, <2>2, <2>3 DEF StorageAgrees
  <2>5. IsFiniteSet(validBits) /\ Cardinality(validBits) \in Nat
    BY AddressesFinite DEF StorageTypeOK
  <2>6. orderCount' = Cardinality(validBits')
    <3>1. CASE wr.order.valid /\ wr.addr \notin validBits
      <4>1. Cardinality(validBits \cup {wr.addr}) = Cardinality(validBits) + 1
        BY <2>5, <3>1, FS_AddElement
      <4> QED BY <2>1, <3>1, <4>1 DEF NewOrderCount, StorageAgrees
    <3>2. CASE wr.order.valid /\ wr.addr \in validBits
      <4>1. validBits' = validBits
        BY <2>1, <3>2
      <4> QED BY <2>1, <3>2, <4>1 DEF NewOrderCount, StorageAgrees
    <3>3. CASE ~wr.order.valid /\ wr.addr \in validBits
      <4>1. Cardinality(validBits \ {wr.addr}) = Cardinality(validBits) - 1
        BY <2>5, <3>3, FS_RemoveElement
      <4>2. Cardinality(validBits) > 0
        BY <2>5, <3>3, FS_EmptySet
      <4> QED BY <2>1, <2>5, <3>3, <4>1, <4>2 DEF NewOrderCount, StorageAgrees
    <3>4. CASE ~wr.order.valid /\ wr.addr \notin validBits
      <4>1. validBits' = validBits
        BY <2>1, <3>4
      <4> QED BY <2>1, <3>4, <4>1 DEF NewOrderCount, StorageAgrees
    <3> QED BY <3>1, <3>2, <3>3, <3>4
  <2> QED BY <2>4, <2>6 DEF StorageAgrees
<1> QED BY <1>1, <1>2

(* total_orders is the number of valid orders in the RAM.                  *)
THEOREM OrdersCounted == Spec => []OrderCountAgrees
<1>1. Init => StorageAgrees
  <2> SUFFICES ASSUME Init PROVE StorageAgrees
    OBVIOUS
  <2>1. validBits = {} /\ orderCount = 0 /\ \A a \in OrderAddr : ~orders[a].valid
    BY DEF Init, StorageInit, NoOrder
  <2> QED BY <2>1, FS_EmptySet DEF StorageAgrees
<1>2. TypeOK /\ StorageAgrees /\ [Next]_vars => StorageAgrees'
  <2> SUFFICES ASSUME TypeOK, StorageAgrees, [Next]_vars PROVE StorageAgrees'
    OBVIOUS
  <2>1. CASE Next
    <3>1. storWr \in WritePort /\ storRd \in ReadPort
      BY ManagerParts DEF TypeOK, PortsTypeOK
    <3> QED BY <2>1, <3>1, EveryStepClocks, StorageStepAgrees DEF TypeOK, BlocksClock
  <2>2. CASE UNCHANGED vars
    BY <2>2 DEF vars, storageVars, StorageAgrees
  <2> QED BY <2>1, <2>2
<1>3. StorageAgrees => OrderCountAgrees
  BY DEF StorageAgrees, OrderCountAgrees
<1> QED BY <1>1, <1>2, <1>3, BookTypes, PTL DEF Spec

---------------------------------------------------------------------------
(* The scan that no message interrupts.                                    *)

(* The sell half of the table stays empty: no command that writes has an   *)
(* address in it, because the sell side gets the addresses of the buy side *)
(* (order_book_pkg.vhd:239).                                               *)

WritesBelow(cmd) == cmd.valid /\ cmd.type # "LOOKUP" => cmd.addr < Levels
SellHalfEmpty ==
    /\ \A a \in LevelAddr : a >= Levels => ~bram[a].valid
    /\ bramWe => bramAddr < Levels
    /\ WritesBelow(pipe) /\ WritesBelow(priceCmd)

(* The k-th level the tracker asks for on the side it scans, and where the *)
(* address register of the RAM stands when it asks.  The answer to the     *)
(* k-th question is the level of that address, and arrives at the look     *)
(* after the next question; the first look of a side sees nothing.         *)
AskedAt(k) == IF scanSide = "buy" THEN Levels - 1 - k ELSE Levels + k
StoodAt(k) == IF k = 0 THEN (IF scanSide = "buy" THEN scanFrom ELSE 0) ELSE AskedAt(k - 1)
AnswerSeen(k) == IF k = 0 THEN NoLevel ELSE bram[StoodAt(k - 1)]

NothingWritten ==
    /\ ~bramWe /\ ~bboTrigger
    /\ pipe.valid => pipe.type = "LOOKUP"
    /\ priceCmd.valid => priceCmd.type = "LOOKUP"
    /\ \/ state = "IDLE"
       \/ state = "DONE" /\ trState = "SCAN" /\ scanSide = "buy" /\ scanCounter = 0

(* One question at a time is on its way through the table.                 *)
QuestionOnWay ==
    /\ trState = "SCAN" =>
         /\ ~priceCmd.valid
         /\ scanCounter = 0 => ~pipe.valid /\ bramAddr = StoodAt(0)
         /\ scanCounter # 0 => /\ pipe.valid /\ pipe.addr = AskedAt(scanCounter - 1)
                               /\ bramDo = bram[StoodAt(scanCounter - 1)]
    /\ trState = "WAIT1" =>
         /\ levelReq.valid /\ levelReq.addr = AskedAt(scanCounter)
         /\ ~priceCmd.valid /\ ~pipe.valid /\ bramAddr = StoodAt(scanCounter)
         /\ rdStage1 = AnswerSeen(scanCounter)
    /\ trState = "WAIT2" =>
         /\ priceCmd.valid /\ priceCmd.addr = AskedAt(scanCounter)
         /\ ~pipe.valid /\ bramAddr = StoodAt(scanCounter)
         /\ rdStage2 = AnswerSeen(scanCounter)

(* What the answers so far amount to.                                      *)
IsBuy(a) == bram[a].valid /\ bram[a].side = "buy"
BidsSoFar ==
    trState # "IDLE" /\ scanSide = "buy" =>
      /\ trState \in {"SCAN", "WAIT1", "WAIT2"}
      /\ found => \E i \in 0..(scanCounter - 2) :
                    IsBuy(StoodAt(i)) /\ bbo.bid = bram[StoodAt(i)].price
      /\ \A i \in 0..(scanCounter - 2) :
           IsBuy(StoodAt(i)) => found /\ bram[StoodAt(i)].price <= bbo.bid
BidIsBest ==
    scanSide = "sell" =>
      /\ BidsSeen # {} => bbo.bid \in BidsSeen
      /\ \A p \in BidsSeen : p <= bbo.bid
AskIsLevel0 ==
    scanSide = "sell" =>
      /\ scanCounter < 2 => ~found /\ trState \in {"SCAN", "WAIT1", "WAIT2"}
      /\ scanCounter >= 2 /\ bram[0].valid /\ bram[0].side = "sell" =>
           bbo.ask = bram[0].price

QuietScan ==
    quiet /\ trState # "IDLE" =>
      /\ scanFrom \in LevelAddr
      /\ NothingWritten /\ QuestionOnWay
      /\ BidsSoFar /\ BidIsBest /\ AskIsLevel0

---------------------------------------------------------------------------
(* First the sell half: a step writes only below it, because PriceToAddr   *)
(* gives every price an address below it, whatever the side.               *)

(* What the manager sends.                                                 *)
LEMMA CommandsBelow ==
    ASSUME TypeOK, Next PROVE WritesBelow(priceCmd)'
<1>1. ASSUME NEW type \in {"ADD", "REMOVE"}, NEW p \in Price, NEW n \in Nat,
             NEW s \in Side, priceCmd' = PriceCmd(type, p, n, s)
      PROVE  WritesBelow(priceCmd)'
  BY <1>1, PriceHasAddress DEF PriceCmd, WritesBelow
<1>2. ASSUME priceCmd' \in {NoCmd, Forwarded} PROVE WritesBelow(priceCmd)'
  <2>1. Forwarded.valid => Forwarded.type = "LOOKUP"
    BY DEF Forwarded, NoCmd
  <2>2. ~NoCmd.valid
    BY DEF NoCmd
  <2> QED BY <1>2, <2>1, <2>2 DEF WritesBelow
<1>3. CASE AddOrder
  <2>1. msg.price \in Price /\ msg.shares \in Nat /\ msg.side \in Side
    BY DEF TypeOK, ManagerTypeOK
  <2>2. priceCmd' = PriceCmd("ADD", msg.price, msg.shares, msg.side)
    BY <1>3 DEF AddOrder, Drive
  <2> QED BY <1>1, <2>1, <2>2
<1>4. CASE UpdateOrder
  <2> DEFINE n == IF msg.type = "E" THEN msg.shares ELSE storRd2.order.shares
  <2>1. storRd2.order.price \in Price /\ storRd2.order.side \in Side /\ n \in Nat
    BY DEF TypeOK, ManagerTypeOK, StorageTypeOK, Read, Order
  <2>2. priceCmd' = PriceCmd("REMOVE", storRd2.order.price, n, storRd2.order.side)
    BY <1>4 DEF UpdateOrder, Drive
  <2> QED BY <1>1, <2>1, <2>2
<1>5. CASE ~AddOrder /\ ~UpdateOrder
  <2>1. priceCmd' \in {NoCmd, Forwarded}
    BY <1>5 DEF Next, Accept, Idle, LookupOrder, Wait, PriceCmdDone, NothingToUpdate,
                UpdateBbo, WaitBbo, Done, Release, Drive
  <2> QED BY <1>2, <2>1
<1> QED BY <1>3, <1>4, <1>5

(* No order ever has a level in the half of the table that the ask scan    *)
(* asks for (order_book_pkg.vhd:239).                                      *)
THEOREM SellHalfStaysEmpty == Spec => []SellHalfEmpty
<1>1. Init => SellHalfEmpty
  BY DEF Init, TableInit, NoLevel, NoCmd, SellHalfEmpty, WritesBelow
<1>2. TypeOK /\ SellHalfEmpty /\ [Next]_vars => SellHalfEmpty'
  <2> SUFFICES ASSUME TypeOK, SellHalfEmpty, [Next]_vars PROVE SellHalfEmpty'
    OBVIOUS
  <2>1. CASE Next
    <3>1. TableClock(priceCmd)
      BY <2>1, EveryStepClocks DEF BlocksClock
    <3>2. \A a \in LevelAddr : a >= Levels => bram'[a] = bram[a]
      <4>1. Levels \in Nat /\ bramAddr \in LevelAddr /\ LevelAddr \subseteq Int
        BY TableAssumption DEF TypeOK, TableTypeOK, LevelAddr
      <4>2. bram \in [LevelAddr -> Level]
        BY DEF TypeOK, TableTypeOK
      <4> QED BY <3>1, <4>1, <4>2 DEF TableClock, SellHalfEmpty
    <3>3. bramWe' => bramAddr' < Levels
      BY <3>1 DEF TableClock, Writes, Adding, Removing, SellHalfEmpty, WritesBelow
    <3>4. WritesBelow(pipe)'
      BY <3>1 DEF TableClock, SellHalfEmpty, WritesBelow, NoCmd
    <3>5. WritesBelow(priceCmd)'
      BY <2>1, CommandsBelow
    <3> QED BY <3>2, <3>3, <3>4, <3>5 DEF SellHalfEmpty
  <2>2. CASE UNCHANGED vars
    BY <2>2 DEF vars, tableVars, managerVars, SellHalfEmpty, WritesBelow
  <2> QED BY <2>1, <2>2
<1> QED BY <1>1, <1>2, BookTypes, PTL DEF Spec

---------------------------------------------------------------------------
(* A clock of a scan that nothing interrupts: the manager forwards what    *)
(* the tracker asks for and the table only reads.                          *)

LEMMA ScanParameters ==
    /\ Levels \in Nat /\ Levels > 0 /\ ScanDepth = Levels
    /\ \A a \in LevelAddr : a \in Nat /\ a <= 2 * Levels - 1
    /\ \A a \in Nat : a <= 2 * Levels - 1 => a \in LevelAddr
BY TableAssumption, BookAssumption DEF LevelAddr

LEMMA UndisturbedClock ==
    ASSUME TypeOK, ScanTiming, QuietScan, Next, quiet', trState # "IDLE"
    PROVE  /\ quiet /\ scanFrom' = scanFrom /\ NothingWritten'
           /\ priceCmd' = Forwarded
           /\ bram' = bram /\ bramDo' = bram[bramAddr]
           /\ pipe' = IF priceCmd.valid THEN priceCmd ELSE NoCmd
           /\ bramAddr' = IF priceCmd.valid THEN priceCmd.addr
                          ELSE IF pipe.valid THEN pipe.addr ELSE bramAddr
           /\ rdStage1' = IF pipe.valid THEN bramDo ELSE NoLevel
           /\ rdStage2' = rdStage1
           /\ TrackerClock(rdStage2, bboTrigger)
<1>1. TableClock(priceCmd) /\ TrackerClock(rdStage2, bboTrigger)
  BY EveryStepClocks DEF BlocksClock
<1>2. HistoryClock(FALSE)
  BY DEF Next, Accept, Idle, AddOrder, LookupOrder, Wait, PriceCmdDone, UpdateOrder,
         NothingToUpdate, UpdateBbo, WaitBbo, Done, QuietClock, HistoryClock
<1>3. quiet /\ scanFrom' = scanFrom
  BY <1>2 DEF HistoryClock, ScanBegins
<1>4. NothingWritten /\ QuestionOnWay
  BY <1>3 DEF QuietScan
<1>5. ~Writes /\ ~bramWe
  BY <1>4 DEF NothingWritten, Writes, Adding, Removing
<1>6. /\ bram' = bram /\ bramDo' = bram[bramAddr] /\ bramWe' = FALSE
      /\ pipe' = IF priceCmd.valid THEN priceCmd ELSE NoCmd
      /\ rdStage2' = rdStage1
  BY <1>1, <1>5 DEF TableClock
<1>7. bramAddr' = IF priceCmd.valid THEN priceCmd.addr
                  ELSE IF pipe.valid THEN pipe.addr ELSE bramAddr
  BY <1>1, <1>5 DEF TableClock
<1>8. rdStage1' = IF pipe.valid THEN bramDo ELSE NoLevel
  BY <1>1, <1>4 DEF TableClock, Looking, NothingWritten
<1>9. /\ priceCmd' = Forwarded /\ state' = "IDLE" /\ bboTrigger' = FALSE
  <2>1. CASE state = "IDLE"
    <3>1. Idle
      BY <2>1 DEF Next, Accept, Idle, AddOrder, LookupOrder, Wait, PriceCmdDone,
                  UpdateOrder, NothingToUpdate, UpdateBbo, WaitBbo, Done, HistoryClock
    <3> QED BY <3>1 DEF Idle, Drive
  <2>2. CASE state = "DONE" /\ trState = "SCAN"
    <3>1. Done
      BY <2>2 DEF Next, Accept, Idle, AddOrder, LookupOrder, Wait, PriceCmdDone,
                  UpdateOrder, NothingToUpdate, UpdateBbo, WaitBbo, Done
    <3>2. ~levelReq.valid
      BY <2>2 DEF ScanTiming, TriggerTiming
    <3> QED BY <3>1, <3>2 DEF Done, Release, Drive, Forwarded
  <2> QED BY <1>4, <2>1, <2>2 DEF NothingWritten
<1>10. NothingWritten'
  <2>1. pipe'.valid => pipe'.type = "LOOKUP"
    BY <1>4, <1>6 DEF NothingWritten, NoCmd
  <2>2. priceCmd'.valid => priceCmd'.type = "LOOKUP"
    BY <1>9 DEF Forwarded, NoCmd
  <2> QED BY <1>6, <1>9, <2>1, <2>2 DEF NothingWritten
<1> QED BY <1>1, <1>3, <1>6, <1>7, <1>8, <1>9, <1>10

(* The scan begins: the manager is in WAIT_BBO, and nothing moves.         *)
LEMMA ScanBeginning ==
    ASSUME TypeOK, ScanTiming, Next, quiet', trState = "IDLE", trState' # "IDLE"
    PROVE  QuietScan'
<1>1. TableClock(priceCmd) /\ TrackerClock(rdStage2, bboTrigger)
  BY EveryStepClocks DEF BlocksClock
<1>2. bboTrigger
  BY TrackerAsks, EveryStepClocks
<1>3. state = "WAIT_BBO" /\ ~levelReq.valid
  BY <1>2 DEF ScanTiming, TriggerTiming
<1>4. WaitBbo
  BY <1>3 DEF Next, Accept, Idle, AddOrder, LookupOrder, Wait, PriceCmdDone,
              UpdateOrder, NothingToUpdate, UpdateBbo, WaitBbo, Done
<1>5. state' = "DONE" /\ priceCmd' = NoCmd /\ bboTrigger' = FALSE
  BY <1>3, <1>4 DEF WaitBbo, Drive, Forwarded, BboReady
<1>6. scanFrom' = bramAddr
  BY <1>2, <1>4 DEF WaitBbo, QuietClock, HistoryClock, ScanBegins
<1>7. ~priceCmd.valid /\ ~pipe.valid /\ ~bramWe
  BY <1>3 DEF ScanTiming, PipelineTiming
<1>8. bramAddr' = bramAddr /\ bramWe' = FALSE /\ pipe' = NoCmd
  BY <1>1, <1>7 DEF TableClock, Writes, Adding, Removing
<1>9. /\ trState' = "SCAN" /\ scanSide' = "buy" /\ scanCounter' = 0
      /\ found' = FALSE
  BY <1>1, <1>2 DEF TrackerClock, TrackerIdle, RequestLevel, SideDone, WaitForLevel,
                    TakeLevel, ComputeSpread, ScanDone
<1>10. scanFrom' \in LevelAddr
  BY <1>6 DEF TypeOK, TableTypeOK
<1>11. ~NoCmd.valid
  BY DEF NoCmd
<1>12. NothingWritten'
  BY <1>5, <1>8, <1>9, <1>11 DEF NothingWritten
<1>13. QuestionOnWay'
  BY <1>5, <1>6, <1>8, <1>9, <1>11 DEF QuestionOnWay, StoodAt
<1>14. BidsSoFar' /\ BidIsBest' /\ AskIsLevel0'
  BY <1>9 DEF BidsSoFar, BidIsBest, AskIsLevel0
<1> QED BY <1>10, <1>12, <1>13, <1>14 DEF QuietScan

(* The questions and answers stay in step.                                 *)
LEMMA QuestionStep ==
    ASSUME TypeOK, ScanTiming, QuietScan, Next, quiet', trState # "IDLE"
    PROVE  QuestionOnWay'
<1>1. /\ quiet /\ scanFrom' = scanFrom /\ bram' = bram /\ priceCmd' = Forwarded
      /\ bramDo' = bram[bramAddr] /\ rdStage2' = rdStage1
      /\ pipe' = IF priceCmd.valid THEN priceCmd ELSE NoCmd
      /\ bramAddr' = IF priceCmd.valid THEN priceCmd.addr
                     ELSE IF pipe.valid THEN pipe.addr ELSE bramAddr
      /\ rdStage1' = IF pipe.valid THEN bramDo ELSE NoLevel
      /\ TrackerClock(rdStage2, bboTrigger)
  BY UndisturbedClock
<1>2. QuestionOnWay
  BY <1>1 DEF QuietScan
<1>3. ~NoCmd.valid
  BY DEF NoCmd
<1>4. Levels \in Nat /\ Levels > 0 /\ ScanDepth = Levels
  BY ScanParameters
<1>5. scanCounter \in 0..Levels /\ scanSide \in Side
  BY <1>4 DEF TypeOK, TrackerTypeOK
<1>6. trState # "WAIT1" => priceCmd' = NoCmd
  BY <1>1 DEF ScanTiming, TriggerTiming, Forwarded
<1>7. CASE RequestLevel
  <2>1. /\ trState = "SCAN" /\ trState' = "WAIT1" /\ levelReq' = [valid |-> TRUE, addr |-> ScanAddr]
        /\ scanSide' = scanSide /\ scanCounter' = scanCounter
    BY <1>7 DEF RequestLevel
  <2>2. ScanAddr = AskedAt(scanCounter)
    BY <1>4 DEF ScanAddr, AskedAt
  <2>3. bramAddr' = StoodAt(scanCounter) /\ rdStage1' = AnswerSeen(scanCounter)
    <3>1. CASE scanCounter = 0
      BY <1>1, <1>2, <2>1, <3>1 DEF QuestionOnWay, AnswerSeen
    <3>2. CASE scanCounter # 0
      <4>1. /\ ~priceCmd.valid /\ pipe.valid /\ pipe.addr = AskedAt(scanCounter - 1)
            /\ bramDo = bram[StoodAt(scanCounter - 1)]
        BY <1>2, <2>1, <3>2 DEF QuestionOnWay
      <4> QED BY <1>1, <3>2, <4>1 DEF StoodAt, AnswerSeen
    <3> QED BY <3>1, <3>2
  <2>4. ~pipe'.valid /\ ~priceCmd'.valid
    BY <1>1, <1>2, <1>3, <1>6, <2>1 DEF QuestionOnWay
  <2> QED BY <1>1, <2>1, <2>2, <2>3, <2>4 DEF QuestionOnWay, AskedAt, StoodAt, AnswerSeen
<1>8. CASE SideDone
  <2>1. /\ trState = "SCAN" /\ scanCounter = Levels
        /\ scanSide = "buy" => trState' = "SCAN" /\ scanSide' = "sell" /\ scanCounter' = 0
        /\ scanSide # "buy" => trState' = "COMPUTE_SPREAD"
    BY <1>4, <1>8 DEF SideDone
  <2>2. CASE scanSide = "buy"
    <3>1. ~priceCmd.valid /\ pipe.valid /\ pipe.addr = AskedAt(Levels - 1)
      BY <1>2, <1>4, <2>1 DEF QuestionOnWay
    <3>2. AskedAt(Levels - 1) = 0
      BY <1>4, <2>2 DEF AskedAt
    <3>3. bramAddr' = 0 /\ ~pipe'.valid /\ ~priceCmd'.valid
      BY <1>1, <1>3, <1>6, <2>1, <3>1, <3>2
    <3> QED BY <2>1, <2>2, <3>3 DEF QuestionOnWay, StoodAt
  <2>3. CASE scanSide # "buy"
    BY <2>1, <2>3 DEF QuestionOnWay
  <2> QED BY <2>2, <2>3
<1>9. CASE WaitForLevel
  <2>1. /\ trState = "WAIT1" /\ trState' = "WAIT2"
        /\ scanSide' = scanSide /\ scanCounter' = scanCounter
    BY <1>9 DEF WaitForLevel
  <2>2. /\ levelReq.valid /\ levelReq.addr = AskedAt(scanCounter)
        /\ ~priceCmd.valid /\ ~pipe.valid /\ bramAddr = StoodAt(scanCounter)
        /\ rdStage1 = AnswerSeen(scanCounter)
    BY <1>2, <2>1 DEF QuestionOnWay
  <2>3. priceCmd'.valid /\ priceCmd'.addr = AskedAt(scanCounter)
    BY <1>1, <2>2 DEF Forwarded, NoCmd
  <2>4. ~pipe'.valid /\ bramAddr' = bramAddr /\ rdStage2' = rdStage1
    BY <1>1, <1>3, <2>2
  <2> QED BY <1>1, <2>1, <2>2, <2>3, <2>4 DEF QuestionOnWay, AskedAt, StoodAt, AnswerSeen
<1>10. CASE TakeLevel(rdStage2)
  <2>1. /\ trState = "WAIT2" /\ trState' = "SCAN"
        /\ scanSide' = scanSide /\ scanCounter' = scanCounter + 1
    BY <1>10 DEF TakeLevel
  <2>2. /\ priceCmd.valid /\ priceCmd.addr = AskedAt(scanCounter)
        /\ bramAddr = StoodAt(scanCounter)
    BY <1>2, <2>1 DEF QuestionOnWay
  <2>3. pipe' = priceCmd /\ ~priceCmd'.valid /\ bramDo' = bram[StoodAt(scanCounter)]
    BY <1>1, <1>3, <1>6, <2>1, <2>2
  <2>4. scanCounter' # 0 /\ scanCounter' - 1 = scanCounter
    BY <1>5, <2>1
  <2> QED BY <1>1, <2>1, <2>2, <2>3, <2>4 DEF QuestionOnWay, AskedAt, StoodAt
<1>11. CASE ComputeSpread \/ ScanDone
  BY <1>11 DEF ComputeSpread, ScanDone, QuestionOnWay
<1> QED
  BY <1>1, <1>7, <1>8, <1>9, <1>10, <1>11 DEF TrackerClock, TrackerIdle

(* What a look at the k-th answer can change: the look of question 0 sees  *)
(* nothing, and on the sell side the answers after that of level 0 come    *)
(* from the half that is empty.                                            *)
LEMMA LooksAt ==
    ASSUME TypeOK, QuietScan, quiet, TakeLevel(rdStage2)
    PROVE  /\ scanCounter \in 0..(Levels - 1) /\ scanCounter' = scanCounter + 1
           /\ trState' = "SCAN" /\ scanSide' = scanSide /\ scanSide \in Side
           /\ scanCounter = 0 => found' = found /\ bbo' = bbo
           /\ scanCounter # 0 => rdStage2 = bram[StoodAt(scanCounter - 1)]
<1>1. /\ trState = "WAIT2" /\ trState' = "SCAN" /\ scanSide' = scanSide
      /\ scanCounter' = scanCounter + 1
      /\ found' = (found \/ Improves(rdStage2))
      /\ bbo' = IF Improves(rdStage2) THEN WithBest(rdStage2) ELSE bbo
  BY DEF TakeLevel
<1>2. Levels \in Nat /\ Levels > 0 /\ ScanDepth = Levels
  BY ScanParameters
<1>3. scanCounter \in 0..(Levels - 1) /\ scanSide \in Side /\ found \in BOOLEAN
  BY <1>1, <1>2 DEF TypeOK, TrackerTypeOK
<1>4. rdStage2 = AnswerSeen(scanCounter)
  BY <1>1 DEF QuietScan, QuestionOnWay
<1>5. ASSUME scanCounter = 0 PROVE found' = found /\ bbo' = bbo
  <2>1. ~rdStage2.valid
    BY <1>4, <1>5 DEF AnswerSeen, NoLevel
  <2>2. ~Improves(rdStage2)
    BY <2>1 DEF Improves
  <2> QED BY <1>1, <1>3, <2>2
<1>6. scanCounter # 0 => rdStage2 = bram[StoodAt(scanCounter - 1)]
  BY <1>4 DEF AnswerSeen
<1> QED BY <1>1, <1>3, <1>5, <1>6

LEMMA AddressesAsked ==
    ASSUME TypeOK, QuietScan, quiet, trState # "IDLE",
           NEW k \in 0..(Levels - 1)
    PROVE  StoodAt(k) \in LevelAddr /\ bram[StoodAt(k)] \in Level
<1>1. Levels \in Nat /\ Levels > 0 /\ \A a \in Nat : a <= 2 * Levels - 1 => a \in LevelAddr
  BY ScanParameters
<1>2. scanFrom \in LevelAddr
  BY DEF QuietScan
<1>3. StoodAt(k) \in LevelAddr
  <2>1. CASE k = 0
    BY <1>1, <1>2, <2>1 DEF StoodAt
  <2>2. CASE k # 0
    <3>1. AskedAt(k - 1) \in Nat /\ AskedAt(k - 1) <= 2 * Levels - 1
      BY <1>1, <2>2 DEF AskedAt
    <3> QED BY <1>1, <2>2, <3>1 DEF StoodAt
  <2> QED BY <2>1, <2>2
<1> QED BY <1>3 DEF TypeOK, TableTypeOK

(* The bids: the best so far is the best of the levels answered so far.    *)
LEMMA BidsStep ==
    ASSUME TypeOK, ScanTiming, QuietScan, Next, quiet', trState # "IDLE"
    PROVE  BidsSoFar'
<1>1. /\ quiet /\ scanFrom' = scanFrom /\ bram' = bram
      /\ TrackerClock(rdStage2, bboTrigger)
  BY UndisturbedClock
<1>2. BidsSoFar
  BY <1>1 DEF QuietScan
<1>3. CASE RequestLevel \/ WaitForLevel
  <2>1. /\ UNCHANGED <<scanSide, scanCounter, found, bbo>>
        /\ trState' \in {"WAIT1", "WAIT2"}
    BY <1>3 DEF RequestLevel, WaitForLevel
  <2> QED BY <1>1, <1>2, <2>1 DEF BidsSoFar, IsBuy, StoodAt, AskedAt
<1>4. CASE SideDone \/ ComputeSpread \/ ScanDone
  <2>1. trState' # "IDLE" => scanSide' # "buy"
    BY <1>2, <1>4 DEF SideDone, ComputeSpread, ScanDone, BidsSoFar
  <2> QED BY <2>1 DEF BidsSoFar
<1>5. CASE TakeLevel(rdStage2)
  <2> SUFFICES ASSUME scanSide = "buy" PROVE BidsSoFar'
    BY <1>1, <1>5, LooksAt DEF BidsSoFar
  <2>1. /\ scanCounter \in 0..(Levels - 1) /\ scanCounter' = scanCounter + 1
        /\ trState' = "SCAN" /\ scanSide' = scanSide
        /\ scanCounter = 0 => found' = found /\ bbo' = bbo
        /\ scanCounter # 0 => rdStage2 = bram[StoodAt(scanCounter - 1)]
    BY <1>1, <1>5, LooksAt
  <2>2. Levels \in Nat
    BY ScanParameters
  <2>3. /\ found => \E i \in 0..(scanCounter - 2) :
                       IsBuy(StoodAt(i)) /\ bbo.bid = bram[StoodAt(i)].price
        /\ \A i \in 0..(scanCounter - 2) :
              IsBuy(StoodAt(i)) => found /\ bram[StoodAt(i)].price <= bbo.bid
    BY <1>2 DEF BidsSoFar
  <2>4. \A i : IsBuy(StoodAt(i))' = IsBuy(StoodAt(i)) /\ StoodAt(i)' = StoodAt(i)
    BY <1>1, <2>1 DEF IsBuy, StoodAt, AskedAt
  <2>5. CASE scanCounter = 0
    <3>1. ~found
      BY <2>3, <2>5
    <3>2. 0..(scanCounter' - 2) = {}
      BY <2>1, <2>5
    <3> QED BY <2>1, <2>5, <3>1, <3>2 DEF BidsSoFar
  <2>6. CASE scanCounter # 0
    <3> DEFINE last == scanCounter - 1
    <3>1. /\ last \in 0..(Levels - 1) /\ scanCounter' - 2 = last
          /\ \A i \in 0..last : i = last \/ i \in 0..(scanCounter - 2)
          /\ 0..(scanCounter - 2) \subseteq 0..last /\ 0..last \subseteq 0..(Levels - 1)
      BY <2>1, <2>2, <2>6
    <3>2. rdStage2 = bram[StoodAt(last)]
      BY <2>1, <2>6
    <3> HIDE DEF last
    <3>3. \A i \in 0..last : bram[StoodAt(i)].price \in Int
      <4>1. \A i \in 0..last : bram[StoodAt(i)] \in Level
        BY <1>1, <1>5, <3>1, AddressesAsked DEF TakeLevel
      <4> QED BY <4>1 DEF Level, Price
    <3>4. bbo.bid \in Int /\ last \in 0..last
      BY <3>1 DEF TypeOK, TrackerTypeOK, Price
    <3>5. Improves(rdStage2) <=> IsBuy(StoodAt(last)) /\ (~found \/ bram[StoodAt(last)].price > bbo.bid)
      BY <3>2 DEF Improves, IsBuy
    <3>6. CASE Improves(rdStage2)
      <4>1. found' /\ bbo'.bid = bram[StoodAt(last)].price
        BY <1>5, <3>2, <3>6 DEF TakeLevel, WithBest, TypeOK, TrackerTypeOK
      <4>2. \A i \in 0..last : IsBuy(StoodAt(i)) => bram[StoodAt(i)].price <= bbo'.bid
        BY <2>3, <3>1, <3>3, <3>4, <3>5, <3>6, <4>1
      <4> QED BY <1>1, <2>1, <2>4, <3>1, <3>4, <3>5, <3>6, <4>1, <4>2 DEF BidsSoFar
    <3>7. CASE ~Improves(rdStage2)
      <4>1. found' = found /\ bbo' = bbo
        BY <1>5, <3>7 DEF TakeLevel, TypeOK, TrackerTypeOK
      <4>2. \A i \in 0..last : IsBuy(StoodAt(i)) => found /\ bram[StoodAt(i)].price <= bbo.bid
        BY <2>3, <3>1, <3>3, <3>4, <3>5, <3>7
      <4> QED BY <1>1, <2>1, <2>3, <2>4, <3>1, <4>1, <4>2 DEF BidsSoFar
    <3> QED BY <3>6, <3>7
  <2> QED BY <2>5, <2>6
<1> QED BY <1>1, <1>3, <1>4, <1>5 DEF TrackerClock, TrackerIdle

(* When the bids are done all of BidsSeen has been answered.               *)
LEMMA BestStep ==
    ASSUME Levels >= 2,
           TypeOK, ScanTiming, QuietScan, Next, quiet', trState # "IDLE"
    PROVE  BidIsBest'
<1>1. /\ quiet /\ scanFrom' = scanFrom /\ bram' = bram
      /\ TrackerClock(rdStage2, bboTrigger)
  BY UndisturbedClock
<1>2. BidsSoFar /\ BidIsBest /\ scanFrom \in LevelAddr
  BY <1>1 DEF QuietScan
<1>3. BidsSeen' = BidsSeen
  BY <1>1 DEF BidsSeen
<1>4. CASE scanSide = "sell"
  <2>1. bbo'.bid = bbo.bid
    BY <1>1, <1>4
       DEF TrackerClock, TrackerIdle, RequestLevel, SideDone, WaitForLevel, TakeLevel,
           ComputeSpread, ScanDone, WithBest, TypeOK, TrackerTypeOK
  <2> QED BY <1>2, <1>3, <1>4, <2>1 DEF BidIsBest
<1>5. CASE scanSide = "buy" /\ ~SideDone
  <2>1. scanSide' = "buy"
    BY <1>1, <1>5
       DEF TrackerClock, TrackerIdle, RequestLevel, WaitForLevel, TakeLevel, ComputeSpread,
           ScanDone
  <2> QED BY <2>1 DEF BidIsBest
<1>6. CASE scanSide = "buy" /\ SideDone
  <2>1. scanCounter = Levels /\ bbo' = bbo
    BY <1>6, ScanParameters DEF SideDone
  <2>2. Levels \in Nat
    BY ScanParameters
  <2> DEFINE Seen == {b \in {scanFrom} \cup (2..(Levels - 1)) : IsBuy(b)}
  <2>3. BidsSeen = {bram[a].price : a \in Seen}
    BY DEF BidsSeen, IsBuy
  <2>4. \A i \in 0..(Levels - 2) : StoodAt(i) \in {scanFrom} \cup (2..(Levels - 1))
    <3>1. ASSUME NEW i \in 0..(Levels - 2), i # 0 PROVE StoodAt(i) = Levels - i
      BY <1>6, <2>2, <3>1 DEF StoodAt, AskedAt
    <3>2. StoodAt(0) = scanFrom
      BY <1>6 DEF StoodAt
    <3> QED BY <2>2, <3>1, <3>2
  <2>5. \A a \in {scanFrom} \cup (2..(Levels - 1)) : \E i \in 0..(Levels - 2) : StoodAt(i) = a
    <3>1. StoodAt(0) = scanFrom /\ 0 \in 0..(Levels - 2)
      BY <1>6, <2>2 DEF StoodAt
    <3>2. ASSUME NEW a \in 2..(Levels - 1) PROVE \E i \in 0..(Levels - 2) : StoodAt(i) = a
      <4>1. Levels - a \in 0..(Levels - 2) /\ Levels - a # 0
        BY <2>2
      <4>2. StoodAt(Levels - a) = a
        BY <1>6, <2>2, <4>1 DEF StoodAt, AskedAt
      <4> QED BY <4>1, <4>2
    <3> QED BY <3>1, <3>2
  <2>6. /\ found => \E i \in 0..(Levels - 2) :
                       IsBuy(StoodAt(i)) /\ bbo.bid = bram[StoodAt(i)].price
        /\ \A i \in 0..(Levels - 2) :
              IsBuy(StoodAt(i)) => found /\ bram[StoodAt(i)].price <= bbo.bid
    BY <1>2, <1>6, <2>1 DEF BidsSoFar, SideDone
  <2>7. \A a \in Seen : found /\ bram[a].price <= bbo.bid
    BY <2>5, <2>6
  <2>8. Seen # {} => \E a \in Seen : bbo.bid = bram[a].price
    BY <2>4, <2>6, <2>7
  <2>9. /\ BidsSeen # {} => bbo.bid \in BidsSeen
        /\ \A p \in BidsSeen : p <= bbo.bid
    BY <2>3, <2>7, <2>8
  <2> QED BY <1>3, <2>1, <2>9 DEF BidIsBest
<1> QED BY <1>4, <1>5, <1>6 DEF TypeOK, TrackerTypeOK

(* The asks: the answer of level 0 is taken if it is a sell, and nothing   *)
(* valid comes after it.                                                   *)
LEMMA AsksStep ==
    ASSUME Levels >= 2,
           TypeOK, ScanTiming, SellHalfEmpty, QuietScan, Next, quiet', trState # "IDLE"
    PROVE  AskIsLevel0'
<1>1. /\ quiet /\ scanFrom' = scanFrom /\ bram' = bram
      /\ TrackerClock(rdStage2, bboTrigger)
  BY UndisturbedClock
<1>2. AskIsLevel0 /\ BidsSoFar
  BY <1>1 DEF QuietScan
<1>3. Levels \in Nat /\ ScanDepth = Levels /\ \A a \in Nat : a <= 2 * Levels - 1 => a \in LevelAddr
  BY ScanParameters
<1>4. CASE RequestLevel \/ WaitForLevel
  <2>1. /\ UNCHANGED <<scanSide, scanCounter, found, bbo>>
        /\ trState' \in {"WAIT1", "WAIT2"}
    BY <1>4 DEF RequestLevel, WaitForLevel
  <2> QED BY <1>1, <1>2, <2>1 DEF AskIsLevel0
<1>5. CASE SideDone
  <2>1. CASE scanSide = "buy"
    <3>1. scanCounter' = 0 /\ found' = FALSE /\ trState' = "SCAN"
      BY <1>5, <2>1 DEF SideDone
    <3> QED BY <3>1 DEF AskIsLevel0
  <2>2. CASE scanSide # "buy"
    <3>1. UNCHANGED <<scanSide, scanCounter, found, bbo>> /\ ~(scanCounter < 2)
      BY <1>3, <1>5, <2>2 DEF SideDone
    <3> QED BY <1>1, <1>2, <3>1 DEF AskIsLevel0
  <2> QED BY <2>1, <2>2
<1>6. CASE ComputeSpread \/ ScanDone
  <2>1. /\ UNCHANGED <<scanSide, scanCounter, found>> /\ bbo'.ask = bbo.ask
        /\ trState \notin {"SCAN", "WAIT1", "WAIT2"}
    BY <1>6 DEF ComputeSpread, ScanDone, TypeOK, TrackerTypeOK
  <2> QED BY <1>1, <1>2, <2>1 DEF AskIsLevel0
<1>7. CASE TakeLevel(rdStage2)
  <2> SUFFICES ASSUME scanSide = "sell" PROVE AskIsLevel0'
    BY <1>1, <1>7, LooksAt DEF AskIsLevel0
  <2>1. /\ scanCounter \in 0..(Levels - 1) /\ scanCounter' = scanCounter + 1
        /\ trState' = "SCAN" /\ scanSide' = scanSide
        /\ scanCounter = 0 => found' = found /\ bbo' = bbo
        /\ scanCounter # 0 => rdStage2 = bram[StoodAt(scanCounter - 1)]
    BY <1>1, <1>7, LooksAt
  <2>2. CASE scanCounter = 0
    BY <1>1, <1>2, <2>1, <2>2 DEF AskIsLevel0
  <2>3. CASE scanCounter = 1
    <3>1. rdStage2 = bram[0] /\ ~found /\ scanCounter' = 2
      BY <1>2, <2>1, <2>3 DEF AskIsLevel0, StoodAt
    <3>2. bram[0].valid /\ bram[0].side = "sell" => bbo'.ask = bram[0].price
      BY <1>7, <3>1 DEF TakeLevel, Improves, WithBest, TypeOK, TrackerTypeOK
    <3> QED BY <1>1, <3>1, <3>2 DEF AskIsLevel0
  <2>4. CASE scanCounter >= 2
    <3>1. StoodAt(scanCounter - 1) = Levels + (scanCounter - 2)
      BY <1>3, <2>1, <2>4 DEF StoodAt, AskedAt
    <3>2. /\ Levels + (scanCounter - 2) \in LevelAddr
          /\ Levels + (scanCounter - 2) >= Levels
      BY <1>3, <2>1, <2>4
    <3>3. ~rdStage2.valid
      BY <2>1, <2>4, <3>1, <3>2 DEF SellHalfEmpty
    <3>4. bbo' = bbo
      BY <1>7, <3>3 DEF TakeLevel, Improves
    <3>5. ~(scanCounter' < 2)
      BY <2>1, <2>4
    <3> QED BY <1>1, <1>2, <2>4, <3>4, <3>5 DEF AskIsLevel0
  <2> QED BY <2>1, <2>2, <2>3, <2>4
<1> QED BY <1>1, <1>4, <1>5, <1>6, <1>7 DEF TrackerClock, TrackerIdle

(* What a scan that no message interrupts leaves in the BBO, for a table   *)
(* of any depth: the bid is the best of the level the address register     *)
(* stood at and the levels above the two lowest, the ask is that of level  *)
(* 0 (price_level_table.vhd:358, bbo_tracker.vhd:153).  With one level     *)
(* (the code has 128) the scan would see none.                             *)
THEOREM QuietScanResultHolds ==
    ASSUME Levels >= 2 PROVE Spec => []QuietScanResult
<1>1. Init => QuietScan
  BY DEF Init, QuietScan
<1>2. TypeOK /\ ScanTiming /\ SellHalfEmpty /\ QuietScan /\ [Next]_vars => QuietScan'
  <2> SUFFICES ASSUME TypeOK, ScanTiming, SellHalfEmpty, QuietScan, [Next]_vars
               PROVE  QuietScan'
    OBVIOUS
  <2>1. CASE Next
    <3> SUFFICES ASSUME quiet', trState' # "IDLE" PROVE QuietScan'
      BY DEF QuietScan
    <3>1. CASE trState = "IDLE"
      BY <2>1, <3>1, ScanBeginning
    <3>2. CASE trState # "IDLE"
      <4>1. NothingWritten' /\ scanFrom' \in LevelAddr
        BY <2>1, <3>2, UndisturbedClock DEF QuietScan
      <4>2. QuestionOnWay' /\ BidsSoFar' /\ BidIsBest' /\ AskIsLevel0'
        BY <2>1, <3>2, QuestionStep, BidsStep, BestStep, AsksStep
      <4> QED BY <4>1, <4>2 DEF QuietScan
    <3> QED BY <3>1, <3>2
  <2>2. CASE UNCHANGED vars
    BY <2>2 DEF vars, tableVars, trackerVars, managerVars, history, QuietScan,
                NothingWritten, QuestionOnWay, BidsSoFar, BidIsBest, AskIsLevel0,
                IsBuy, StoodAt, AskedAt, AnswerSeen, BidsSeen
  <2> QED BY <2>1, <2>2
<1>3. TypeOK /\ QuietScan => QuietScanResult
  <2> SUFFICES ASSUME TypeOK, QuietScan, trState = "DONE", quiet
               PROVE  /\ BidsSeen # {} => bbo.bid = Max(BidsSeen)
                      /\ bram[0].valid /\ bram[0].side = "sell" => bbo.ask = bram[0].price
    BY DEF QuietScanResult
  <2>1. scanSide = "sell"
    BY DEF QuietScan, BidsSoFar, TypeOK, TrackerTypeOK
  <2>2. scanCounter >= 2
    <3>1. scanCounter \in Nat
      BY ScanParameters DEF TypeOK, TrackerTypeOK
    <3> QED BY <2>1, <3>1 DEF QuietScan, AskIsLevel0
  <2>3. BidsSeen # {} => bbo.bid = Max(BidsSeen)
    <3>1. BidsSeen \subseteq Int
      <4>1. \A a \in {scanFrom} \cup (2..(Levels - 1)) : bram[a].price \in Int
        <5>1. {scanFrom} \cup (2..(Levels - 1)) \subseteq LevelAddr
          BY ScanParameters DEF QuietScan
        <5> QED BY <5>1 DEF TypeOK, TableTypeOK, Level, Price
      <4> QED BY <4>1 DEF BidsSeen
    <3>2. /\ BidsSeen # {} => bbo.bid \in BidsSeen
          /\ \A p \in BidsSeen : bbo.bid >= p
      <4>1. bbo.bid \in Int
        BY DEF TypeOK, TrackerTypeOK, Price
      <4> QED BY <2>1, <3>1, <4>1 DEF QuietScan, BidIsBest
    <3> DEFINE S == BidsSeen
    <3> HIDE DEF S
    <3>3. ASSUME S # {}, S \subseteq Int, bbo.bid \in S, \A p \in S : bbo.bid >= p
          PROVE  bbo.bid = Max(S)
      <4>1. \E x \in S : \A p \in S : x >= p
        BY <3>3
      <4>2. Max(S) \in S /\ \A p \in S : Max(S) >= p
        BY <4>1, Zenon DEF Max
      <4>3. bbo.bid >= Max(S) /\ Max(S) >= bbo.bid /\ Max(S) \in Int /\ bbo.bid \in Int
        BY <3>3, <4>2
      <4> QED BY <4>3
    <3> QED BY <3>1, <3>2, <3>3 DEF S
  <2> QED BY <2>1, <2>2, <2>3 DEF QuietScan, AskIsLevel0
<1> QED BY <1>1, <1>2, <1>3, BookTypes, TimingHolds, SellHalfStaysEmpty, PTL DEF Spec
============================================================================
