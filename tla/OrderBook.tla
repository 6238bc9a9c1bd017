----------------------------- MODULE OrderBook -----------------------------
(***************************************************************************)
(* order_book_manager.vhd with the order storage, the price level table    *)
(* and the BBO tracker that it instantiates, as multi_symbol_order_book    *)
(* wires it: one order book of the FPGA.  A step is one clock of all four. *)
(*                                                                         *)
(* A message may come at any clock.  One that does not find the manager in *)
(* IDLE is lost (the wrapper leaves ready unconnected), which is the same  *)
(* as none.  The wrapper ties exec_shares and cancel_shares to zero, so    *)
(* "E" stands for Order Executed and for Order Cancel.  Statistics that    *)
(* nothing reads are left out.                                             *)
(***************************************************************************)
EXTENDS PriceLevelTable, OrderStorage, BboTracker

CONSTANTS
    Message,       \* the messages [type, ref, price, shares, side] to consider
    MaxMessages    \* bound: messages accepted

ASSUME BookAssumption ==
    /\ ScanDepth = Levels
    /\ Message \subseteq [type : {"A", "E", "D", "U", "P"}, ref : Nat,
                          price : 1..(Levels * PriceUnit - 1), shares : Nat \ {0},
                          side : Side]
    /\ \A m \in Message : m.price < NoAsk
    /\ MaxMessages \in Nat

VARIABLES
    state,         \* of the manager
    msg,           \* the message being processed: msg_order_ref, msg_price...
    waitCounter,
    tempOrder,
    storWr, storRd, \* the ports of the order storage
    priceCmd,      \* the command inputs of the price level table
    bboTrigger,
    accepted,      \* history: number of messages accepted
    offered,       \* history: <<side, price>> of the orders accepted
    quiet,         \* history: no message has come since the scan began
    scanFrom       \* history: where bram_addr stood when the scan began

managerVars == <<state, msg, waitCounter, tempOrder, storWr, storRd, priceCmd,
                 bboTrigger>>
history == <<accepted, offered, quiet, scanFrom>>
vars == <<tableVars, storageVars, trackerVars, managerVars, history>>

NoMsg == [type |-> "P", ref |-> 0, price |-> 0, shares |-> 0, side |-> "buy"]

Init ==
    /\ TableInit /\ StorageInit /\ TrackerInit
    /\ state = "IDLE" /\ msg = NoMsg /\ waitCounter = 0 /\ tempOrder = NoOrder
    /\ storWr = NoWrite /\ storRd = NoLookup /\ priceCmd = NoCmd /\ bboTrigger = FALSE
    /\ accepted = 0 /\ offered = {} /\ quiet = FALSE /\ scanFrom = 0

(* The three blocks on the same clock edge.                                *)
BlocksClock ==
    /\ TableClock(priceCmd)
    /\ StorageClock(storWr, storRd)
    /\ TrackerClock(rdStage2, bboTrigger)

ScanBegins == trState = "IDLE" /\ bboTrigger

HistoryClock(msgValid) ==
    /\ quiet' = (~msgValid /\ (ScanBegins \/ quiet))
    /\ scanFrom' = IF ScanBegins THEN bramAddr ELSE scanFrom

(* A clock without a message.                                              *)
QuietClock == BlocksClock /\ HistoryClock(FALSE) /\ UNCHANGED <<accepted, offered>>

(* The tracker's request becomes a LOOKUP.                                 *)
Forwarded ==
    IF levelReq.valid THEN [NoCmd EXCEPT !.valid = TRUE, !.type = "LOOKUP",
                                         !.addr = levelReq.addr]
    ELSE NoCmd

(* The control signals: a state that does not drive one leaves it down.    *)
Drive(wr, rd, cmd, trigger) ==
    storWr' = wr /\ storRd' = rd /\ priceCmd' = cmd /\ bboTrigger' = trigger
Release == Drive(NoWrite, NoLookup, NoCmd, FALSE)

PriceCmd(type, price, shares, side) ==
    [valid |-> TRUE, type |-> type, addr |-> PriceToAddr(price, side), price |-> price,
     shares |-> shares, side |-> side]

---------------------------------------------------------------------------
(* IDLE: a message has priority over the requests of the tracker, which is *)
(* then not served.                                                        *)

FirstState(type) ==
    CASE type = "A" -> "ADD_ORDER"
      [] type \in {"E", "D", "U"} -> "LOOKUP_ORDER"
      [] OTHER -> "IDLE"

Accept(m) ==
    /\ state = "IDLE" /\ accepted < MaxMessages
    /\ BlocksClock
    /\ msg' = IF m.type = "E" THEN [m EXCEPT !.shares = 0] ELSE m
    /\ state' = FirstState(m.type)
    /\ Release
    /\ accepted' = accepted + 1
    /\ offered' = IF m.type = "A" THEN offered \cup {<<m.side, m.price>>} ELSE offered
    /\ HistoryClock(TRUE)
    /\ UNCHANGED <<waitCounter, tempOrder>>

Idle ==
    /\ state = "IDLE"
    /\ QuietClock
    /\ Drive(NoWrite, NoLookup, Forwarded, FALSE)
    /\ UNCHANGED <<state, msg, waitCounter, tempOrder>>

Write(order) == [en |-> TRUE, addr |-> HashOrderRef(msg.ref), order |-> order]
NewOrder == [ref |-> msg.ref, price |-> msg.price, shares |-> msg.shares,
             side |-> msg.side, valid |-> TRUE]

AddOrder ==
    /\ state = "ADD_ORDER"
    /\ QuietClock
    /\ Drive(Write(NewOrder), NoLookup,
             PriceCmd("ADD", msg.price, msg.shares, msg.side), FALSE)
    /\ waitCounter' = 2
    /\ state' = "WAIT_PRICE_CMD"
    /\ UNCHANGED <<msg, tempOrder>>

LookupOrder ==
    /\ state = "LOOKUP_ORDER"
    /\ QuietClock
    /\ Drive(NoWrite, [en |-> TRUE, addr |-> HashOrderRef(msg.ref)], NoCmd, FALSE)
    /\ waitCounter' = 2
    /\ state' = "UPDATE_ORDER"
    /\ UNCHANGED <<msg, tempOrder>>

Wait ==
    /\ state \in {"WAIT_PRICE_CMD", "UPDATE_ORDER"} /\ waitCounter > 0
    /\ QuietClock
    /\ waitCounter' = waitCounter - 1
    /\ Release
    /\ UNCHANGED <<state, msg, tempOrder>>

PriceCmdDone ==
    /\ state = "WAIT_PRICE_CMD" /\ waitCounter = 0
    /\ QuietClock
    /\ state' = "UPDATE_BBO"
    /\ Release
    /\ UNCHANGED <<msg, waitCounter, tempOrder>>

(* UPDATE_ORDER, when the order is there.  What goes back to the storage   *)
(* is temp_order as it was before this clock.                              *)
Found == storRd2.valid /\ storRd2.order.valid
ReducedOrder ==
    LET left == SharesSubtract(storRd2.order.shares, msg.shares)
    IN  [storRd2.order EXCEPT !.shares = left, !.valid = left # 0]

UpdateOrder ==
    /\ state = "UPDATE_ORDER" /\ waitCounter = 0
    /\ Found /\ msg.type \in {"E", "D"}
    /\ QuietClock
    /\ tempOrder' = IF msg.type = "E" THEN ReducedOrder
                    ELSE [storRd2.order EXCEPT !.valid = FALSE]
    /\ Drive(Write(tempOrder), NoLookup,
             PriceCmd("REMOVE", storRd2.order.price,
                      IF msg.type = "E" THEN msg.shares ELSE storRd2.order.shares,
                      storRd2.order.side), FALSE)
    /\ waitCounter' = 2
    /\ state' = "WAIT_PRICE_CMD"
    /\ UNCHANGED msg

(* An unknown order, or a Replace, which changes nothing.                  *)
NothingToUpdate ==
    /\ state = "UPDATE_ORDER" /\ waitCounter = 0
    /\ ~Found \/ msg.type = "U"
    /\ QuietClock
    /\ tempOrder' = IF Found THEN storRd2.order ELSE tempOrder
    /\ state' = "DONE"
    /\ Release
    /\ UNCHANGED <<msg, waitCounter>>

(* UPDATE_BBO waits until the tracker is free, and serves no requests.     *)
(* The mutant gives up when the tracker is busy.                           *)
SkipWhenBusy ==
    /\ state = "UPDATE_BBO"
    /\ QuietClock
    /\ Drive(NoWrite, NoLookup, NoCmd, BboReady)
    /\ state' = IF BboReady THEN "WAIT_BBO" ELSE "DONE"
    /\ UNCHANGED <<msg, waitCounter, tempOrder>>
UpdateBbo ==
    /\ state = "UPDATE_BBO"
    /\ QuietClock
    /\ Drive(NoWrite, NoLookup, NoCmd, BboReady)
    /\ state' = IF BboReady THEN "WAIT_BBO" ELSE "UPDATE_BBO"
    /\ UNCHANGED <<msg, waitCounter, tempOrder>>

(* WAIT_BBO.  The tracker takes down bbo_ready one clock after this state  *)
(* is entered, which therefore ends at once.                               *)
WaitBbo ==
    /\ state = "WAIT_BBO"
    /\ QuietClock
    /\ Drive(NoWrite, NoLookup, Forwarded, ~BboReady)
    /\ state' = IF BboReady THEN "DONE" ELSE "WAIT_BBO"
    /\ UNCHANGED <<msg, waitCounter, tempOrder>>

Done ==
    /\ state = "DONE"
    /\ QuietClock
    /\ state' = "IDLE"
    /\ Release
    /\ UNCHANGED <<msg, waitCounter, tempOrder>>

Next ==
    \/ \E m \in Message : Accept(m)
    \/ Idle \/ AddOrder \/ LookupOrder \/ Wait \/ PriceCmdDone \/ UpdateOrder
    \/ NothingToUpdate \/ UpdateBbo \/ WaitBbo \/ Done

Spec == Init /\ [][Next]_vars

(* The clock never stops; messages need not come.                          *)
FairSpec == Spec /\ WF_vars(Next)

---------------------------------------------------------------------------
(* Properties.                                                             *)

Price == 0..(Levels * PriceUnit - 1)
Level == [price : Price, shares : Nat, count : Nat, side : Side, valid : BOOLEAN]
Order == [ref : Nat, price : Price, shares : Nat, side : Side, valid : BOOLEAN]
Cmd == [valid : BOOLEAN, type : {"ADD", "REMOVE", "LOOKUP"}, addr : LevelAddr,
        price : Price, shares : Nat, side : Side]
Read == [valid : BOOLEAN, order : Order]

TableTypeOK ==
    /\ bram \in [LevelAddr -> Level]
    /\ bramAddr \in LevelAddr /\ bramWe \in BOOLEAN
    /\ bramDo \in Level /\ bramDi \in Level /\ pipeOldLevel \in Level
    /\ rdStage1 \in Level /\ rdStage2 \in Level
    /\ pipe \in Cmd
    /\ levelCount \in [Side -> 0..(CounterRange - 1)]

StorageTypeOK ==
    /\ orders \in [OrderAddr -> Order]
    /\ storRd1 \in Read /\ storRd2 \in Read
    /\ validBits \subseteq OrderAddr /\ orderCount \in Nat

TrackerTypeOK ==
    /\ trState \in {"IDLE", "SCAN", "WAIT1", "WAIT2", "COMPUTE_SPREAD", "DONE"}
    /\ scanSide \in Side /\ scanCounter \in 0..ScanDepth /\ found \in BOOLEAN
    /\ trState \in {"WAIT1", "WAIT2"} => scanCounter < ScanDepth
    /\ levelReq \in [valid : BOOLEAN, addr : LevelAddr]
    /\ bbo \in [bid : Price, bidShares : Nat, ask : Price \cup {NoAsk}, askShares : Nat,
                spread : Nat, valid : BOOLEAN]

ManagerTypeOK ==
    /\ state \in {"IDLE", "ADD_ORDER", "LOOKUP_ORDER", "WAIT_PRICE_CMD", "UPDATE_ORDER",
                  "UPDATE_BBO", "WAIT_BBO", "DONE"}
    /\ msg \in [type : {"A", "E", "D", "U", "P"}, ref : Nat, price : Price, shares : Nat,
                side : Side]
    /\ waitCounter \in 0..2 /\ tempOrder \in Order
    /\ storWr \in [en : BOOLEAN, addr : OrderAddr, order : Order]
    /\ storRd \in [en : BOOLEAN, addr : OrderAddr]
    /\ priceCmd \in Cmd /\ bboTrigger \in BOOLEAN

(* Every register keeps to its range; a level is always asked for inside   *)
(* the table (order_book_manager.vhd, price_level_table.vhd).              *)
TypeOK == TableTypeOK /\ StorageTypeOK /\ TrackerTypeOK /\ ManagerTypeOK

(* order_count, the total_orders of the statistics, is the number of valid *)
(* orders in the RAM, although the counter never reads the RAM             *)
(* (order_storage.vhd:152).                                                *)
OrderCountAgrees ==
    /\ orderCount = Cardinality({a \in OrderAddr : orders[a].valid})
    /\ validBits = {a \in OrderAddr : orders[a].valid}

(* The book never shows a price that nobody offered on that side, whatever *)
(* levels were overwritten and whatever lookups were lost or came late     *)
(* (bbo_tracker.vhd:158 and :203).                                         *)
BboWasOffered ==
    /\ bbo.bid # NoBid => <<"buy", bbo.bid>> \in offered
    /\ bbo.ask # NoAsk => <<"sell", bbo.ask>> \in offered

(* No command is in the price level table when a scan begins: the two      *)
(* clocks of WAIT_PRICE_CMD are enough (order_book_manager.vhd:376).       *)
SettledBeforeScan == ScanBegins => ~priceCmd.valid /\ ~pipe.valid /\ ~bramWe

(* What a scan that no message interrupts finds.  The answers come two     *)
(* levels late, so it takes the level the address register stood at and    *)
(* not the two lowest for the bid, and level 0 for the ask                 *)
(* (price_level_table.vhd:358, bbo_tracker.vhd:153).                       *)
BidsSeen == {bram[a].price : a \in {b \in {scanFrom} \cup (2..(Levels - 1)) :
                                       bram[b].valid /\ bram[b].side = "buy"}}
QuietScanResult ==
    trState = "DONE" /\ quiet =>
        /\ BidsSeen # {} => bbo.bid = Max(BidsSeen)
        /\ bram[0].valid /\ bram[0].side = "sell" => bbo.ask = bram[0].price

(* A message that touched a level is followed by a scan that begins after  *)
(* it, even if the tracker was busy (order_book_manager.vhd:474).          *)
EveryUpdateScanned == state = "WAIT_PRICE_CMD" ~> ScanBegins

(* README.md:403 of the project: the BBO shows the highest bid and the     *)
(* lowest ask, even with several orders at different prices.  Asked for    *)
(* when the book is at rest after an undisturbed scan.                     *)
AtRest == state = "IDLE" /\ trState = "IDLE" /\ ~bboTrigger /\ quiet
Standing(side) == {orders[a].price : a \in {b \in OrderAddr :
                                               orders[b].valid /\ orders[b].side = side}}
BboShowsBest ==
    AtRest => /\ Standing("buy") # {} => bbo.bid = Max(Standing("buy"))
              /\ Standing("sell") # {} => bbo.ask = Min(Standing("sell"))
============================================================================
