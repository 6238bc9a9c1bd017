----------------------------- MODULE BboTracker -----------------------------
(***************************************************************************)
(* bbo_tracker.vhd: finds the best bid and the best ask by asking for      *)
(* every level in turn, bids from the highest address down, then asks from *)
(* the lowest up, three clocks for each.  It does not wait for an answer:  *)
(* it looks once, two clocks after it asked, at whatever the table returns *)
(* at that moment.                                                         *)
(*                                                                         *)
(* bbo_update is left out with the registers it compares: no module reads  *)
(* it.  bbo_ready is up exactly when the tracker is IDLE.                  *)
(***************************************************************************)
EXTENDS Integers

CONSTANTS
    ScanDepth,   \* BBO_SCAN_DEPTH, the number of levels of one side (128)
    NoAsk        \* x"FFFFFFFF", above every price

ASSUME TrackerAssumption == ScanDepth \in Nat \ {0} /\ NoAsk \in Nat \ {0}

VARIABLES
    trState,     \* IDLE, SCAN, WAIT1, WAIT2, COMPUTE_SPREAD or DONE
    scanSide,    \* the side that SCAN, WAIT1 and WAIT2 scan
    scanCounter,
    found,       \* best_bid_found or best_ask_found, of scanSide
    levelReq,    \* level_req and level_addr
    bbo          \* the registers behind the bbo output

trackerVars == <<trState, scanSide, scanCounter, found, levelReq, bbo>>

NoBid == 0
NoReq == [valid |-> FALSE, addr |-> 0]
BboReady == trState = "IDLE"

TrackerInit ==
    /\ trState = "IDLE" /\ scanSide = "buy" /\ scanCounter = 0 /\ found = FALSE
    /\ levelReq = NoReq
    /\ bbo = [bid |-> NoBid, bidShares |-> 0, ask |-> NoAsk, askShares |-> 0,
              spread |-> 0, valid |-> FALSE]

TrackerIdle(trigger) ==
    /\ trState = "IDLE"
    /\ levelReq' = NoReq
    /\ IF trigger
         THEN trState' = "SCAN" /\ scanSide' = "buy" /\ scanCounter' = 0 /\ found' = FALSE
         ELSE UNCHANGED <<trState, scanSide, scanCounter, found>>
    /\ UNCHANGED bbo

(* The mutant begins the bids one address too high.                        *)
ScanAddrOneUp == IF scanSide = "buy" THEN ScanDepth - scanCounter
                 ELSE ScanDepth + scanCounter
ScanAddr == IF scanSide = "buy" THEN ScanDepth - 1 - scanCounter
            ELSE ScanDepth + scanCounter

RequestLevel ==
    /\ trState = "SCAN" /\ scanCounter < ScanDepth
    /\ levelReq' = [valid |-> TRUE, addr |-> ScanAddr]
    /\ trState' = "WAIT1"
    /\ UNCHANGED <<scanSide, scanCounter, found, bbo>>

(* All levels of a side were asked for: registers keep what they hold.     *)
SideDone ==
    /\ trState = "SCAN" /\ scanCounter = ScanDepth
    /\ levelReq' = NoReq
    /\ IF scanSide = "buy"
         THEN scanSide' = "sell" /\ scanCounter' = 0 /\ found' = FALSE /\ UNCHANGED trState
         ELSE trState' = "COMPUTE_SPREAD" /\ UNCHANGED <<scanSide, scanCounter, found>>
    /\ UNCHANGED bbo

WaitForLevel ==
    /\ trState = "WAIT1"
    /\ levelReq' = NoReq
    /\ trState' = "WAIT2"
    /\ UNCHANGED <<scanSide, scanCounter, found, bbo>>

(* A level improves on the best so far of the side being scanned.  The     *)
(* mutant does not look at the side of the level.                          *)
ImprovesAnySide(level) ==
    level.valid /\ (~found \/ IF scanSide = "buy" THEN level.price > bbo.bid
                              ELSE level.price < bbo.ask)
Improves(level) ==
    /\ level.valid /\ level.side = scanSide
    /\ ~found \/ IF scanSide = "buy" THEN level.price > bbo.bid ELSE level.price < bbo.ask

WithBest(level) ==
    IF scanSide = "buy" THEN [bbo EXCEPT !.bid = level.price, !.bidShares = level.shares]
    ELSE [bbo EXCEPT !.ask = level.price, !.askShares = level.shares]

TakeLevel(level) ==
    /\ trState = "WAIT2"
    /\ levelReq' = NoReq
    /\ found' = (found \/ Improves(level))
    /\ bbo' = IF Improves(level) THEN WithBest(level) ELSE bbo
    /\ scanCounter' = scanCounter + 1
    /\ trState' = "SCAN"
    /\ UNCHANGED scanSide

HasBid == bbo.bid # NoBid
HasAsk == bbo.ask # NoAsk
Spread == IF HasBid /\ HasAsk /\ bbo.ask > bbo.bid THEN bbo.ask - bbo.bid ELSE 0

ComputeSpread ==
    /\ trState = "COMPUTE_SPREAD"
    /\ levelReq' = NoReq
    /\ bbo' = IF HasBid \/ HasAsk THEN [bbo EXCEPT !.valid = TRUE, !.spread = Spread]
              ELSE [bbo EXCEPT !.valid = FALSE]
    /\ trState' = "DONE"
    /\ UNCHANGED <<scanSide, scanCounter, found>>

ScanDone ==
    /\ trState = "DONE"
    /\ levelReq' = NoReq
    /\ trState' = "IDLE"
    /\ UNCHANGED <<scanSide, scanCounter, found, bbo>>

(* One rising edge, with a level on the table's output and the trigger.    *)
TrackerClock(level, trigger) ==
    \/ TrackerIdle(trigger) \/ RequestLevel \/ SideDone \/ WaitForLevel
    \/ TakeLevel(level) \/ ComputeSpread \/ ScanDone
============================================================================
