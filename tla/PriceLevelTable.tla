-------------------------- MODULE PriceLevelTable --------------------------
(***************************************************************************)
(* price_level_table.vhd: a block RAM of price levels behind a pipeline.   *)
(* A step of TableClock is one rising edge of the clock: every register is *)
(* read before the edge and written at it.  A command takes the stages     *)
(*   cmd -> pipe -> write enable -> block RAM       (ADD and REMOVE)       *)
(*   cmd -> pipe -> rdStage1 -> rdStage2            (LOOKUP)               *)
(* and the output register of the RAM follows its address by one clock.    *)
(*                                                                         *)
(* The data of a register whose valid flag is down is not kept.  CLEAR is  *)
(* left out: no module sends it.  Shares are taken not to overflow.        *)
(***************************************************************************)
EXTENDS Integers, FiniteSetsExt

CONSTANTS
    Levels,        \* MAX_BID_LEVELS and MAX_ASK_LEVELS (128)
    PriceUnit,     \* prices of one level: its address is price(31 downto 25)
    CounterRange   \* range of the level counters, unsigned(7 downto 0): 256

ASSUME TableAssumption ==
    /\ Levels \in Nat \ {0} /\ PriceUnit \in Nat \ {0}
    /\ CounterRange \in Nat \ {0, 1}

VARIABLES
    bram,           \* the levels
    bramDo,         \* its output register
    bramAddr,       \* its address register, for reads and writes
    bramWe, bramDi, \* write enable and data
    pipe,           \* the command in stage 1
    pipeOldLevel,   \* the level that ADD and REMOVE start from
    rdStage1, rdStage2,
    levelCount      \* bid_count and ask_count

tableVars == <<bram, bramDo, bramAddr, bramWe, bramDi, pipe, pipeOldLevel,
               rdStage1, rdStage2, levelCount>>

Side == {"buy", "sell"}
LevelAddr == 0..(2 * Levels - 1)

NoLevel == [price |-> 0, shares |-> 0, count |-> 0, side |-> "buy", valid |-> FALSE]
NoCmd == [valid |-> FALSE, type |-> "ADD", addr |-> 0, price |-> 0, shares |-> 0,
          side |-> "buy"]

(* The address of a price.  price_bits has seven bits, and adding 128 to   *)
(* it leaves seven bits: the sell side gets the addresses of the buy side. *)
PriceToAddr(price, side) ==
    LET bits == price \div PriceUnit
    IN  IF side = "buy" THEN bits ELSE (bits + Levels) % Levels

TableInit ==
    /\ bram = [a \in LevelAddr |-> NoLevel]
    /\ bramDo = NoLevel /\ bramAddr = 0 /\ bramWe = FALSE /\ bramDi = NoLevel
    /\ pipe = NoCmd /\ pipeOldLevel = NoLevel
    /\ rdStage1 = NoLevel /\ rdStage2 = NoLevel
    /\ levelCount = [s \in Side |-> 0]

---------------------------------------------------------------------------
(* Stage 2: the level that the command in pipe writes.                     *)

Adding == pipe.valid /\ pipe.type = "ADD"
Removing == pipe.valid /\ pipe.type = "REMOVE"
Looking == pipe.valid /\ pipe.type = "LOOKUP"

(* A level that no counter accounts for, or of the other side, is stale    *)
(* and overwritten.                                                        *)
Uncounted == ~pipeOldLevel.valid \/ levelCount[pipe.side] = 0

Added ==
    IF Uncounted \/ pipeOldLevel.side # pipe.side
      THEN [price |-> pipe.price, shares |-> pipe.shares, count |-> 1,
            side |-> pipe.side, valid |-> TRUE]
      ELSE [pipeOldLevel EXCEPT !.shares = @ + pipe.shares, !.count = @ + 1]

SharesSubtract(current, amount) == IF current >= amount THEN current - amount ELSE 0

SharesLeft == SharesSubtract(pipeOldLevel.shares, pipe.shares)
OrdersLeft == SharesSubtract(pipeOldLevel.count, 1)
Emptied == SharesLeft = 0 \/ OrdersLeft = 0

Removed ==
    IF Emptied
      THEN [pipeOldLevel EXCEPT !.shares = 0, !.count = 0, !.valid = FALSE]
      ELSE [pipeOldLevel EXCEPT !.shares = SharesLeft, !.count = OrdersLeft]

Writes == Adding \/ (Removing /\ pipeOldLevel.valid)

NewLevelCount ==
    CASE Adding /\ Uncounted ->
           [levelCount EXCEPT ![pipe.side] = (@ + 1) % CounterRange]
      [] Removing /\ pipeOldLevel.valid /\ Emptied ->
           [levelCount EXCEPT ![pipe.side] = SharesSubtract(@, 1)]
      [] OTHER -> levelCount

(* One rising edge, with cmd on the command inputs.                        *)
TableClock(cmd) ==
    /\ bram' = IF bramWe THEN [bram EXCEPT ![bramAddr] = bramDi] ELSE bram
    /\ bramDo' = bram[bramAddr]
    /\ pipe' = IF cmd.valid THEN cmd ELSE NoCmd
    /\ pipeOldLevel' = IF Adding \/ Removing THEN bramDo ELSE pipeOldLevel
    /\ bramAddr' = IF Writes \/ (pipe.valid /\ ~cmd.valid) THEN pipe.addr
                   ELSE IF cmd.valid THEN cmd.addr ELSE bramAddr
    /\ bramWe' = Writes
    /\ bramDi' = IF Adding THEN Added ELSE IF Writes THEN Removed ELSE NoLevel
    /\ levelCount' = NewLevelCount
    /\ rdStage1' = IF Looking THEN bramDo ELSE NoLevel
    /\ rdStage2' = rdStage1
============================================================================
