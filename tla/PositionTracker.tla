-------------------------- MODULE PositionTracker --------------------------
(***************************************************************************)
(* The market maker's books (src/15-market-maker/src/position_tracker.cpp):*)
(* per symbol the signed position, its average entry price and the profit  *)
(* and loss.  Every fill the execution engine reports goes through addFill.*)
(*                                                                         *)
(* Prices are integers (ticks) where the code has doubles.  It keeps       *)
(* avg_entry_price; the model keeps basis = avg_entry_price * |shares|,    *)
(* which every branch of addFill makes an integer, and realized PnL in     *)
(* units of 1/Scale of a tick, Scale a multiple of every position size, so *)
(* that all arithmetic is exact.                                           *)
(***************************************************************************)
EXTENDS Integers

CONSTANTS
    Stock,
    Price,       \* prices at which fills and market prices occur
    Quantity,    \* sizes of a fill
    MaxShares,   \* bound: positions beyond it are not explored
    MaxFills,    \* bound: fills per symbol
    Scale        \* unit of realized PnL

ASSUME PriceAssumption == Price \subseteq Nat \ {0}
ASSUME QuantityAssumption == Quantity \subseteq Nat \ {0}
ASSUME BoundsAssumption == MaxShares \in Nat \ {0} /\ MaxFills \in Nat
ASSUME ScaleAssumption ==
    Scale \in Nat \ {0} /\ \A n \in 1..MaxShares : Scale % n = 0

VARIABLES
    positions,   \* PositionTracker::positions_
    net,         \* history: sum of the signed sizes of all fills
    cash,        \* history: money received minus money paid, in ticks
    fills,       \* history: number of fills
    partial      \* history: some fill reduced a position without closing it

bookVars == <<positions, net, cash, fills, partial>>

Abs(n) == IF n < 0 THEN -n ELSE n
Least(m, n) == IF m < n THEN m ELSE n

EmptyPosition == [shares |-> 0, basis |-> 0, realized |-> 0, unrealized |-> 0]

BooksInit ==
    /\ positions = [s \in Stock |-> EmptyPosition]
    /\ net = [s \in Stock |-> 0]
    /\ cash = [s \in Stock |-> 0]
    /\ fills = [s \in Stock |-> 0]
    /\ partial = [s \in Stock |-> FALSE]

Opposite(p, n) == (p > 0 /\ n < 0) \/ (p < 0 /\ n > 0)

(* addFill's first branch: profit of closing part or all of a position;    *)
(* the mutant closes more than the position holds.                         *)
RealizedUncapped(pos, n, price) ==
    IF ~Opposite(pos.shares, n) THEN pos.realized
    ELSE LET perShare == price * Scale - pos.basis * (Scale \div Abs(pos.shares))
         IN  pos.realized
               + (IF pos.shares > 0 THEN perShare ELSE -perShare) * Abs(n)
Realized(pos, n, price) ==
    IF ~Opposite(pos.shares, n) THEN pos.realized
    ELSE LET perShare == price * Scale - pos.basis * (Scale \div Abs(pos.shares))
         IN  pos.realized
               + (IF pos.shares > 0 THEN perShare ELSE -perShare)
                 * Least(Abs(n), Abs(pos.shares))

(* A closed position keeps its realized profit only; the mutant forgets    *)
(* the market value.                                                       *)
ClosedStale(pos) == [pos EXCEPT !.shares = 0, !.basis = 0]
Closed(pos) == [pos EXCEPT !.shares = 0, !.basis = 0, !.unrealized = 0]

(* What the new side of a flipped position cost: `left` shares of a fill   *)
(* of n.                                                                   *)
FlipBasis(n, left, price) == price * Abs(left)

(* addFill's second part: close, stay on the same side, or flip.  Staying  *)
(* on the same side averages the price in, for a reduction as well as for  *)
(* an increase.                                                            *)
AfterFill(pos, n, price) ==
    LET new == pos.shares + n
        booked == [pos EXCEPT !.shares = new,
                              !.realized = Realized(pos, n, price)]
    IN  IF new = 0 THEN Closed(booked)
        ELSE IF ~Opposite(pos.shares, new)
        THEN [booked EXCEPT !.basis = @ + price * Abs(n)]
        ELSE [booked EXCEPT !.basis = FlipBasis(n, new, price),
                            !.unrealized = 0]

(* The sign processFills gives a fill; the mutant takes every fill for a   *)
(* buy.                                                                    *)
SharesUnsigned(side, q) == q
SharesOf(side, q) == IF side = "B" THEN q ELSE -q

AddFill(s, side, q, price) ==
    LET old == positions[s].shares
        n == SharesOf(side, q)
        traded == IF side = "B" THEN q ELSE -q
    IN
    /\ fills[s] < MaxFills
    /\ Abs(old + n) <= MaxShares
    /\ positions' = [positions EXCEPT ![s] = AfterFill(@, n, price)]
    /\ net' = [net EXCEPT ![s] = @ + traded]
    /\ cash' = [cash EXCEPT ![s] = @ - traded * price]
    /\ fills' = [fills EXCEPT ![s] = @ + 1]
    /\ partial' = [partial EXCEPT
                     ![s] = @ \/ (Opposite(old, n) /\ Abs(n) < Abs(old))]

(* updateMarketPrice: mark an open position to the market; a flat one is   *)
(* left alone.                                                             *)
MarketValue(pos, price) ==
    IF pos.shares > 0 THEN price * pos.shares - pos.basis
                      ELSE pos.basis - price * Abs(pos.shares)

UpdateMarketPrice(s, price) ==
    /\ positions' = IF positions[s].shares = 0 THEN positions
                    ELSE [positions EXCEPT ![s].unrealized =
                            MarketValue(positions[s], price)]
    /\ UNCHANGED <<net, cash, fills, partial>>

BooksNext ==
    \E s \in Stock, price \in Price :
      \/ \E side \in {"B", "S"}, q \in Quantity : AddFill(s, side, q, price)
      \/ UpdateMarketPrice(s, price)

BooksSpec == BooksInit /\ [][BooksNext]_bookVars

---------------------------------------------------------------------------
(* Types of the books and of the histories.                                *)
BooksTypeOK ==
    /\ positions \in [Stock -> [shares : Int, basis : Nat, realized : Int,
                                 unrealized : Int]]
    /\ net \in [Stock -> Int]
    /\ cash \in [Stock -> Int]
    /\ fills \in [Stock -> Nat]
    /\ partial \in [Stock -> BOOLEAN]

(* Every position is the sum of its own symbol's fills, whatever mix of    *)
(* increases, reductions, closes and flips produced it.                    *)
PositionIsNetOfFills == \A s \in Stock : positions[s].shares = net[s]

(* A flat position carries neither an entry price nor a market value; an   *)
(* open one has an entry price.                                            *)
FlatIsClean ==
    \A s \in Stock : LET pos == positions[s] IN
      /\ pos.shares = 0 => pos.basis = 0 /\ pos.unrealized = 0
      /\ pos.shares # 0 => pos.basis > 0

(* The accounting identity: realized profit is the cash flow plus the cost *)
(* of what is still held.  It survives increases, closes and flips; it     *)
(* holds for a symbol until the first partial reduction.                   *)
Cost(pos) == IF pos.shares > 0 THEN pos.basis ELSE -pos.basis
ProfitMatchesCash ==
    \A s \in Stock : ~partial[s] =>
      positions[s].realized = Scale * (cash[s] + Cost(positions[s]))
===========================================================================
