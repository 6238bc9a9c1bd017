------------------------------ MODULE Quoting ------------------------------
(***************************************************************************)
(* The market maker's arithmetic (src/15-market-maker/src/                 *)
(* market_maker_fsm.cpp): the fair value of a BBO, the two-sided quote     *)
(* around it and the pre-trade risk check.  Prices are integers in a unit  *)
(* much smaller than a cent; where the code divides doubles the result is  *)
(* rounded towards zero to that unit.  1 bps is 1/10000.                   *)
(***************************************************************************)
EXTENDS Integers

CONSTANTS
    EdgeBps, MinSpreadBps, PositionSkewBps,
    QuoteSize, MaxPosition, MaxNotional,
    Cent        \* 0.01 in the model's price unit

ASSUME QuoteAssumption ==
    /\ {EdgeBps, MinSpreadBps, PositionSkewBps, MaxNotional} \subseteq Nat
    /\ {QuoteSize, MaxPosition, Cent} \subseteq Nat \ {0}

Magnitude(n) == IF n < 0 THEN -n ELSE n
Larger(m, n) == IF m > n THEN m ELSE n
Bps(price, bps) == (price * bps) \div 10000

(* Mean of the mid price and the size-weighted price.                      *)
FairValue(bbo) ==
    LET mid == (bbo.bid + bbo.ask) \div 2
        total == bbo.bidShares + bbo.askShares
    IN  IF bbo.bid = 0 \/ bbo.ask = 0 THEN 0
        ELSE IF total = 0 THEN mid
        ELSE (mid + (bbo.bid * bbo.bidShares + bbo.ask * bbo.askShares)
                      \div total) \div 2

(* A short position skews the quote as much as a long one of its size.     *)
Skew(fair, shares) ==
    LET size == (fair * PositionSkewBps * Magnitude(shares)) \div (10000 * MaxPosition)
    IN  IF shares < 0 THEN -size ELSE size

NoQuote == [bid |-> 0, ask |-> 0, fair |-> 0, valid |-> FALSE]

(* Edge and skew, then the minimum spread (which discards the skew), then  *)
(* the one-cent floors.  The mutants skip a step.                          *)
QuoteWithoutFloor(fair, shares) ==
    LET edge == Bps(fair, EdgeBps)
        skew == Skew(fair, shares)
    IN  IF fair = 0 THEN NoQuote
        ELSE [bid |-> fair - edge + skew, ask |-> fair + edge + skew,
              fair |-> fair, valid |-> TRUE]
GenerateQuote(fair, shares) ==
    LET edge == Bps(fair, EdgeBps)
        skew == Skew(fair, shares)
        half == Bps(fair, MinSpreadBps) \div 2
        tight == 2 * edge < Bps(fair, MinSpreadBps)
        bid == Larger(IF tight THEN fair - half ELSE fair - edge + skew, Cent)
        ask == IF tight THEN fair + half ELSE fair + edge + skew
    IN  IF fair = 0 THEN NoQuote
        ELSE [bid |-> bid, ask |-> Larger(ask, bid + Cent),
              fair |-> fair, valid |-> TRUE]

(* checkRiskLimits: either order, filled alone, keeps the position and its *)
(* notional within the limits.                                             *)
RiskIgnoresSells(quote, shares) ==
    Magnitude(shares + QuoteSize) <= MaxPosition
CheckRiskLimits(quote, shares) ==
    /\ Magnitude(shares + QuoteSize) <= MaxPosition
    /\ Magnitude(shares - QuoteSize) <= MaxPosition
    /\ Magnitude(shares + QuoteSize) * quote.bid <= MaxNotional
    /\ Magnitude(shares - QuoteSize) * quote.ask <= MaxNotional

(* handleRiskCheck's second test: beyond 80% of the maximum position.      *)
NearLimit(shares) == 10 * Magnitude(shares) > 8 * MaxPosition
============================================================================
