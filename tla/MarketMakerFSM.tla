-------------------------- MODULE MarketMakerFSM --------------------------
(***************************************************************************)
(* The market maker's state machine (src/15-market-maker/src/              *)
(* market_maker_fsm.cpp): onBboUpdate filters and throttles the BBOs and   *)
(* runs CALCULATE, QUOTE, RISK_CHECK and ORDER_GEN within one call;        *)
(* processFills books the fills of whatever orders are out, at any time    *)
(* between two calls and in any order.                                     *)
(***************************************************************************)
EXTENDS Quoting, FiniteSets

CONSTANTS
    Bbo,             \* the updates the gateway may deliver
    Symbol,
    ThrottleEvery,   \* one update in so many is processed (50)
    MaxPairs         \* bound: pairs of orders sent

ASSUME ThrottleAssumption == ThrottleEvery \in Nat \ {0} /\ MaxPairs \in Nat
ASSUME BboAssumption ==
    Bbo \subseteq [symbol : Symbol, bid : Nat, ask : Nat, bidShares : Nat,
                   askShares : Nat, valid : BOOLEAN]

VARIABLES
    state,           \* MarketMakerFSM::state_
    lastBbo,         \* static last_bbo: a set, empty until the first one
    processCount,    \* static process_count, modulo ThrottleEvery
    shares,          \* position_.getPosition(symbol).shares
    quote,           \* current_quote_
    quoted,          \* history: the position current_quote_ was made for
    buysOut, sellsOut,   \* history: shares of orders sent and not filled
    pairs,           \* history: pairs of orders sent
    overlapped       \* history: a pair was sent while orders were out

vars == <<state, lastBbo, processCount, shares, quote, quoted,
          buysOut, sellsOut, pairs, overlapped>>

Init ==
    /\ state = "IDLE"
    /\ lastBbo = {}
    /\ processCount = 0
    /\ shares = [s \in Symbol |-> 0]
    /\ quote = NoQuote
    /\ quoted = 0
    /\ buysOut = [s \in Symbol |-> 0]
    /\ sellsOut = [s \in Symbol |-> 0]
    /\ pairs = 0
    /\ overlapped = FALSE

(* Neither the prices nor the spread moved a cent since the update that    *)
(* was processed last, if that was for the same symbol.                    *)
Spread(bbo) == bbo.ask - bbo.bid
Insignificant(bbo) ==
    \E last \in lastBbo :
      /\ last.symbol = bbo.symbol
      /\ Magnitude(bbo.bid - last.bid) + Magnitude(bbo.ask - last.ask) < Cent
      /\ Magnitude(Spread(bbo) - Spread(last)) < Cent

(* An invalid or insignificant update changes nothing.                     *)
SkipUpdate(bbo) ==
    /\ ~bbo.valid \/ Insignificant(bbo)
    /\ UNCHANGED vars

(* Every update but each ThrottleEvery-th is dropped.                      *)
Throttled == (processCount + 1) % ThrottleEvery # 0

ThrottleUpdate(bbo) ==
    /\ bbo.valid /\ ~Insignificant(bbo)
    /\ Throttled
    /\ processCount' = processCount + 1
    /\ UNCHANGED <<state, lastBbo, shares, quote, quoted, buysOut, sellsOut,
                   pairs, overlapped>>

(* handleCalculate and handleQuote, whatever state the last call left.     *)
Quote(bbo) ==
    /\ bbo.valid /\ ~Insignificant(bbo)
    /\ ~Throttled
    /\ processCount' = 0
    /\ lastBbo' = {bbo}
    /\ quote' = GenerateQuote(FairValue(bbo), shares[bbo.symbol])
    /\ quoted' = shares[bbo.symbol]
    /\ UNCHANGED shares

MayQuote(bbo) ==
    /\ quote'.valid
    /\ CheckRiskLimits(quote', shares[bbo.symbol])
    /\ ~NearLimit(shares[bbo.symbol])

(* No fair value, a risk limit exceeded, or too near the limit.            *)
RejectQuote(bbo) ==
    /\ Quote(bbo)
    /\ ~MayQuote(bbo)
    /\ state' = "IDLE"
    /\ UNCHANGED <<buysOut, sellsOut, pairs, overlapped>>

(* handleOrderGen: a buy order and a sell order of the quoted size.        *)
SendPair(bbo) ==
    /\ Quote(bbo)
    /\ MayQuote(bbo)
    /\ pairs < MaxPairs
    /\ state' = "WAIT_FILL"
    /\ buysOut' = [buysOut EXCEPT ![bbo.symbol] = @ + QuoteSize]
    /\ sellsOut' = [sellsOut EXCEPT ![bbo.symbol] = @ + QuoteSize]
    /\ pairs' = pairs + 1
    /\ overlapped' = (overlapped \/ buysOut[bbo.symbol] + sellsOut[bbo.symbol] > 0)

OnBboUpdate(bbo) ==
    SkipUpdate(bbo) \/ ThrottleUpdate(bbo) \/ RejectQuote(bbo) \/ SendPair(bbo)

(* processFills: part or all of what is out on one side.                   *)
FillBuy(s, q) ==
    /\ q <= buysOut[s]
    /\ buysOut' = [buysOut EXCEPT ![s] = @ - q]
    /\ shares' = [shares EXCEPT ![s] = @ + q]
    /\ UNCHANGED <<state, lastBbo, processCount, quote, quoted, sellsOut,
                   pairs, overlapped>>

FillSell(s, q) ==
    /\ q <= sellsOut[s]
    /\ sellsOut' = [sellsOut EXCEPT ![s] = @ - q]
    /\ shares' = [shares EXCEPT ![s] = @ - q]
    /\ UNCHANGED <<state, lastBbo, processCount, quote, quoted, buysOut,
                   pairs, overlapped>>

(* An order is cancelled, rejected or expires: nobody tells the market     *)
(* maker (external: the exchange).                                         *)
OrderDies(s) ==
    /\ buysOut[s] + sellsOut[s] > 0
    /\ \/ buysOut' = [buysOut EXCEPT ![s] = 0] /\ UNCHANGED sellsOut
       \/ sellsOut' = [sellsOut EXCEPT ![s] = 0] /\ UNCHANGED buysOut
    /\ UNCHANGED <<state, lastBbo, processCount, shares, quote, quoted,
                   pairs, overlapped>>

Next ==
    \/ \E bbo \in Bbo : OnBboUpdate(bbo)
    \/ \E s \in Symbol, q \in 1..QuoteSize : FillBuy(s, q) \/ FillSell(s, q)
    \/ \E s \in Symbol : OrderDies(s)

Spec == Init /\ [][Next]_vars

---------------------------------------------------------------------------
(* Types; between two calls the machine is in one of its two resting       *)
(* states, so the other branches of the switch are never taken.            *)
TypeOK ==
    /\ state \in {"IDLE", "WAIT_FILL"}
    /\ lastBbo \in SUBSET Bbo /\ Cardinality(lastBbo) <= 1
    /\ processCount \in 0..(ThrottleEvery - 1)
    /\ shares \in [Symbol -> Int]
    /\ quote \in [bid : Nat, ask : Nat, fair : Nat, valid : BOOLEAN]
    /\ quoted \in Int
    /\ buysOut \in [Symbol -> Nat] /\ sellsOut \in [Symbol -> Nat]
    /\ pairs \in 0..MaxPairs
    /\ overlapped \in BOOLEAN

(* A quote never crosses itself, has a price the exchange accepts and is   *)
(* at least the configured spread wide, after all of edge, skew, minimum   *)
(* spread and the one-cent floors.                                         *)
QuoteIsSane ==
    quote.valid =>
      /\ quote.bid >= Cent
      /\ quote.ask - quote.bid >= Cent
      /\ quote.ask - quote.bid >= Bps(quote.fair, MinSpreadBps) - 1

(* It never offers to buy above, or to sell below, the fair value, as long *)
(* as the position that skews it is within the limit.                      *)
QuoteBracketsFair ==
    quote.valid /\ Magnitude(quoted) <= MaxPosition =>
      quote.bid <= quote.fair /\ quote.fair <= quote.ask

(* Every quote is sound at every position that fills in any order, partial *)
(* fills and lost orders may have led to.                                  *)
QuoteIsSound == QuoteIsSane /\ QuoteBracketsFair

(* The position limit holds as long as the market maker has not sent a     *)
(* pair while orders of an earlier one could still be filled.  Without the *)
(* premise it fails: the check sees the booked position and one quote only.*)
LimitHoldsWithoutOverlap ==
    ~overlapped => \A s \in Symbol : Magnitude(shares[s]) <= MaxPosition
============================================================================
