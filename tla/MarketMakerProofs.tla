------------------------- MODULE MarketMakerProofs -------------------------
(***************************************************************************)
(* Two components of the market maker.                                     *)
(*                                                                         *)
(* The position tracker, for every set of symbols, prices and fill sizes:  *)
(* products are given to the prover as lemmas; what addFill does to one    *)
(* symbol's position is proved for any legal position first                *)
(* (AfterFillSound), and the theorems about the specification follow.      *)
(*                                                                         *)
(* The state machine, for every set of updates and symbols, every limit    *)
(* and throttle: types, the soundness of each quote at whatever position   *)
(* it is made, and the position limit while no pair is sent on top of      *)
(* another.                                                                *)
(***************************************************************************)
EXTENDS PositionTracker, MarketMakerFSM, FiniteSetTheorems, TLAPS

---------------------------------------------------------------------------
(* The position tracker                                                    *)

Position == [shares : Int, basis : Nat, realized : Int, unrealized : Int]

Clean(pos) ==
    /\ pos.shares = 0 => pos.basis = 0 /\ pos.unrealized = 0
    /\ pos.shares # 0 => pos.basis > 0

(* The product of two positive integers is positive: the cost of at least  *)
(* one share is.                                                           *)
LEMMA PositiveProduct ==
    ASSUME NEW a \in Nat \ {0}, NEW b \in Nat \ {0}
    PROVE  a * b \in Nat \ {0}
  BY SMT

(* The profit addFill realizes is an integer.                              *)
LEMMA RealizedType ==
    ASSUME NEW pos \in Position, NEW n \in Int, NEW price \in Price
    PROVE  Realized(pos, n, price) \in Int
  <1> USE PriceAssumption, ScaleAssumption
  <1>1. CASE ~Opposite(pos.shares, n)
    BY <1>1 DEF Realized, Position
  <1>2. CASE Opposite(pos.shares, n)
    <2> DEFINE perShare == price * Scale - pos.basis * (Scale \div Abs(pos.shares))
    <2>1. Abs(pos.shares) \in Nat \ {0} /\ Abs(n) \in Nat
      BY <1>2 DEF Opposite, Abs, Position
    <2>2. Scale \div Abs(pos.shares) \in Int
      BY <2>1
    <2>3. perShare \in Int
      BY <2>2 DEF Position
    <2>4. Least(Abs(n), Abs(pos.shares)) \in Int
      BY <2>1 DEF Least
    <2> HIDE DEF perShare
    <2>5. (IF pos.shares > 0 THEN perShare ELSE -perShare)
             * Least(Abs(n), Abs(pos.shares)) \in Int
      BY <2>3, <2>4
    <2>6. pos.realized \in Int
      BY DEF Position
    <2> QED
      BY <1>2, <2>5, <2>6 DEF Realized, perShare
  <1> QED
    BY <1>1, <1>2

(* One call of addFill on a legal, clean position: the shares are the sum, *)
(* and the result is legal and clean again.                                *)
LEMMA AfterFillSound ==
    ASSUME NEW pos \in Position, Clean(pos),
           NEW n \in Int, n # 0, NEW price \in Price
    PROVE  /\ AfterFill(pos, n, price) \in Position
           /\ AfterFill(pos, n, price).shares = pos.shares + n
           /\ Clean(AfterFill(pos, n, price))
  <1> DEFINE new == pos.shares + n
             booked == [pos EXCEPT !.shares = new,
                                   !.realized = Realized(pos, n, price)]
  <1>1. Realized(pos, n, price) \in Int
    BY RealizedType
  <1>2. price \in Nat \ {0} /\ new \in Int /\ pos.basis \in Nat
    BY PriceAssumption DEF Position
  <1>3. booked \in Position /\ booked.shares = new /\ booked.basis = pos.basis
    BY <1>1, <1>2 DEF Position
  <1>4. AfterFill(pos, n, price) =
          IF new = 0 THEN Closed(booked)
          ELSE IF ~Opposite(pos.shares, new)
          THEN [booked EXCEPT !.basis = @ + price * Abs(n)]
          ELSE [booked EXCEPT !.basis = FlipBasis(n, new, price),
                              !.unrealized = 0]
    BY DEF AfterFill
  <1> HIDE DEF booked
  <1>5. CASE new = 0
    <2>1. AfterFill(pos, n, price)
            = [shares |-> 0, basis |-> 0, realized |-> booked.realized,
               unrealized |-> 0]
      BY <1>3, <1>4, <1>5 DEF Closed, Position
    <2> QED
      BY <1>3, <1>5, <2>1 DEF Position, Clean
  <1>6. CASE new # 0 /\ ~Opposite(pos.shares, new)
    <2>1. price * Abs(n) \in Nat \ {0}
      <3>1. Abs(n) \in Nat \ {0}
        BY DEF Abs
      <3> QED
        BY <1>2, <3>1, PositiveProduct
    <2> DEFINE cost == price * Abs(n)
    <2> HIDE DEF cost
    <2>2. pos.basis + cost \in Nat \ {0}
      BY <1>2, <2>1 DEF cost
    <2>3. AfterFill(pos, n, price) = [booked EXCEPT !.basis = pos.basis + cost]
      BY <1>3, <1>4, <1>6 DEF cost, Position
    <2> QED
      BY <1>3, <1>6, <2>2, <2>3 DEF Position, Clean
  <1>7. CASE new # 0 /\ Opposite(pos.shares, new)
    <2>1. FlipBasis(n, new, price) \in Nat \ {0}
      <3>1. Abs(new) \in Nat \ {0}
        BY <1>2, <1>7 DEF Abs
      <3> QED
        BY <1>2, <3>1, PositiveProduct DEF FlipBasis
    <2> DEFINE cost == FlipBasis(n, new, price)
    <2> HIDE DEF cost
    <2>2. AfterFill(pos, n, price)
            = [shares |-> new, basis |-> cost, realized |-> booked.realized,
               unrealized |-> 0]
      BY <1>3, <1>4, <1>7 DEF cost, Position
    <2>3. cost \in Nat \ {0}
      BY <2>1 DEF cost
    <2> QED
      BY <1>3, <1>7, <2>2, <2>3 DEF Position, Clean
  <1> QED
    BY <1>5, <1>6, <1>7

---------------------------------------------------------------------------
(* The inductive invariant: types, and per symbol the net of its fills and *)
(* a clean book.                                                           *)
BooksInvariant == BooksTypeOK /\ PositionIsNetOfFills /\ FlatIsClean

LEMMA InitBooks == BooksInit => BooksInvariant
  BY DEF BooksInit, BooksInvariant, BooksTypeOK, PositionIsNetOfFills, FlatIsClean,
         EmptyPosition

LEMMA AddFillKeepsBooks ==
    ASSUME BooksInvariant,
           NEW s \in Stock, NEW price \in Price,
           NEW side \in {"B", "S"}, NEW q \in Quantity,
           AddFill(s, side, q, price)
    PROVE  BooksInvariant'
  <1> DEFINE n == SharesOf(side, q)
             traded == IF side = "B" THEN q ELSE -q
             pos == positions[s]
             after == AfterFill(pos, n, price)
  <1>1. n = traded /\ n \in Int /\ n # 0
    BY QuantityAssumption DEF SharesOf
  <1>2. pos \in Position /\ Clean(pos) /\ pos.shares = net[s] /\ net[s] \in Int
    BY DEF BooksInvariant, BooksTypeOK, FlatIsClean, PositionIsNetOfFills, Position, Clean
  <1>3. after \in Position /\ after.shares = pos.shares + n /\ Clean(after)
    BY <1>1, <1>2, AfterFillSound
  <1>4. /\ positions' = [positions EXCEPT ![s] = after]
        /\ net' = [net EXCEPT ![s] = @ + traded]
        /\ cash' = [cash EXCEPT ![s] = @ - traded * price]
        /\ fills' = [fills EXCEPT ![s] = @ + 1]
        /\ partial' \in [Stock -> BOOLEAN]
    <2>1. positions' = [positions EXCEPT ![s] = after]
      BY DEF AddFill
    <2>2. /\ net' = [net EXCEPT ![s] = @ + traded]
          /\ cash' = [cash EXCEPT ![s] = @ - traded * price]
          /\ fills' = [fills EXCEPT ![s] = @ + 1]
      BY DEF AddFill
    <2>3. partial' \in [Stock -> BOOLEAN]
      BY DEF AddFill, BooksInvariant, BooksTypeOK, Opposite
    <2> QED
      BY <2>1, <2>2, <2>3
  <1> HIDE DEF after, n, traded
  <1>5. BooksTypeOK'
    <2>1. positions' \in [Stock -> Position]
      BY <1>3, <1>4 DEF BooksInvariant, BooksTypeOK, Position
    <2>2. net' \in [Stock -> Int]
      BY <1>1, <1>4 DEF BooksInvariant, BooksTypeOK
    <2>3. traded * price \in Int
      BY <1>1, PriceAssumption
    <2>4. cash' \in [Stock -> Int]
      BY <1>4, <2>3 DEF BooksInvariant, BooksTypeOK
    <2>5. fills' \in [Stock -> Nat]
      BY <1>4 DEF BooksInvariant, BooksTypeOK
    <2> QED
      BY <1>4, <2>1, <2>2, <2>4, <2>5 DEF BooksTypeOK, Position
  <1>6. ASSUME NEW t \in Stock
        PROVE  positions'[t].shares = net'[t] /\ Clean(positions'[t])
    <2>1. CASE t = s
      BY <1>1, <1>2, <1>3, <1>4, <2>1 DEF BooksInvariant, BooksTypeOK
    <2>2. CASE t # s
      BY <1>4, <2>2
         DEF BooksInvariant, BooksTypeOK, PositionIsNetOfFills, FlatIsClean, Clean
    <2> QED
      BY <2>1, <2>2
  <1> QED
    BY <1>5, <1>6 DEF BooksInvariant, PositionIsNetOfFills, FlatIsClean, Clean

LEMMA UpdateKeepsBooks ==
    ASSUME BooksInvariant, NEW s \in Stock, NEW price \in Price,
           UpdateMarketPrice(s, price)
    PROVE  BooksInvariant'
  <1>1. CASE positions[s].shares = 0
    BY <1>1 DEF UpdateMarketPrice, BooksInvariant, BooksTypeOK, PositionIsNetOfFills,
                FlatIsClean
  <1>2. CASE positions[s].shares # 0
    <2> DEFINE value == MarketValue(positions[s], price)
               marked == [positions[s] EXCEPT !.unrealized = value]
    <2>1. positions[s] \in Position
      BY DEF BooksInvariant, BooksTypeOK, Position
    <2>2. value \in Int
      <3>1. price \in Int /\ positions[s].shares \in Int /\ positions[s].basis \in Int
        BY <2>1, PriceAssumption DEF Position
      <3>2. Abs(positions[s].shares) \in Int
        BY <3>1 DEF Abs
      <3> QED
        BY <3>1, <3>2 DEF MarketValue
    <2> HIDE DEF value
    <2>3. /\ marked \in Position
          /\ marked.shares = positions[s].shares
          /\ marked.basis = positions[s].basis
      BY <2>1, <2>2 DEF Position
    <2>4. /\ positions' = [positions EXCEPT ![s] = marked]
          /\ UNCHANGED <<net, cash, fills, partial>>
      BY <1>2 DEF UpdateMarketPrice, value
    <2> HIDE DEF marked
    <2>5. BooksTypeOK'
      BY <2>3, <2>4 DEF BooksInvariant, BooksTypeOK, Position
    <2>6. ASSUME NEW t \in Stock
          PROVE  positions'[t].shares = net'[t] /\ Clean(positions'[t])
      <3>1. CASE t = s
        BY <1>2, <2>3, <2>4, <3>1
           DEF BooksInvariant, BooksTypeOK, PositionIsNetOfFills, FlatIsClean, Clean
      <3>2. CASE t # s
        BY <2>4, <3>2
           DEF BooksInvariant, BooksTypeOK, PositionIsNetOfFills, FlatIsClean, Clean
      <3> QED
        BY <3>1, <3>2
    <2> QED
      BY <2>5, <2>6 DEF BooksInvariant, PositionIsNetOfFills, FlatIsClean, Clean
  <1> QED
    BY <1>1, <1>2

LEMMA NextKeepsBooks == BooksInvariant /\ [BooksNext]_bookVars => BooksInvariant'
  <1> SUFFICES ASSUME BooksInvariant, [BooksNext]_bookVars PROVE BooksInvariant'
    OBVIOUS
  <1>1. ASSUME NEW s \in Stock, NEW price \in Price,
               NEW side \in {"B", "S"}, NEW q \in Quantity,
               AddFill(s, side, q, price)
        PROVE  BooksInvariant'
    BY <1>1, AddFillKeepsBooks
  <1>2. ASSUME NEW s \in Stock, NEW price \in Price, UpdateMarketPrice(s, price)
        PROVE  BooksInvariant'
    BY <1>2, UpdateKeepsBooks
  <1>3. CASE UNCHANGED bookVars
    BY <1>3 DEF bookVars, BooksInvariant, BooksTypeOK, PositionIsNetOfFills, FlatIsClean
  <1> QED
    BY <1>1, <1>2, <1>3 DEF BooksNext

---------------------------------------------------------------------------
(* After any sequence of fills and price updates the books are well typed: *)
(* entry costs never become negative.                                      *)
THEOREM BooksTypeCorrect == BooksSpec => []BooksTypeOK
  <1>1. BooksInvariant => BooksTypeOK
    BY DEF BooksInvariant
  <1> QED
    BY <1>1, InitBooks, NextKeepsBooks, PTL DEF BooksSpec

(* Every symbol's position is the net of its fills, for every order of     *)
(* increases, reductions, closes and flips.                                *)
THEOREM PositionIsNetOfFillsHolds == BooksSpec => []PositionIsNetOfFills
  <1>1. BooksInvariant => PositionIsNetOfFills
    BY DEF BooksInvariant
  <1> QED
    BY <1>1, InitBooks, NextKeepsBooks, PTL DEF BooksSpec

(* A flat position has no entry price and no market value left over from   *)
(* what was closed, and an open one always has an entry price.             *)
THEOREM FlatIsCleanHolds == BooksSpec => []FlatIsClean
  <1>1. BooksInvariant => FlatIsClean
    BY DEF BooksInvariant
  <1> QED
    BY <1>1, InitBooks, NextKeepsBooks, PTL DEF BooksSpec

---------------------------------------------------------------------------
(* The accounting identity.                                                *)

LEMMA TimesSum ==
    ASSUME NEW a \in Int, NEW b \in Int, NEW c \in Int
    PROVE  a * (b + c) = a * b + a * c
  BY SMT

LEMMA TimesAssociates ==
    ASSUME NEW a \in Int, NEW b \in Int, NEW c \in Int
    PROVE  (a * b) * c = a * (b * c) /\ a * b = b * a
  BY SMT

LEMMA TimesMinus ==
    ASSUME NEW a \in Int, NEW b \in Int
    PROVE  a * (-b) = -(a * b) /\ (-a) * b = -(a * b) /\ a * b \in Int
  BY SMT

(* Scale is a multiple of every position size.                             *)
LEMMA ScaleDivides ==
    ASSUME NEW m \in 1..MaxShares
    PROVE  (Scale \div m) * m = Scale /\ Scale \div m \in Int
  <1>1. Scale \in Nat /\ Scale % m = 0 /\ m \in Nat \ {0}
    BY ScaleAssumption, BoundsAssumption
  <1>2. Scale = m * (Scale \div m) + (Scale % m) /\ Scale \div m \in Int
    BY <1>1, SMT
  <1>3. m * (Scale \div m) = (Scale \div m) * m
    BY <1>1, <1>2, TimesAssociates
  <1> QED
    BY <1>1, <1>2, <1>3

(* What addFill realizes when it closes a position, in one piece.          *)
LEMMA ClosingProfit ==
    ASSUME NEW pos \in Position, NEW n \in Int, NEW price \in Price,
           Opposite(pos.shares, n), Abs(n) >= Abs(pos.shares),
           Abs(pos.shares) <= MaxShares
    PROVE  Realized(pos, n, price)
             = pos.realized + (Scale * (price * pos.shares) - Scale * Cost(pos))
  <1> DEFINE m == Abs(pos.shares)
             d == Scale \div m
             perShare == price * Scale - pos.basis * d
  <1>1. /\ pos.shares \in Int /\ pos.basis \in Int /\ pos.realized \in Int
        /\ price \in Int /\ Scale \in Int
    BY PriceAssumption, ScaleAssumption DEF Position
  <1>2. m \in 1..MaxShares /\ Least(Abs(n), m) = m
    BY <1>1, BoundsAssumption DEF Opposite, Abs, Least
  <1>3. d * m = Scale /\ d \in Int
    BY <1>2, ScaleDivides
  <1>4. Realized(pos, n, price)
          = pos.realized + (IF pos.shares > 0 THEN perShare ELSE -perShare) * m
    BY <1>2 DEF Realized
  <1> HIDE DEF m, d
  <1>5. /\ price * Scale \in Int /\ pos.basis * d \in Int /\ perShare \in Int
        /\ (price * Scale) * m \in Int /\ (pos.basis * d) * m \in Int
        /\ price * m \in Int /\ Scale * (price * m) \in Int /\ Scale * pos.basis \in Int
    <2>1. m \in Int
      BY <1>2
    <2> QED BY <1>1, <1>3, <2>1, TimesMinus
  <1>6. perShare * m = Scale * (price * m) - Scale * pos.basis
    <2>1. m \in Int
      BY <1>2
    <2>2. perShare * m = (price * Scale) * m - (pos.basis * d) * m
      BY <1>5, <2>1, SMT
    <2>3. (price * Scale) * m = Scale * (price * m)
      BY <1>1, <2>1, SMT
    <2>4. (pos.basis * d) * m = pos.basis * (d * m)
      BY <1>1, <1>3, <2>1, TimesAssociates
    <2>5. pos.basis * Scale = Scale * pos.basis
      BY <1>1, TimesAssociates
    <2> QED BY <2>2, <2>3, <2>4, <2>5, <1>3
  <1> HIDE DEF perShare
  <1>7. CASE pos.shares > 0
    <2>1. m = pos.shares /\ Cost(pos) = pos.basis
      BY <1>1, <1>7 DEF m, Abs, Cost
    <2> QED BY <1>4, <1>6, <1>7, <2>1
  <1>8. CASE ~(pos.shares > 0)
    <2>1. m = -pos.shares /\ Cost(pos) = -pos.basis
      BY <1>1, <1>2, <1>8 DEF m, Abs, Cost
    <2>2. (-perShare) * m = -(perShare * m)
      BY <1>1, <1>5, <2>1, TimesMinus
    <2>3. Scale * (price * m) = -(Scale * (price * pos.shares))
      <3>1. price * m = -(price * pos.shares) /\ price * pos.shares \in Int
        BY <1>1, <2>1, TimesMinus
      <3> QED BY <1>1, <3>1, TimesMinus
    <2>4. Scale * Cost(pos) = -(Scale * pos.basis)
      BY <1>1, <2>1, TimesMinus
    <2>5. Scale * (price * pos.shares) \in Int
      BY <1>1, TimesMinus
    <2> QED BY <1>1, <1>4, <1>5, <1>6, <1>8, <2>2, <2>3, <2>4, <2>5
  <1> QED BY <1>7, <1>8

(* One call of addFill that does not reduce a position partially keeps     *)
(* realized profit equal to the cash flow plus the cost of what is held.   *)
LEMMA FillKeepsIdentity ==
    ASSUME NEW pos \in Position, Clean(pos), Abs(pos.shares) <= MaxShares,
           NEW n \in Int, n # 0, NEW price \in Price, NEW c \in Int,
           ~(Opposite(pos.shares, n) /\ Abs(n) < Abs(pos.shares)),
           pos.realized = Scale * (c + Cost(pos))
    PROVE  AfterFill(pos, n, price).realized
             = Scale * ((c - n * price) + Cost(AfterFill(pos, n, price)))
  <1> DEFINE new == pos.shares + n
             r == Realized(pos, n, price)
             booked == [pos EXCEPT !.shares = new, !.realized = r]
             after == AfterFill(pos, n, price)
  <1>1. /\ pos.shares \in Int /\ pos.basis \in Int /\ pos.realized \in Int
        /\ price \in Nat \ {0} /\ Scale \in Int /\ new \in Int
        /\ Cost(pos) \in Int
    BY PriceAssumption, ScaleAssumption DEF Position, Cost
  <1>2. after = IF new = 0 THEN Closed(booked)
                ELSE IF ~Opposite(pos.shares, new)
                THEN [booked EXCEPT !.basis = @ + price * Abs(n)]
                ELSE [booked EXCEPT !.basis = FlipBasis(n, new, price),
                                    !.unrealized = 0]
    BY DEF AfterFill
  <1>3. booked.realized = r /\ booked.shares = new /\ booked.basis = pos.basis
    BY DEF Position
  <1> HIDE DEF r
  <1>4. after.realized = r /\ after.shares = new
    BY <1>1, <1>2, <1>3 DEF Closed, Position
  <1>5. /\ new = 0 => after.basis = 0
        /\ new # 0 /\ ~Opposite(pos.shares, new) => after.basis = pos.basis + price * Abs(n)
        /\ new # 0 /\ Opposite(pos.shares, new) => after.basis = price * Abs(new)
    BY <1>1, <1>2, <1>3 DEF Closed, FlipBasis, Position
  <1> HIDE DEF booked, after
  <1>6. n * price \in Int /\ n * price = price * n /\ price * n \in Int
    BY <1>1, SMT
  <1>7. CASE ~Opposite(pos.shares, n)
    <2>1. r = pos.realized
      BY <1>7 DEF r, Realized
    <2>2. Cost(after) = Cost(pos) + price * n
      <3>1. CASE n > 0
        <4>1. pos.shares >= 0 /\ new > 0 /\ ~Opposite(pos.shares, new) /\ Abs(n) = n
          BY <3>1, <1>1, <1>7 DEF Opposite, Abs
        <4>2. Cost(pos) = pos.basis
          BY <4>1, <1>1 DEF Cost, Clean
        <4> QED BY <4>1, <4>2, <1>1, <1>4, <1>5 DEF Cost
      <3>2. CASE n < 0
        <4>1. pos.shares <= 0 /\ new < 0 /\ ~Opposite(pos.shares, new) /\ Abs(n) = -n
          BY <3>2, <1>1, <1>7 DEF Opposite, Abs
        <4>2. Cost(pos) = -pos.basis /\ price * (-n) = -(price * n)
          BY <4>1, <1>1, TimesMinus DEF Cost, Clean
        <4> HIDE DEF new
        <4> QED BY <4>1, <4>2, <1>1, <1>4, <1>5, <1>6 DEF Cost
      <3> QED BY <3>1, <3>2
    <2>3. (c - n * price) + Cost(after) = c + Cost(pos)
      BY <2>2, <1>1, <1>6
    <2> QED BY <2>1, <2>3, <1>4 DEF after
  <1>8. CASE Opposite(pos.shares, n)
    <2>1. Abs(n) >= Abs(pos.shares)
      BY <1>1, <1>8 DEF Abs
    <2>2. r = pos.realized + (Scale * (price * pos.shares) - Scale * Cost(pos))
      BY <2>1, <1>8, ClosingProfit DEF r
    <2>3. Cost(after) = price * new
      <3>1. CASE new = 0
        <4>1. price * new = 0 /\ after.basis = 0
          BY <3>1, <1>1, <1>5, SMT
        <4> QED BY <4>1, <3>1, <1>4 DEF Cost
      <3>2. CASE new > 0
        <4>1. Opposite(pos.shares, new) /\ Abs(new) = new
          BY <3>2, <2>1, <1>1, <1>8 DEF Opposite, Abs
        <4> QED BY <4>1, <3>2, <1>4, <1>5 DEF Cost
      <3>3. CASE new < 0
        <4>1. Opposite(pos.shares, new) /\ Abs(new) = -new
          BY <3>3, <2>1, <1>1, <1>8 DEF Opposite, Abs
        <4>2. price * (-new) = -(price * new) /\ price * new \in Int
          <5> HIDE DEF new
          <5> QED BY <1>1, TimesMinus
        <4> HIDE DEF new
        <4> QED BY <4>1, <4>2, <3>3, <1>1, <1>4, <1>5 DEF Cost
      <3> QED BY <3>1, <3>2, <3>3, <1>1
    <2>4. price * new = price * pos.shares + price * n /\ price * pos.shares \in Int
      BY <1>1, TimesSum, TimesMinus
    <2>5. (c - n * price) + Cost(after) = c + price * pos.shares
      <3> HIDE DEF new
      <3> QED BY <2>3, <2>4, <1>6
    <2>6. pos.realized = Scale * c + Scale * Cost(pos)
      BY <1>1, TimesSum
    <2>7. Scale * (c + price * pos.shares) = Scale * c + Scale * (price * pos.shares)
      BY <1>1, <2>4, TimesSum
    <2>8. /\ Scale * c \in Int /\ Scale * Cost(pos) \in Int
          /\ Scale * (price * pos.shares) \in Int
      BY <1>1, <2>4, TimesMinus
    <2>9. r = Scale * (c + price * pos.shares)
      BY <2>2, <2>6, <2>7, <2>8
    <2> QED BY <2>5, <2>9, <1>4 DEF after
  <1> QED BY <1>7, <1>8

(* The identity needs that positions stay within the bound Scale is a      *)
(* multiple for.                                                           *)
WithinBound == \A s \in Stock : Abs(positions[s].shares) <= MaxShares
AccountsInvariant == BooksInvariant /\ WithinBound /\ ProfitMatchesCash

LEMMA InitAccounts == BooksInit => AccountsInvariant
  <1> SUFFICES ASSUME BooksInit PROVE AccountsInvariant
    OBVIOUS
  <1>1. BooksInvariant
    BY InitBooks
  <1>2. \A s \in Stock : positions[s] = EmptyPosition /\ cash[s] = 0
    BY DEF BooksInit
  <1>3. Abs(0) = 0 /\ 0 <= MaxShares
    BY BoundsAssumption DEF Abs
  <1>4. WithinBound
    <2>1. \A s \in Stock : positions[s].shares = 0
      BY DEF BooksInit, EmptyPosition
    <2> QED BY <1>3, <2>1 DEF WithinBound
  <1>5. Scale * (0 + Cost(EmptyPosition)) = 0
    <2>1. 0 + Cost(EmptyPosition) = 0 /\ Scale \in Int
      BY ScaleAssumption DEF Cost, EmptyPosition
    <2> QED BY <2>1, SMT
  <1>6. ProfitMatchesCash
    BY <1>2, <1>5 DEF ProfitMatchesCash, EmptyPosition
  <1> QED BY <1>1, <1>4, <1>6 DEF AccountsInvariant

LEMMA AddFillKeepsAccounts ==
    ASSUME AccountsInvariant,
           NEW s \in Stock, NEW price \in Price,
           NEW side \in {"B", "S"}, NEW q \in Quantity,
           AddFill(s, side, q, price)
    PROVE  AccountsInvariant'
  <1> DEFINE n == SharesOf(side, q)
             pos == positions[s]
             after == AfterFill(pos, n, price)
  <1>1. BooksInvariant'
    BY AddFillKeepsBooks DEF AccountsInvariant
  <1>2. n \in Int /\ n # 0
    BY QuantityAssumption DEF SharesOf
  <1>3. /\ pos \in Position /\ Clean(pos) /\ cash[s] \in Int /\ partial[s] \in BOOLEAN
        /\ Abs(pos.shares) <= MaxShares
        /\ positions \in [Stock -> Position] /\ DOMAIN cash = Stock /\ DOMAIN partial = Stock
    BY DEF AccountsInvariant, WithinBound, BooksInvariant, BooksTypeOK, FlatIsClean, Position, Clean
  <1>4. /\ positions' = [positions EXCEPT ![s] = after]
        /\ cash' = [cash EXCEPT ![s] = @ - n * price]
        /\ partial' = [partial EXCEPT
             ![s] = @ \/ (Opposite(pos.shares, n) /\ Abs(n) < Abs(pos.shares))]
        /\ Abs(pos.shares + n) <= MaxShares
    BY DEF AddFill, SharesOf
  <1>5. after.shares = pos.shares + n /\ after \in Position
    BY <1>2, <1>3, AfterFillSound
  <1> HIDE DEF n, after
  <1>6. /\ positions'[s] = after /\ cash'[s] = cash[s] - n * price
        /\ partial'[s] = (partial[s] \/ (Opposite(pos.shares, n) /\ Abs(n) < Abs(pos.shares)))
        /\ \A t \in Stock \ {s} : /\ positions'[t] = positions[t]
                                   /\ cash'[t] = cash[t] /\ partial'[t] = partial[t]
    BY <1>3, <1>4 DEF AccountsInvariant, BooksInvariant, BooksTypeOK
  <1>7. WithinBound'
    BY <1>4, <1>5, <1>6 DEF AccountsInvariant, WithinBound
  <1>8. ~partial'[s] => after.realized = Scale * (cash'[s] + Cost(after))
    <2>1. SUFFICES ASSUME ~partial'[s]
          PROVE  after.realized = Scale * (cash'[s] + Cost(after))
      OBVIOUS
    <2>2. ~partial[s] /\ ~(Opposite(pos.shares, n) /\ Abs(n) < Abs(pos.shares))
      BY <2>1, <1>6
    <2>3. pos.realized = Scale * (cash[s] + Cost(pos))
      BY <2>2 DEF AccountsInvariant, ProfitMatchesCash
    <2> QED BY <2>2, <2>3, <1>2, <1>3, <1>6, FillKeepsIdentity DEF after
  <1>9. ProfitMatchesCash'
    <2>1. ASSUME NEW t \in Stock, ~partial'[t]
          PROVE  positions'[t].realized = Scale * (cash'[t] + Cost(positions'[t]))
      BY <2>1, <1>6, <1>8 DEF AccountsInvariant, ProfitMatchesCash
    <2> QED BY <2>1, Zenon DEF ProfitMatchesCash, Cost
  <1> QED BY <1>1, <1>7, <1>9 DEF AccountsInvariant

LEMMA UpdateKeepsAccounts ==
    ASSUME AccountsInvariant, NEW s \in Stock, NEW price \in Price,
           UpdateMarketPrice(s, price)
    PROVE  AccountsInvariant'
  <1>1. BooksInvariant'
    BY UpdateKeepsBooks DEF AccountsInvariant
  <1>2. /\ cash' = cash /\ partial' = partial
        /\ \A t \in Stock : /\ positions'[t].shares = positions[t].shares
                             /\ positions'[t].basis = positions[t].basis
                             /\ positions'[t].realized = positions[t].realized
    BY DEF UpdateMarketPrice, AccountsInvariant, BooksInvariant, BooksTypeOK
  <1>3. WithinBound'
    BY <1>2 DEF AccountsInvariant, WithinBound
  <1>4. ProfitMatchesCash'
    BY <1>2 DEF AccountsInvariant, ProfitMatchesCash, Cost
  <1> QED BY <1>1, <1>3, <1>4 DEF AccountsInvariant

LEMMA NextKeepsAccounts == AccountsInvariant /\ [BooksNext]_bookVars => AccountsInvariant'
  <1> SUFFICES ASSUME AccountsInvariant, [BooksNext]_bookVars PROVE AccountsInvariant'
    OBVIOUS
  <1>1. CASE UNCHANGED bookVars
    <2>1. BooksInvariant'
      BY NextKeepsBooks DEF AccountsInvariant
    <2> QED BY <1>1, <2>1 DEF bookVars, AccountsInvariant, WithinBound, ProfitMatchesCash
  <1> QED
    BY <1>1, AddFillKeepsAccounts, UpdateKeepsAccounts DEF BooksNext

(* Until a symbol's first partial reduction its realized profit is its     *)
(* cash flow plus the cost of what it holds, for every sequence of         *)
(* increases, closes and flips at any prices.                              *)
THEOREM ProfitMatchesCashHolds == BooksSpec => []ProfitMatchesCash
  <1>1. AccountsInvariant => ProfitMatchesCash
    BY DEF AccountsInvariant
  <1> QED
    BY <1>1, InitAccounts, NextKeepsAccounts, PTL DEF BooksSpec

---------------------------------------------------------------------------
(* The state machine and its quotes                                        *)

---------------------------------------------------------------------------
(* Products and quotients.                                                 *)

LEMMA QuotientBounds ==
    ASSUME NEW a \in Nat, NEW n \in Nat \ {0}
    PROVE  a \div n \in Nat /\ n * (a \div n) <= a /\ a < n * (a \div n) + n
<1>1. a % n \in 0..(n - 1)
  OBVIOUS
<1>2. a = n * (a \div n) + (a % n)
  OBVIOUS
<1>3. a \div n \in Nat
  OBVIOUS
<1>4. n * (a \div n) \in Nat
  BY <1>3
<1> QED BY <1>1, <1>2, <1>3, <1>4

LEMMA ProductGrows ==
    ASSUME NEW c \in Nat, NEW a \in Nat, NEW b \in Nat, a <= b
    PROVE  c * a <= c * b
  OBVIOUS

LEMMA FactorCancels ==
    ASSUME NEW c \in Nat \ {0}, NEW a \in Int, NEW b \in Int, c * a <= c * b
    PROVE  a <= b
  OBVIOUS

(* A quotient by a common divisor keeps a bound on what is divided.        *)
LEMMA QuotientAtLeast ==
    ASSUME NEW a \in Nat, NEW n \in Nat \ {0}, NEW c \in Nat, n * c <= a
    PROVE  a \div n >= c
<1> DEFINE q == a \div n
<1>1. q \in Nat /\ a < n * q + n
  BY QuotientBounds
<1> HIDE DEF q
<1>2. n * c < n * (q + 1)
  <2>1. n * (q + 1) = n * q + n
    BY <1>1
  <2>2. n * c \in Nat /\ n * q \in Nat
    BY <1>1
  <2> QED BY <1>1, <2>1, <2>2
<1>3. c < q + 1
  <2> SUFFICES ASSUME q + 1 <= c PROVE FALSE
    BY <1>1
  <2>1. n * (q + 1) <= n * c
    BY <1>1, ProductGrows
  <2>2. n * (q + 1) \in Nat /\ n * c \in Nat
    BY <1>1
  <2> QED BY <1>2, <2>1, <2>2
<1> QED BY <1>1, <1>3 DEF q

LEMMA Constants ==
    /\ EdgeBps \in Nat /\ MinSpreadBps \in Nat /\ PositionSkewBps \in Nat
    /\ QuoteSize \in Nat \ {0} /\ MaxPosition \in Nat \ {0} /\ Cent \in Nat \ {0}
    /\ MaxPairs \in Nat /\ ThrottleEvery \in Nat \ {0}
BY QuoteAssumption, ThrottleAssumption

LEMMA BpsBounds ==
    ASSUME NEW f \in Nat, NEW b \in Nat
    PROVE  /\ Bps(f, b) \in Nat /\ 10000 * Bps(f, b) <= f * b
           /\ f * b < 10000 * Bps(f, b) + 10000
<1>1. f * b \in Nat
  OBVIOUS
<1> QED BY <1>1, QuotientBounds DEF Bps

LEMMA SkewBounds ==
    ASSUME NEW f \in Nat, NEW s \in Int
    PROVE  /\ Skew(f, s) \in Int /\ Magnitude(Skew(f, s)) \in Nat
           /\ (10000 * MaxPosition) * Magnitude(Skew(f, s))
                <= (f * PositionSkewBps) * Magnitude(s)
<1> DEFINE a == (f * PositionSkewBps) * Magnitude(s)
           n == 10000 * MaxPosition
<1>1. Magnitude(s) \in Nat
  BY DEF Magnitude
<1>2. f * PositionSkewBps \in Nat
  BY Constants
<1>3. a \in Nat
  BY <1>1, <1>2
<1>4. n \in Nat \ {0}
  BY Constants
<1>5. Skew(f, s) = IF s < 0 THEN -(a \div n) ELSE a \div n
  BY DEF Skew
<1> HIDE DEF a, n
<1>6. a \div n \in Nat /\ n * (a \div n) <= a
  BY <1>3, <1>4, QuotientBounds
<1>7. Magnitude(Skew(f, s)) = a \div n /\ Skew(f, s) \in Int
  BY <1>5, <1>6 DEF Magnitude
<1> QED BY <1>6, <1>7 DEF a, n

LEMMA QuoteParts ==
    ASSUME NEW f \in Nat, NEW s \in Int
    PROVE  /\ Bps(f, EdgeBps) \in Nat /\ Bps(f, MinSpreadBps) \in Nat
           /\ Bps(f, MinSpreadBps) \div 2 \in Nat
           /\ Skew(f, s) \in Int /\ Magnitude(Skew(f, s)) \in Nat
<1>1. Bps(f, EdgeBps) \in Nat
  <2>1. EdgeBps \in Nat
    BY Constants
  <2> QED BY <2>1, BpsBounds
<1>2. Bps(f, MinSpreadBps) \in Nat
  <2>1. MinSpreadBps \in Nat
    BY Constants
  <2> QED BY <2>1, BpsBounds
<1>3. Bps(f, MinSpreadBps) \div 2 \in Nat
  BY <1>2
<1>4. Skew(f, s) \in Int /\ Magnitude(Skew(f, s)) \in Nat
  BY SkewBounds
<1> QED BY <1>1, <1>2, <1>3, <1>4

---------------------------------------------------------------------------
(* The quote.                                                              *)

LEMMA QuoteTyped ==
    ASSUME NEW f \in Nat, NEW s \in Int
    PROVE  GenerateQuote(f, s) \in [bid : Nat, ask : Nat, fair : Nat, valid : BOOLEAN]
<1> DEFINE edge == Bps(f, EdgeBps)
           skew == Skew(f, s)
           least == Bps(f, MinSpreadBps)
<1>1. edge \in Nat /\ least \in Nat /\ skew \in Int /\ Cent \in Nat \ {0}
  BY QuoteParts, Constants
<1>2. least \div 2 \in Nat
  BY QuoteParts
<1> QED BY <1>1, <1>2 DEF GenerateQuote, Larger, NoQuote

(* Within an edge and a skew that take less than half the price, and a     *)
(* minimum spread of at most half of it, the floors never make the spread  *)
(* too small: where they bite, the minimum spread is less than a cent.     *)
LEMMA QuoteWide ==
    ASSUME NEW f \in Nat \ {0}, NEW s \in Int,
           2 * (Bps(f, EdgeBps) + Magnitude(Skew(f, s))) <= f,
           2 * Bps(f, MinSpreadBps) <= f
    PROVE  LET q == GenerateQuote(f, s) IN
             /\ q.bid >= Cent /\ q.ask - q.bid >= Cent
             /\ q.ask - q.bid >= Bps(f, MinSpreadBps) - 1
<1>1. PICK edge \in Nat, least \in Nat, skew \in Int, half \in Nat :
        /\ edge = Bps(f, EdgeBps) /\ least = Bps(f, MinSpreadBps)
        /\ skew = Skew(f, s) /\ half = least \div 2
  BY QuoteParts
<1>2. 2 * half <= least /\ least <= 2 * half + 1
  BY <1>1
<1>3. 2 * least <= f /\ 2 * (edge + skew) <= f /\ 2 * (edge - skew) <= f
  BY <1>1 DEF Magnitude
<1>4. Cent \in Nat \ {0}
  BY Constants
<1> DEFINE tight == 2 * edge < least
           low == IF tight THEN f - half ELSE f - edge + skew
           high == IF tight THEN f + half ELSE f + edge + skew
           bid == Larger(low, Cent)
           ask == Larger(high, bid + Cent)
<1>5. GenerateQuote(f, s) = [bid |-> bid, ask |-> ask, fair |-> f, valid |-> TRUE]
  BY <1>1 DEF GenerateQuote
<1>6. bid >= Cent /\ ask - bid >= Cent /\ ask - bid >= least - 1
  BY <1>2, <1>3, <1>4 DEF Larger
<1> HIDE DEF bid, ask
<1> QED BY <1>1, <1>5, <1>6

(* A skew that is no more than the edge leaves the fair value between bid  *)
(* and ask, if that is at least a cent.                                    *)
LEMMA QuoteBrackets ==
    ASSUME NEW f \in Nat \ {0}, NEW s \in Int, f >= Cent,
           Magnitude(Skew(f, s)) <= Bps(f, EdgeBps)
    PROVE  LET q == GenerateQuote(f, s) IN q.bid <= f /\ f <= q.ask
<1>1. PICK edge \in Nat, least \in Nat, skew \in Int, half \in Nat :
        /\ edge = Bps(f, EdgeBps) /\ least = Bps(f, MinSpreadBps)
        /\ skew = Skew(f, s) /\ half = least \div 2
  BY QuoteParts
<1>2. skew <= edge /\ -skew <= edge
  BY <1>1 DEF Magnitude
<1>3. Cent \in Nat \ {0}
  BY Constants
<1> DEFINE tight == 2 * edge < least
           low == IF tight THEN f - half ELSE f - edge + skew
           high == IF tight THEN f + half ELSE f + edge + skew
           bid == Larger(low, Cent)
           ask == Larger(high, bid + Cent)
<1>4. GenerateQuote(f, s) = [bid |-> bid, ask |-> ask, fair |-> f, valid |-> TRUE]
  BY <1>1 DEF GenerateQuote
<1>5. bid <= f /\ f <= ask
  BY <1>2, <1>3 DEF Larger
<1> HIDE DEF bid, ask
<1> QED BY <1>4, <1>5

(* The skew within the position limit is no more than the edge when its    *)
(* rate is not.                                                            *)
LEMMA SkewWithinEdge ==
    ASSUME NEW f \in Nat, NEW s \in Int, Magnitude(s) <= MaxPosition,
           PositionSkewBps <= EdgeBps
    PROVE  Magnitude(Skew(f, s)) <= Bps(f, EdgeBps)
<1>1. PICK k \in Nat, edge \in Nat, size \in Nat :
        k = Magnitude(Skew(f, s)) /\ edge = Bps(f, EdgeBps) /\ size = Magnitude(s)
  <2>1. Magnitude(s) \in Nat
    BY DEF Magnitude
  <2> QED BY <2>1, QuoteParts
<1>2. (10000 * MaxPosition) * k <= (f * PositionSkewBps) * size
  BY <1>1, SkewBounds
<1>3. f * EdgeBps < 10000 * edge + 10000
  BY <1>1, BpsBounds, Constants
<1>4. PICK p \in Nat, e \in Nat : p = f * PositionSkewBps /\ e = f * EdgeBps
  BY Constants
<1>5. p <= e
  BY <1>4, ProductGrows, Constants
<1>6. p * size <= p * MaxPosition
  BY <1>1, ProductGrows, Constants
<1>7. 10000 * k <= p
  <2>1. MaxPosition * (10000 * k) = (10000 * MaxPosition) * k
        /\ MaxPosition * p = p * MaxPosition
    BY Constants
  <2>2. MaxPosition * (10000 * k) <= MaxPosition * p
    <3>1. p * size \in Nat /\ p * MaxPosition \in Nat /\ (10000 * MaxPosition) * k \in Nat
      BY Constants
    <3> QED BY <1>2, <1>4, <1>6, <2>1, <3>1
  <2> QED BY <2>2, FactorCancels, Constants
<1>8. k <= edge
  BY <1>3, <1>4, <1>5, <1>7
<1> QED BY <1>1, <1>8

(* The fair value: nothing without both prices, and never below both.      *)
LEMMA FairValueBounds ==
    ASSUME NEW bbo \in Bbo
    PROVE  /\ FairValue(bbo) \in Nat
           /\ bbo.bid >= Cent /\ bbo.ask >= Cent => FairValue(bbo) >= Cent
<1>1. /\ bbo.bid \in Nat /\ bbo.ask \in Nat /\ bbo.bidShares \in Nat
      /\ bbo.askShares \in Nat
  BY BboAssumption
<1>2. Cent \in Nat \ {0}
  BY Constants
<1> DEFINE total == bbo.bidShares + bbo.askShares
           mid == (bbo.bid + bbo.ask) \div 2
           worth == bbo.bid * bbo.bidShares + bbo.ask * bbo.askShares
<1>3. mid \in Nat /\ (bbo.bid >= Cent /\ bbo.ask >= Cent => mid >= Cent)
  BY <1>1, <1>2
<1>4. worth \in Nat
  <2>1. bbo.bid * bbo.bidShares \in Nat /\ bbo.ask * bbo.askShares \in Nat
    BY <1>1
  <2> QED BY <2>1
<1>5. ASSUME total # 0
      PROVE  /\ worth \div total \in Nat
             /\ bbo.bid >= Cent /\ bbo.ask >= Cent => worth \div total >= Cent
  <2>1. total \in Nat \ {0}
    BY <1>1, <1>5
  <2>2. worth \div total \in Nat
    BY <1>4, <2>1, QuotientBounds
  <2>3. ASSUME bbo.bid >= Cent, bbo.ask >= Cent PROVE total * Cent <= worth
    <3>1. bbo.bidShares * Cent <= bbo.bidShares * bbo.bid
      BY <1>1, <1>2, <2>3, ProductGrows
    <3>2. bbo.askShares * Cent <= bbo.askShares * bbo.ask
      BY <1>1, <1>2, <2>3, ProductGrows
    <3>3. /\ bbo.bidShares * bbo.bid = bbo.bid * bbo.bidShares
          /\ bbo.askShares * bbo.ask = bbo.ask * bbo.askShares
          /\ total * Cent = bbo.bidShares * Cent + bbo.askShares * Cent
      BY <1>1, <1>2
    <3>4. /\ bbo.bidShares * Cent \in Nat /\ bbo.askShares * Cent \in Nat
          /\ bbo.bid * bbo.bidShares \in Nat /\ bbo.ask * bbo.askShares \in Nat
      BY <1>1, <1>2
    <3> QED BY <3>1, <3>2, <3>3, <3>4
  <2>4. bbo.bid >= Cent /\ bbo.ask >= Cent => worth \div total >= Cent
    BY <1>2, <1>4, <2>1, <2>3, QuotientAtLeast
  <2> QED BY <2>2, <2>4
<1>6. FairValue(bbo) = IF bbo.bid = 0 \/ bbo.ask = 0 THEN 0
                       ELSE IF total = 0 THEN mid ELSE (mid + worth \div total) \div 2
  BY DEF FairValue
<1> HIDE DEF total, mid, worth
<1>7. CASE total = 0
  BY <1>1, <1>2, <1>3, <1>6, <1>7
<1>8. CASE total # 0
  <2>1. PICK w \in Nat : w = worth \div total /\ (bbo.bid >= Cent /\ bbo.ask >= Cent => w >= Cent)
    BY <1>5, <1>8
  <2>2. FairValue(bbo) = IF bbo.bid = 0 \/ bbo.ask = 0 THEN 0 ELSE (mid + w) \div 2
    BY <1>6, <1>8, <2>1
  <2> QED BY <1>1, <1>2, <1>3, <2>1, <2>2
<1> QED BY <1>7, <1>8

---------------------------------------------------------------------------
(* Types.                                                                  *)

LEMMA NoQuoteTyped == NoQuote \in [bid : Nat, ask : Nat, fair : Nat, valid : BOOLEAN]
BY DEF NoQuote

LEMMA QuoteStep ==
    ASSUME TypeOK, NEW bbo \in Bbo, Quote(bbo)
    PROVE  /\ lastBbo' \in SUBSET Bbo /\ Cardinality(lastBbo') <= 1
           /\ processCount' \in 0..(ThrottleEvery - 1)
           /\ shares' = shares /\ bbo.symbol \in Symbol
           /\ quoted' = shares[bbo.symbol] /\ quoted' \in Int
           /\ quote' = GenerateQuote(FairValue(bbo), quoted')
           /\ quote' \in [bid : Nat, ask : Nat, fair : Nat, valid : BOOLEAN]
<1>1. bbo.symbol \in Symbol
  BY BboAssumption
<1>2. lastBbo' \in SUBSET Bbo /\ Cardinality(lastBbo') <= 1
  <2>1. Cardinality({bbo}) = 1
    BY FS_Singleton
  <2>2. lastBbo' = {bbo}
    BY DEF Quote
  <2> QED BY <2>1, <2>2
<1>3. processCount' \in 0..(ThrottleEvery - 1)
  BY Constants DEF Quote
<1>4. /\ quoted' = shares[bbo.symbol] /\ shares' = shares
      /\ quote' = GenerateQuote(FairValue(bbo), quoted')
  BY DEF Quote
<1>5. quoted' \in Int
  BY <1>1, <1>4 DEF TypeOK
<1>6. quote' \in [bid : Nat, ask : Nat, fair : Nat, valid : BOOLEAN]
  BY <1>4, <1>5, FairValueBounds, QuoteTyped
<1> QED BY <1>1, <1>2, <1>3, <1>4, <1>5, <1>6

LEMMA TypesStep ==
    ASSUME TypeOK, Next PROVE TypeOK'
<1>1. ASSUME NEW bbo \in Bbo, ThrottleUpdate(bbo) PROVE TypeOK'
  <2>1. processCount' \in 0..(ThrottleEvery - 1)
    <3>1. processCount \in 0..(ThrottleEvery - 1) /\ processCount' = processCount + 1
      BY <1>1 DEF ThrottleUpdate, TypeOK
    <3>2. processCount + 1 # ThrottleEvery
      BY <1>1, <3>1, Constants DEF ThrottleUpdate, Throttled
    <3> QED BY <3>1, <3>2, Constants
  <2> QED BY <1>1, <2>1 DEF ThrottleUpdate, TypeOK
<1>2. ASSUME NEW bbo \in Bbo, RejectQuote(bbo) PROVE TypeOK'
  <2>1. Quote(bbo)
    BY <1>2 DEF RejectQuote
  <2> QED BY <1>2, <2>1, QuoteStep DEF RejectQuote, TypeOK
<1>3. ASSUME NEW bbo \in Bbo, SendPair(bbo) PROVE TypeOK'
  <2>1. Quote(bbo)
    BY <1>3 DEF SendPair
  <2>2. /\ buysOut' \in [Symbol -> Nat] /\ sellsOut' \in [Symbol -> Nat]
        /\ pairs' \in 0..MaxPairs /\ state' \in {"IDLE", "WAIT_FILL"}
    <3>1. QuoteSize \in Nat /\ MaxPairs \in Nat
      BY Constants
    <3>2. \A s \in Symbol : buysOut[s] + QuoteSize \in Nat /\ sellsOut[s] + QuoteSize \in Nat
      BY <3>1 DEF TypeOK
    <3>3. buysOut' \in [Symbol -> Nat] /\ sellsOut' \in [Symbol -> Nat]
      BY <1>3, <3>2 DEF SendPair, TypeOK
    <3> QED BY <1>3, <3>1, <3>3 DEF SendPair, TypeOK
  <2>3. overlapped' \in BOOLEAN
    BY <1>3 DEF SendPair, TypeOK
  <2> QED BY <2>1, <2>2, <2>3, QuoteStep DEF TypeOK
<1>4. ASSUME NEW s \in Symbol, NEW q \in 1..QuoteSize, FillBuy(s, q) PROVE TypeOK'
  <2>1. q \in Nat /\ buysOut[s] - q \in Nat
    BY <1>4, Constants DEF FillBuy, TypeOK
  <2> QED BY <1>4, <2>1 DEF FillBuy, TypeOK
<1>5. ASSUME NEW s \in Symbol, NEW q \in 1..QuoteSize, FillSell(s, q) PROVE TypeOK'
  <2>1. q \in Nat /\ sellsOut[s] - q \in Nat
    BY <1>5, Constants DEF FillSell, TypeOK
  <2> QED BY <1>5, <2>1 DEF FillSell, TypeOK
<1>6. ASSUME NEW s \in Symbol, OrderDies(s) PROVE TypeOK'
  BY <1>6 DEF OrderDies, TypeOK
<1>7. ASSUME NEW bbo \in Bbo, SkipUpdate(bbo) PROVE TypeOK'
  BY <1>7 DEF SkipUpdate, vars, TypeOK
<1> QED BY <1>1, <1>2, <1>3, <1>4, <1>5, <1>6, <1>7 DEF Next, OnBboUpdate

LEMMA InitTyped == Init => TypeOK
<1> SUFFICES ASSUME Init PROVE TypeOK
  OBVIOUS
<1>1. lastBbo \in SUBSET Bbo /\ Cardinality(lastBbo) <= 1
  <2>1. Cardinality({}) = 0
    BY FS_EmptySet
  <2> QED BY <2>1 DEF Init
<1>2. processCount \in 0..(ThrottleEvery - 1) /\ pairs \in 0..MaxPairs
  BY Constants DEF Init
<1>3. overlapped \in BOOLEAN
  BY DEF Init
<1> QED BY <1>1, <1>2, <1>3, NoQuoteTyped DEF Init, TypeOK

(* Between two calls the state machine rests in IDLE or WAIT_FILL, its     *)
(* counters and the shares that are out never go below zero.               *)
THEOREM MarketMakerTypeCorrect == Spec => []TypeOK
<1>1. TypeOK /\ UNCHANGED vars => TypeOK'
  BY DEF vars, TypeOK
<1>2. TypeOK /\ [Next]_vars => TypeOK'
  BY <1>1, TypesStep
<1> QED BY <1>2, InitTyped, PTL DEF Spec

---------------------------------------------------------------------------
(* Positions.  What is booked and what is out on one side can together     *)
(* reach no further than all pairs ever sent, and, as long as a pair is    *)
(* sent only when nothing is out, no further than the limit: a pair is     *)
(* sent only if either of its orders, filled alone, stays within it.       *)

Within(n) ==
    \A s \in Symbol : shares[s] + buysOut[s] <= n /\ sellsOut[s] - shares[s] <= n

PositionInvariant ==
    /\ Within(QuoteSize * pairs)
    /\ Magnitude(quoted) <= QuoteSize * pairs
    /\ ~overlapped => Within(MaxPosition)

LEMMA BookedWithin ==
    ASSUME TypeOK, NEW n \in Nat, Within(n), NEW s \in Symbol
    PROVE  shares[s] <= n /\ -shares[s] <= n /\ Magnitude(shares[s]) <= n
<1>1. shares[s] \in Int /\ buysOut[s] \in Nat /\ sellsOut[s] \in Nat
  BY DEF TypeOK
<1> QED BY <1>1 DEF Within, Magnitude

(* A fill moves shares from what is out to what is booked; an order that   *)
(* dies takes some away.                                                   *)
LEMMA FillsStayWithin ==
    ASSUME TypeOK, NEW n \in Nat, Within(n), NEW s \in Symbol, NEW q \in 1..QuoteSize,
           FillBuy(s, q) \/ FillSell(s, q) \/ OrderDies(s)
    PROVE  Within(n)'
<1>1. /\ q \in Nat
      /\ \A t \in Symbol : shares[t] \in Int /\ buysOut[t] \in Nat /\ sellsOut[t] \in Nat
  BY Constants DEF TypeOK
<1> SUFFICES ASSUME NEW t \in Symbol
             PROVE  shares'[t] + buysOut'[t] <= n /\ sellsOut'[t] - shares'[t] <= n
  BY DEF Within
<1>2. shares[t] + buysOut[t] <= n /\ sellsOut[t] - shares[t] <= n
  BY DEF Within
<1>3. CASE FillBuy(s, q)
  <2>1. /\ sellsOut' = sellsOut
        /\ t = s => shares'[t] = shares[t] + q /\ buysOut'[t] = buysOut[t] - q
        /\ t # s => shares'[t] = shares[t] /\ buysOut'[t] = buysOut[t]
    BY <1>3 DEF FillBuy, TypeOK
  <2> QED BY <1>1, <1>2, <2>1
<1>4. CASE FillSell(s, q)
  <2>1. /\ buysOut' = buysOut
        /\ t = s => shares'[t] = shares[t] - q /\ sellsOut'[t] = sellsOut[t] - q
        /\ t # s => shares'[t] = shares[t] /\ sellsOut'[t] = sellsOut[t]
    BY <1>4 DEF FillSell, TypeOK
  <2> QED BY <1>1, <1>2, <2>1
<1>5. CASE OrderDies(s)
  <2>1. /\ shares' = shares
        /\ buysOut'[t] = buysOut[t] \/ buysOut'[t] = 0
        /\ sellsOut'[t] = sellsOut[t] \/ sellsOut'[t] = 0
    BY <1>5 DEF OrderDies, TypeOK
  <2> QED BY <1>1, <1>2, <2>1
<1> QED BY <1>3, <1>4, <1>5

LEMMA PairStaysWithin ==
    ASSUME TypeOK, PositionInvariant, NEW bbo \in Bbo, SendPair(bbo)
    PROVE  PositionInvariant'
<1> DEFINE sym == bbo.symbol
<1>1. /\ QuoteSize \in Nat \ {0} /\ MaxPosition \in Nat /\ pairs \in Nat
      /\ \A s \in Symbol : shares[s] \in Int /\ buysOut[s] \in Nat /\ sellsOut[s] \in Nat
  BY Constants DEF TypeOK
<1>2. /\ sym \in Symbol /\ shares' = shares /\ quoted' = shares[sym]
  BY QuoteStep DEF SendPair
<1>3. /\ \A s \in Symbol : s = sym => buysOut'[s] = buysOut[s] + QuoteSize
                                      /\ sellsOut'[s] = sellsOut[s] + QuoteSize
      /\ \A s \in Symbol : s # sym => buysOut'[s] = buysOut[s] /\ sellsOut'[s] = sellsOut[s]
      /\ pairs' = pairs + 1
      /\ ~overlapped' => ~overlapped /\ ~(buysOut[sym] + sellsOut[sym] > 0)
  BY DEF SendPair, TypeOK
<1>4. PICK n \in Nat : n = QuoteSize * pairs /\ QuoteSize * pairs' = n + QuoteSize
  BY <1>1, <1>3
<1>5. Within(n) /\ Magnitude(quoted) <= n
  BY <1>4 DEF PositionInvariant
<1> HIDE DEF sym
<1>6. Within(QuoteSize * pairs)'
  <2> SUFFICES ASSUME NEW s \in Symbol
               PROVE  /\ shares'[s] + buysOut'[s] <= n + QuoteSize
                      /\ sellsOut'[s] - shares'[s] <= n + QuoteSize
    BY <1>4 DEF Within
  <2>1. shares[s] + buysOut[s] <= n /\ sellsOut[s] - shares[s] <= n
    BY <1>5 DEF Within
  <2>2. CASE s = sym
    BY <1>1, <1>2, <1>3, <2>1, <2>2
  <2>3. CASE s # sym
    BY <1>1, <1>2, <1>3, <2>1, <2>3
  <2> QED BY <2>2, <2>3
<1>7. Magnitude(quoted') <= QuoteSize * pairs'
  <2>1. Magnitude(shares[sym]) <= n /\ Magnitude(shares[sym]) \in Nat
    BY <1>1, <1>2, <1>5, BookedWithin DEF Magnitude
  <2> QED BY <1>1, <1>2, <1>4, <2>1
<1>8. ASSUME ~overlapped' PROVE Within(MaxPosition)'
  <2>1. Within(MaxPosition) /\ buysOut[sym] = 0 /\ sellsOut[sym] = 0
    BY <1>1, <1>2, <1>3, <1>8 DEF PositionInvariant
  <2>2. shares[sym] + QuoteSize <= MaxPosition /\ QuoteSize - shares[sym] <= MaxPosition
    <3>1. /\ Magnitude(shares[sym] + QuoteSize) <= MaxPosition
          /\ Magnitude(shares[sym] - QuoteSize) <= MaxPosition
      BY DEF SendPair, MayQuote, CheckRiskLimits, sym
    <3> QED BY <1>1, <1>2, <3>1 DEF Magnitude
  <2> SUFFICES ASSUME NEW s \in Symbol
               PROVE  /\ shares'[s] + buysOut'[s] <= MaxPosition
                      /\ sellsOut'[s] - shares'[s] <= MaxPosition
    BY Constants DEF Within
  <2>3. CASE s = sym
    BY <1>1, <1>2, <1>3, <2>1, <2>2, <2>3
  <2>4. CASE s # sym
    BY <1>1, <1>2, <1>3, <2>1, <2>4 DEF Within
  <2> QED BY <2>3, <2>4
<1> QED BY <1>6, <1>7, <1>8 DEF PositionInvariant

LEMMA PositionStep ==
    ASSUME TypeOK, PositionInvariant, Next PROVE PositionInvariant'
<1>1. QuoteSize * pairs \in Nat /\ MaxPosition \in Nat
  BY Constants DEF TypeOK
<1>2. ASSUME UNCHANGED <<shares, buysOut, sellsOut, pairs, overlapped>>,
             Magnitude(quoted') <= QuoteSize * pairs
      PROVE  PositionInvariant'
  BY <1>2 DEF PositionInvariant, Within
<1>3. ASSUME NEW bbo \in Bbo, RejectQuote(bbo) PROVE PositionInvariant'
  <2>1. bbo.symbol \in Symbol /\ quoted' = shares[bbo.symbol]
        /\ UNCHANGED <<shares, buysOut, sellsOut, pairs, overlapped>>
    BY <1>3, QuoteStep DEF RejectQuote
  <2>2. Magnitude(quoted') <= QuoteSize * pairs
    BY <1>1, <2>1, BookedWithin DEF PositionInvariant
  <2> QED BY <1>2, <2>1, <2>2
<1>4. ASSUME NEW bbo \in Bbo, ThrottleUpdate(bbo) \/ SkipUpdate(bbo)
      PROVE  PositionInvariant'
  BY <1>4 DEF ThrottleUpdate, SkipUpdate, vars, PositionInvariant, Within
<1>5. ASSUME NEW s \in Symbol, NEW q \in 1..QuoteSize,
             FillBuy(s, q) \/ FillSell(s, q) \/ OrderDies(s)
      PROVE  PositionInvariant'
  <2>1. UNCHANGED <<pairs, quoted, overlapped>>
    BY <1>5 DEF FillBuy, FillSell, OrderDies
  <2>2. Within(QuoteSize * pairs)'
    <3>1. PICK n \in Nat : n = QuoteSize * pairs
      BY <1>1
    <3>2. Within(n)'
      BY <1>5, <3>1, FillsStayWithin DEF PositionInvariant
    <3> QED BY <2>1, <3>1, <3>2 DEF Within
  <2>3. ~overlapped => Within(MaxPosition)'
    BY <1>1, <1>5, FillsStayWithin DEF PositionInvariant
  <2> QED BY <2>1, <2>2, <2>3 DEF PositionInvariant
<1>6. 1 \in 1..QuoteSize
  BY Constants
<1>7. ASSUME NEW s \in Symbol, OrderDies(s) PROVE PositionInvariant'
  BY <1>5, <1>6, <1>7
<1> QED BY <1>3, <1>4, <1>5, <1>7, PairStaysWithin DEF Next, OnBboUpdate

LEMMA InitPosition == Init => PositionInvariant
<1> SUFFICES ASSUME Init PROVE PositionInvariant
  OBVIOUS
<1>1. \A s \in Symbol : shares[s] = 0 /\ buysOut[s] = 0 /\ sellsOut[s] = 0
  BY DEF Init
<1>2. quoted = 0 /\ pairs = 0
  BY DEF Init
<1>3. QuoteSize * pairs = 0 /\ MaxPosition \in Nat
  BY <1>2, Constants
<1> QED BY <1>1, <1>2, <1>3 DEF PositionInvariant, Within, Magnitude

LEMMA PositionInvariantHolds == Spec => [](TypeOK /\ PositionInvariant)
<1>1. TypeOK /\ PositionInvariant /\ UNCHANGED vars => (TypeOK /\ PositionInvariant)'
  BY DEF vars, TypeOK, PositionInvariant, Within
<1>2. TypeOK /\ PositionInvariant /\ [Next]_vars => (TypeOK /\ PositionInvariant)'
  BY <1>1, TypesStep, PositionStep
<1> QED BY <1>2, InitTyped, InitPosition, PTL DEF Spec

(* For every limit and quote size, and with fills, partial fills and lost  *)
(* orders in any order, the booked position stays within the limit as long *)
(* as no pair was sent while orders were out.                              *)
THEOREM LimitHoldsWithoutOverlapHolds == Spec => []LimitHoldsWithoutOverlap
<1>1. TypeOK /\ PositionInvariant => LimitHoldsWithoutOverlap
  <2> SUFFICES ASSUME TypeOK, PositionInvariant, ~overlapped, NEW s \in Symbol
               PROVE  Magnitude(shares[s]) <= MaxPosition
    BY DEF LimitHoldsWithoutOverlap
  <2>1. MaxPosition \in Nat /\ Within(MaxPosition)
    BY Constants DEF PositionInvariant
  <2> QED BY <2>1, BookedWithin
<1> QED BY <1>1, PositionInvariantHolds, PTL

---------------------------------------------------------------------------
(* Quotes.  What the soundness of a quote asks of the configuration and of *)
(* the feed: the skew at the limit is no more than the edge; the minimum   *)
(* spread takes at most half of the price, and so do the edge and the skew *)
(* at the largest position all pairs together can build up; and no price   *)
(* is below a cent.                                                        *)
SoundParameters ==
    /\ PositionSkewBps <= EdgeBps
    /\ MinSpreadBps <= 5000
    /\ 2 * (MaxPosition * EdgeBps + (QuoteSize * MaxPairs) * PositionSkewBps)
         <= 10000 * MaxPosition
    /\ \A bbo \in Bbo : bbo.bid = 0 \/ bbo.ask = 0 \/ (bbo.bid >= Cent /\ bbo.ask >= Cent)

(* The quote is one that generateQuote returns for the position it was     *)
(* made for.                                                               *)
QuoteInvariant ==
    \E f \in Nat : (f = 0 \/ f >= Cent) /\ quote = GenerateQuote(f, quoted)

LEMMA EdgeAndSkewBounded ==
    ASSUME SoundParameters, NEW f \in Nat, NEW s \in Int,
           Magnitude(s) <= QuoteSize * MaxPairs
    PROVE  2 * (Bps(f, EdgeBps) + Magnitude(Skew(f, s))) <= f
<1>1. PICK k \in Nat, edge \in Nat, size \in Nat :
        k = Magnitude(Skew(f, s)) /\ edge = Bps(f, EdgeBps) /\ size = Magnitude(s)
  <2>1. Magnitude(s) \in Nat
    BY DEF Magnitude
  <2> QED BY <2>1, QuoteParts
<1>2. PICK reach \in Nat : reach = QuoteSize * MaxPairs
  BY Constants
<1>3. PICK n \in Nat \ {0} : n = 10000 * MaxPosition
  BY Constants
<1>4. PICK p \in Nat, e \in Nat : p = f * PositionSkewBps /\ e = f * EdgeBps
  BY Constants
<1>5. n * k <= reach * p
  <2>1. n * k <= p * size
    BY <1>1, <1>3, <1>4, SkewBounds
  <2>2. p * size <= p * reach
    BY <1>1, <1>2, ProductGrows
  <2>3. p * size \in Nat /\ p * reach = reach * p /\ reach * p \in Nat /\ n * k \in Nat
    BY <1>3
  <2> QED BY <2>1, <2>2, <2>3
<1>6. n * edge <= MaxPosition * e
  <2>1. 10000 * edge <= e
    BY <1>1, <1>4, BpsBounds, Constants
  <2>2. MaxPosition * (10000 * edge) <= MaxPosition * e
    BY <1>4, <2>1, ProductGrows, Constants
  <2>3. MaxPosition * (10000 * edge) = n * edge
    BY <1>3, Constants
  <2> QED BY <2>2, <2>3
<1>7. 2 * (MaxPosition * e + reach * p) <= n * f
  <2>1. PICK a \in Nat, b \in Nat : a = MaxPosition * EdgeBps /\ b = reach * PositionSkewBps
    BY Constants
  <2>2. 2 * (a + b) <= n
    BY <1>2, <1>3, <2>1 DEF SoundParameters
  <2>3. f * (2 * (a + b)) <= f * n
    BY <2>2, ProductGrows
  <2>4. f * a = MaxPosition * e /\ f * b = reach * p
    BY <1>4, <2>1, Constants
  <2>5. f * (2 * (a + b)) = 2 * (f * a + f * b) /\ f * n = n * f
    OBVIOUS
  <2> QED BY <2>3, <2>4, <2>5
<1>8. n * (2 * (edge + k)) <= n * f
  <2>1. n * (2 * (edge + k)) = 2 * (n * edge + n * k)
    OBVIOUS
  <2>2. /\ n * edge \in Nat /\ n * k \in Nat /\ MaxPosition * e \in Nat
        /\ reach * p \in Nat /\ n * f \in Nat
    BY Constants
  <2> QED BY <1>5, <1>6, <1>7, <2>1, <2>2
<1>9. 2 * (edge + k) <= f
  BY <1>8, FactorCancels
<1> QED BY <1>1, <1>9

LEMMA SpreadBounded ==
    ASSUME SoundParameters, NEW f \in Nat
    PROVE  2 * Bps(f, MinSpreadBps) <= f
<1>1. MinSpreadBps \in Nat
  BY Constants
<1>2. f * MinSpreadBps <= f * 5000
  BY ProductGrows, Constants DEF SoundParameters
<1>3. f * MinSpreadBps \in Nat
  BY <1>1
<1>4. Bps(f, MinSpreadBps) \in Nat
  BY <1>1, BpsBounds
<1>5. 10000 * Bps(f, MinSpreadBps) <= f * MinSpreadBps
  BY <1>1, BpsBounds
<1> QED BY <1>2, <1>3, <1>4, <1>5

LEMMA QuoteInvariantSound ==
    ASSUME SoundParameters, TypeOK, PositionInvariant, QuoteInvariant
    PROVE  QuoteIsSound
<1>1. PICK f \in Nat : (f = 0 \/ f >= Cent) /\ quote = GenerateQuote(f, quoted)
  BY DEF QuoteInvariant
<1>2. quoted \in Int /\ Magnitude(quoted) <= QuoteSize * MaxPairs
  <2>1. quoted \in Int /\ pairs \in 0..MaxPairs
    BY DEF TypeOK
  <2>2. QuoteSize * pairs <= QuoteSize * MaxPairs
    BY <2>1, ProductGrows, Constants
  <2>3. QuoteSize * pairs \in Nat /\ QuoteSize * MaxPairs \in Nat /\ Magnitude(quoted) \in Nat
    BY <2>1, Constants DEF Magnitude
  <2> QED BY <2>1, <2>2, <2>3 DEF PositionInvariant
<1>3. CASE f = 0
  BY <1>1, <1>3 DEF GenerateQuote, NoQuote, QuoteIsSound, QuoteIsSane, QuoteBracketsFair
<1>4. CASE f # 0
  <2>1. quote.fair = f
    BY <1>1, <1>4 DEF GenerateQuote
  <2>2. /\ quote.bid >= Cent /\ quote.ask - quote.bid >= Cent
        /\ quote.ask - quote.bid >= Bps(f, MinSpreadBps) - 1
    BY <1>1, <1>2, <1>4, EdgeAndSkewBounded, SpreadBounded, QuoteWide
  <2>3. Magnitude(quoted) <= MaxPosition => quote.bid <= f /\ f <= quote.ask
    BY <1>1, <1>2, <1>4, SkewWithinEdge, QuoteBrackets DEF SoundParameters
  <2> QED BY <2>1, <2>2, <2>3 DEF QuoteIsSound, QuoteIsSane, QuoteBracketsFair
<1> QED BY <1>3, <1>4

LEMMA QuoteInvariantStep ==
    ASSUME SoundParameters, TypeOK, QuoteInvariant, Next PROVE QuoteInvariant'
<1>1. ASSUME UNCHANGED <<quote, quoted>> PROVE QuoteInvariant'
  BY <1>1 DEF QuoteInvariant
<1>2. ASSUME NEW bbo \in Bbo, Quote(bbo) PROVE QuoteInvariant'
  <2>1. quote' = GenerateQuote(FairValue(bbo), quoted')
    BY <1>2, QuoteStep
  <2>2. FairValue(bbo) \in Nat /\ (FairValue(bbo) = 0 \/ FairValue(bbo) >= Cent)
    BY FairValueBounds DEF SoundParameters, FairValue
  <2> QED BY <2>1, <2>2 DEF QuoteInvariant
<1> QED
  BY <1>1, <1>2
  DEF Next, OnBboUpdate, SkipUpdate, ThrottleUpdate, RejectQuote, SendPair, FillBuy,
      FillSell, OrderDies, vars

(* For every configuration with sound parameters, at whatever position     *)
(* fills in any order, partial fills and lost orders lead to, a valid      *)
(* quote is wide enough, costs at least a cent and, within the limit, has  *)
(* the fair value between its prices.                                      *)
THEOREM QuoteIsSoundHolds ==
    ASSUME SoundParameters PROVE Spec => []QuoteIsSound
<1>1. Init => QuoteInvariant
  BY Constants DEF Init, QuoteInvariant, GenerateQuote, NoQuote
<1>2. TypeOK /\ QuoteInvariant /\ [Next]_vars => QuoteInvariant'
  <2>1. UNCHANGED vars /\ QuoteInvariant => QuoteInvariant'
    BY DEF vars, QuoteInvariant
  <2> QED BY <2>1, QuoteInvariantStep
<1>3. TypeOK /\ PositionInvariant /\ QuoteInvariant => QuoteIsSound
  BY QuoteInvariantSound
<1> QED BY <1>1, <1>2, <1>3, PositionInvariantHolds, PTL DEF Spec
============================================================================
