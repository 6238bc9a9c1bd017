------------------------- MODULE MCMarketMakerFSM -------------------------
(* Prices in thousandths of a cent.  One expensive stock (the spread rules *)
(* decide), one cheap one (the one-cent floors decide), a move below the   *)
(* one-cent threshold, an update without a bid and an invalid one.         *)
EXTENDS MarketMakerFSM

CONSTANTS AAPL, PENNY

Update(s, bid, ask, bidShares, askShares, ok) ==
    [symbol |-> s, bid |-> bid, ask |-> ask, bidShares |-> bidShares,
     askShares |-> askShares, valid |-> ok]

MCBbo == { Update(AAPL, 10000000, 10002000, 1, 3, TRUE),
           Update(AAPL, 10000300, 10002300, 0, 0, TRUE),
           Update(AAPL, 0, 10002000, 0, 3, TRUE),
           Update(AAPL, 10000000, 10002000, 1, 3, FALSE),
           Update(PENNY, 1000, 3000, 2, 1, TRUE) }
============================================================================
