---------------------------- MODULE MCOrderBook ----------------------------
(***************************************************************************)
(* Three levels of two prices each, two orders: buys at two prices of the  *)
(* top level and one of the bottom level, a sell that shares its address   *)
(* with a buy, and references that collide in the order storage.           *)
(***************************************************************************)
EXTENDS OrderBook

MCMessage ==
    {[type |-> "A", ref |-> r, price |-> p, shares |-> 2, side |-> "buy"] :
         r \in {1, 2}, p \in {1, 5}}
    \cup {[type |-> "A", ref |-> 3, price |-> 4, shares |-> 3, side |-> "buy"],
          [type |-> "A", ref |-> 2, price |-> 1, shares |-> 1, side |-> "sell"],
          [type |-> "U", ref |-> 1, price |-> 4, shares |-> 1, side |-> "buy"],
          [type |-> "P", ref |-> 1, price |-> 1, shares |-> 1, side |-> "sell"]}
    \cup {[type |-> t, ref |-> r, price |-> 1, shares |-> 1, side |-> "buy"] :
          t \in {"E", "D"}, r \in {1, 2}}
============================================================================
