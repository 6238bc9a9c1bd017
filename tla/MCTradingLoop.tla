--------------------------- MODULE MCTradingLoop ---------------------------
(* Rings of three slots, each of which fills up.                             *)
EXTENDS TradingLoop
============================================================================
