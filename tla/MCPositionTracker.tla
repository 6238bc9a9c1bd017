------------------------- MODULE MCPositionTracker -------------------------
(* Two symbols, fills of one or two shares at two prices.                  *)
EXTENDS PositionTracker
============================================================================
