--------------------------- MODULE MCGatewayFeed ----------------------------
(* One market maker that reads its feed and one that may stop reading.     *)
EXTENDS GatewayFeed

CONSTANTS eager, lazy
=============================================================================
