---------------------------- MODULE MCXdpSocket ----------------------------
(* Two gateways on queues 1 and 2 of one interface: queues of their own,   *)
(* away from queue 0, as the warning at xdp_listener.cpp:239 asks.         *)
EXTENDS XdpSocket, TLC

CONSTANTS a, b

HighQueues == (a :> 1) @@ (b :> 2)
============================================================================
