-------------------------- MODULE MCOrderGateway --------------------------
(* Queues of two entries each overflow within four datagrams.              *)
EXTENDS OrderGateway
===========================================================================
