--------------------------- MODULE MCOrchestrator ---------------------------
(* The gateway, a market maker that depends on it, the exchange, and an    *)
(* engine that depends on the market maker and the exchange.               *)
EXTENDS Orchestrator, TLC

CONSTANTS gateway, maker, exchange, engine

Order == <<gateway, maker, exchange, engine>>
DependsOn == (gateway :> {}) @@ (maker :> {gateway}) @@ (exchange :> {}) @@
             (engine :> {maker, exchange})
=============================================================================
