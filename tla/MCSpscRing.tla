---------------------------- MODULE MCSpscRing ----------------------------
(* A ring of two slots, events of two words, and enough calls of publish() *)
(* to lap the ring twice and to fill it while the consumer is away.        *)
EXTENDS SpscRing

CONSTANTS e1, e2, lo, hi

MCEvent == {e1, e2}
MCWord == {lo, hi}
===========================================================================
