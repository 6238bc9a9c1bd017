----------------------------- MODULE MCBboRing -----------------------------
(* A ring of two slots and quotes of two words; four quotes fill it twice over.  *)
EXTENDS BboRing

CONSTANTS e1, e2, lo, hi

MCEvent == {e1, e2}
MCWord == {lo, hi}
============================================================================
