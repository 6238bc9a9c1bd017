----------------------------- MODULE MCXdpRings -----------------------------
(* Four frames and rings of two.  The index of the fill ring, which starts *)
(* at two, wraps with the second recycled frame; that of the RX ring does  *)
(* not wrap within three packets.                                          *)
EXTENDS XdpRings
=============================================================================
