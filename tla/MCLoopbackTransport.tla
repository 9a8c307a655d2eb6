------------------------- MODULE MCLoopbackTransport --------------------------
(* Two sockets that compete for one or two session identifiers.            *)
EXTENDS LoopbackTransport, TLC

CONSTANTS s1, s2, i1, i2

MCSockets == {s1, s2}
MCSessionIds == {i1, i2}
=============================================================================
