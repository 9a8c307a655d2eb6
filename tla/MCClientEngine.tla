--------------------------- MODULE MCClientEngine ----------------------------
(* Two requests of the client and two routes of the daemon.                *)
EXTENDS ClientEngine, TLC

CONSTANTS q1, q2, r1, r2

MCReqIds == {q1, q2}
MCRouteIds == {r1, r2}
MCSymmetry == Permutations(MCReqIds) \cup Permutations(MCRouteIds)
=============================================================================
