------------------------- MODULE MCApplicationRouter --------------------------
(***************************************************************************)
(* The router checked on small sets of sessions, with the limits low enough *)
(* to be reached.                                                          *)
(***************************************************************************)
EXTENDS ApplicationRouter, TLC

CONSTANTS c1, c2, s1, s2, a1, a2, w1, d1, d2, k1, k2, u1, i1, i2, i3

MCSymmetry ==
    Permutations(RequestIds) \cup Permutations(ConsumerSessions) \cup Permutations(AdapterSessions)

=============================================================================
