---------------------------- MODULE MCVscodeRoutes -----------------------------
(***************************************************************************)
(* Two documents, two requests in progress.                                *)
(***************************************************************************)
EXTENDS VscodeRoutes, TLC

CONSTANTS d1, d2, r1, r2, t1, t2

MCSymmetry == Permutations(Docs) \cup Permutations(Requests)

=============================================================================
