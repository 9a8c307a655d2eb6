-------------------------- MODULE MCDaemonOwnership ---------------------------
(***************************************************************************)
(* Three daemons started on one discovery path, one of which may die.      *)
(***************************************************************************)
EXTENDS DaemonOwnership, TLC

CONSTANTS p1, p2, p3

MCSymmetry == Permutations(Daemons)

=============================================================================
