-------------------------- MODULE MCAdapterLifecycle --------------------------
(***************************************************************************)
(* A window that may spawn a daemon and a daemon started from a shell (or  *)
(* by another window), on one discovery path; both processes may die.      *)
(***************************************************************************)
EXTENDS AdapterLifecycle

CONSTANTS w1, p1

=============================================================================
