----------------------------- MODULE MCEventBridge -----------------------------
(***************************************************************************)
(* A document in a window whose folders come and go.                       *)
(***************************************************************************)
EXTENDS EventBridge

CONSTANTS d1, home, other

MCFolderSets == {{}, {home}, {home, other}}

=============================================================================
