---------------------- MODULE MCReconnectingConnection ------------------------
(***************************************************************************)
(* The reconnecting facade over a few connections in a row.                *)
(***************************************************************************)
EXTENDS ReconnectingConnection

CONSTANTS m1, m2

=============================================================================
