----------------------------- MODULE BridgeBase ------------------------------
(***************************************************************************)
(* The identifiers and bounds shared by the modules of the daemon          *)
(* (packages/bridge-daemon/src).                                           *)
(*                                                                         *)
(* A session identifier is issued once, to a connection of one role, for   *)
(* the life of the daemon (18 random bytes per handshake), so the two roles *)
(* are two disjoint sets of identifiers.                                   *)
(***************************************************************************)
EXTENDS Naturals, FiniteSets

CONSTANTS
    ConsumerSessions,   \* identifiers of sessions in the consumer role
    AdapterSessions,    \* identifiers of sessions in the adapter role
    AdapterIds,         \* identifiers adapters announce themselves under
    WorkspaceIds,       \* workspace identifiers
    Docs,               \* document URIs
    MaxEpoch,           \* bound on workspaceEpoch, unbounded in the code
    None                \* an absent Map entry or optional field

ASSUME BaseConstants ==
    /\ MaxEpoch \in Nat
    /\ ConsumerSessions \cap AdapterSessions = {}
    /\ None \notin ConsumerSessions \cup AdapterSessions \cup AdapterIds \cup WorkspaceIds \cup Docs

SessionIds == ConsumerSessions \cup AdapterSessions

Epochs == 0 .. MaxEpoch

=============================================================================
