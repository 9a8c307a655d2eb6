--------------------------- MODULE SessionRegistry ---------------------------
(***************************************************************************)
(* The daemon's registry of sessions, adapters and workspaces              *)
(* (packages/bridge-daemon/src/session/session-registry.ts).               *)
(*                                                                         *)
(* The four Maps of the class become total functions: an absent key is     *)
(* None.  `sessions' also remembers that an identifier was used up: the    *)
(* handshake draws 18 random bytes for each session, so an identifier is   *)
(* never issued twice.                                                     *)
(*                                                                         *)
(* Every method is an operator with its refusal (the SessionRegistryError  *)
(* it throws) given by a ...Refusal operator: "ok" means it does not throw. *)
(* A refused method changes nothing.                                       *)
(***************************************************************************)
EXTENDS BridgeBase

CONSTANTS
    ReadinessStates,    \* values of WorkspaceStatus.state
    RootSets,           \* the root lists adapters announce, as the documents inside
    TrustLevels,        \* is a workspace announced as trusted
    Offers              \* do adapters announce the capabilities asked for

ASSUME RegistryConstants ==
    /\ "initializing" \in ReadinessStates
    /\ RootSets \subseteq SUBSET Docs
    /\ TrustLevels \subseteq BOOLEAN
    /\ Offers \subseteq BOOLEAN

VARIABLES
    sessions,           \* SessionId -> not yet issued, open, or closed
    adapters,           \* AdapterId -> session that registered it
    adapterBySession,   \* SessionId -> adapter it registered
    capable,            \* AdapterId -> does it offer the capabilities it is asked for
    workspaces          \* WorkspaceId -> WorkspaceRecord

registryVars == <<sessions, adapters, adapterBySession, capable, workspaces>>

\* A workspace: its adapter, its roots (as the documents they contain), its
\* epoch, its trust, and the readiness state of its WorkspaceStatus.
Workspace ==
    [adapter : AdapterIds, roots : RootSets, epoch : Epochs, trusted : TrustLevels,
     state : ReadinessStates]

\* An absent entry is no record.
ASSUME NoneIsNoWorkspace == None \notin Workspace

RegistryTypeOK ==
    /\ sessions \in [SessionIds -> {"fresh", "open", "closed"}]
    /\ adapters \in [AdapterIds -> SessionIds \cup {None}]
    /\ adapterBySession \in [SessionIds -> AdapterIds \cup {None}]
    /\ capable \in [AdapterIds -> BOOLEAN]
    /\ workspaces \in [WorkspaceIds -> Workspace \cup {None}]

RegistryInit ==
    /\ sessions = [s \in SessionIds |-> "fresh"]
    /\ adapters = [a \in AdapterIds |-> None]
    /\ adapterBySession = [s \in SessionIds |-> None]
    /\ capable = [a \in AdapterIds |-> FALSE]
    /\ workspaces = [w \in WorkspaceIds |-> None]

-----------------------------------------------------------------------------
(* Lookups.                                                                *)

IsOpen(s) == sessions[s] = "open"

WorkspacesOf(a) == {w \in WorkspaceIds : workspaces[w] # None /\ workspaces[w].adapter = a}

\* assertAdapterOwnership
AdapterOwnership(s, a) ==
    IF adapters[a] = None THEN "ADAPTER_NOT_FOUND"
    ELSE IF adapters[a] # s THEN "PERMISSION_DENIED"
    ELSE "ok"

\* assertWorkspaceOwnership
WorkspaceOwnership(s, w) ==
    IF workspaces[w] = None THEN "WORKSPACE_NOT_FOUND"
    ELSE AdapterOwnership(s, workspaces[w].adapter)

\* getWorkspaceConnection: what it throws, and the session it finds.
WorkspaceConnectionRefusal(w) ==
    IF workspaces[w] = None THEN "WORKSPACE_NOT_FOUND"
    ELSE IF adapters[workspaces[w].adapter] = None THEN "ADAPTER_NOT_FOUND"
    ELSE IF ~IsOpen(adapters[workspaces[w].adapter]) THEN "ADAPTER_NOT_FOUND"
    ELSE "ok"

OwnerSession(w) == adapters[workspaces[w].adapter]

-----------------------------------------------------------------------------
(* Methods that change the registry.                                       *)

NewWorkspace(a, docs, e, t) ==
    [adapter |-> a, roots |-> docs, epoch |-> e, trusted |-> t, state |-> "initializing"]

OpenSession(s) ==
    /\ sessions[s] = "fresh"
    /\ sessions' = [sessions EXCEPT ![s] = "open"]
    /\ UNCHANGED <<adapters, adapterBySession, capable, workspaces>>

RegisterRefusal(s, a, ws) ==
    IF s \notin AdapterSessions \/ ~IsOpen(s) THEN "PERMISSION_DENIED"
    ELSE IF \/ adapterBySession[s] # None
            \/ adapters[a] # None
            \/ \E w \in ws : workspaces[w] # None
    THEN "PRECONDITION_FAILED"
    ELSE "ok"

RegisterAdapter(s, a, ws, docs, e, t, offer) ==
    /\ RegisterRefusal(s, a, ws) = "ok"
    /\ adapters' = [adapters EXCEPT ![a] = s]
    /\ adapterBySession' = [adapterBySession EXCEPT ![s] = a]
    /\ capable' = [capable EXCEPT ![a] = offer]
    /\ workspaces' = [w \in WorkspaceIds |->
                        IF w \in ws THEN NewWorkspace(a, docs, e, t) ELSE workspaces[w]]
    /\ UNCHANGED sessions

\* Mistake: #adapterBySession keeps its entry.
RemoveAdapterKeepsSession(a) ==
    /\ workspaces' = [w \in WorkspaceIds |-> IF w \in WorkspacesOf(a) THEN None ELSE workspaces[w]]
    /\ adapters' = [adapters EXCEPT ![a] = None]
    /\ UNCHANGED adapterBySession

\* Mistake: the workspaces of the adapter stay listed.
RemoveAdapterKeepsWorkspaces(a) ==
    /\ adapterBySession' = [adapterBySession EXCEPT ![adapters[a]] = None]
    /\ adapters' = [adapters EXCEPT ![a] = None]
    /\ UNCHANGED workspaces

\* #removeAdapter: the adapter and every workspace it owns, at once.
RemoveAdapter(a) ==
    /\ workspaces' = [w \in WorkspaceIds |-> IF w \in WorkspacesOf(a) THEN None ELSE workspaces[w]]
    /\ adapterBySession' = [adapterBySession EXCEPT ![adapters[a]] = None]
    /\ adapters' = [adapters EXCEPT ![a] = None]

UnregisterAdapter(s, a) ==
    /\ AdapterOwnership(s, a) = "ok"
    /\ RemoveAdapter(a)
    /\ UNCHANGED <<sessions, capable>>

CloseSession(s) ==
    /\ IsOpen(s)
    /\ sessions' = [sessions EXCEPT ![s] = "closed"]
    /\ \/ /\ adapterBySession[s] = None
          /\ UNCHANGED <<adapters, adapterBySession, workspaces>>
       \/ /\ adapterBySession[s] # None
          /\ RemoveAdapter(adapterBySession[s])
    /\ UNCHANGED capable

UpdateCapabilities(s, a, c) ==
    /\ AdapterOwnership(s, a) = "ok"
    /\ capable' = [capable EXCEPT ![a] = c]
    /\ UNCHANGED <<sessions, adapters, adapterBySession, workspaces>>

OpenWorkspaceRefusal(s, w, a) ==
    IF AdapterOwnership(s, a) # "ok" THEN AdapterOwnership(s, a)
    ELSE IF workspaces[w] # None THEN "PRECONDITION_FAILED"
    ELSE "ok"

OpenWorkspace(s, w, a, docs, e, t) ==
    /\ OpenWorkspaceRefusal(s, w, a) = "ok"
    /\ workspaces' = [workspaces EXCEPT ![w] = NewWorkspace(a, docs, e, t)]
    /\ UNCHANGED <<sessions, adapters, adapterBySession, capable>>

\* closeWorkspace, updateWorkspaceRoots and updateWorkspaceTrust name the
\* adapter besides the workspace: both must be the caller's own.
NamedWorkspaceRefusal(s, w, a) ==
    IF AdapterOwnership(s, a) # "ok" THEN AdapterOwnership(s, a)
    ELSE IF workspaces[w] = None THEN "WORKSPACE_NOT_FOUND"
    ELSE IF workspaces[w].adapter # a THEN "PERMISSION_DENIED"
    ELSE "ok"

CloseWorkspace(s, w, a) ==
    /\ NamedWorkspaceRefusal(s, w, a) = "ok"
    /\ workspaces' = [workspaces EXCEPT ![w] = None]
    /\ UNCHANGED <<sessions, adapters, adapterBySession, capable>>

UpdateRootsRefusal(s, w, a, e) ==
    IF NamedWorkspaceRefusal(s, w, a) # "ok" THEN NamedWorkspaceRefusal(s, w, a)
    ELSE IF e <= workspaces[w].epoch THEN "PRECONDITION_FAILED"
    ELSE "ok"

UpdateWorkspaceRoots(s, w, a, docs, e) ==
    /\ UpdateRootsRefusal(s, w, a, e) = "ok"
    /\ workspaces' = [workspaces EXCEPT ![w].roots = docs, ![w].epoch = e]
    /\ UNCHANGED <<sessions, adapters, adapterBySession, capable>>

UpdateWorkspaceStatus(s, w, st) ==
    /\ WorkspaceOwnership(s, w) = "ok"
    /\ workspaces' = [workspaces EXCEPT ![w].state = st]
    /\ UNCHANGED <<sessions, adapters, adapterBySession, capable>>

UpdateWorkspaceTrust(s, w, a, t) ==
    /\ NamedWorkspaceRefusal(s, w, a) = "ok"
    /\ workspaces' = [workspaces EXCEPT ![w].trusted = t]
    /\ UNCHANGED <<sessions, adapters, adapterBySession, capable>>

-----------------------------------------------------------------------------
(* The registry driven by any sequence of calls.                           *)

RegistryNext ==
    \/ \E s \in SessionIds : OpenSession(s)
    \/ \E s \in SessionIds : CloseSession(s)
    \/ \E s \in SessionIds, a \in AdapterIds, ws \in SUBSET WorkspaceIds,
          docs \in RootSets, e \in Epochs, t \in TrustLevels, offer \in Offers :
            RegisterAdapter(s, a, ws, docs, e, t, offer)
    \/ \E s \in SessionIds, a \in AdapterIds : UnregisterAdapter(s, a)
    \/ \E s \in SessionIds, a \in AdapterIds, c \in Offers : UpdateCapabilities(s, a, c)
    \/ \E s \in SessionIds, w \in WorkspaceIds, a \in AdapterIds,
          docs \in RootSets, e \in Epochs, t \in TrustLevels :
            OpenWorkspace(s, w, a, docs, e, t)
    \/ \E s \in SessionIds, w \in WorkspaceIds, a \in AdapterIds : CloseWorkspace(s, w, a)
    \/ \E s \in SessionIds, w \in WorkspaceIds, a \in AdapterIds,
          docs \in RootSets, e \in Epochs :
            UpdateWorkspaceRoots(s, w, a, docs, e)
    \/ \E s \in SessionIds, w \in WorkspaceIds, st \in ReadinessStates :
            UpdateWorkspaceStatus(s, w, st)
    \/ \E s \in SessionIds, w \in WorkspaceIds, a \in AdapterIds, t \in TrustLevels :
            UpdateWorkspaceTrust(s, w, a, t)

RegistrySpec == RegistryInit /\ [][RegistryNext]_registryVars

-----------------------------------------------------------------------------
(* Properties.                                                             *)

\* #adapters and #adapterBySession are two indexes of one relation, kept by
\* three methods: each is the inverse of the other at all times, so a session
\* never holds two adapters and closing it never leaves one behind.
IndexesAgree ==
    /\ \A a \in AdapterIds : adapters[a] # None => adapterBySession[adapters[a]] = a
    /\ \A s \in SessionIds : adapterBySession[s] # None => adapters[adapterBySession[s]] = s

\* A registered adapter belongs to a session that is still open in the adapter
\* role.
AdaptersConnected ==
    \A a \in AdapterIds : adapters[a] # None => adapters[a] \in AdapterSessions /\ IsOpen(adapters[a])

\* getWorkspaceConnection can only fail with WORKSPACE_NOT_FOUND: a workspace
\* that is listed always has a registered adapter and an open connection, so
\* no order of closing, unregistering and reopening strands one.
WorkspacesReachable ==
    \A w \in WorkspaceIds : workspaces[w] # None => WorkspaceConnectionRefusal(w) = "ok"

\* While a workspace stays registered its epoch never goes back and it never
\* passes to another adapter: plans and symbol handles are judged stale by
\* comparing the epoch, and authority by the adapter.
EpochMonotone ==
    [][\A w \in WorkspaceIds :
        /\ workspaces[w] # None
        /\ workspaces'[w] # None
        => /\ workspaces'[w].epoch >= workspaces[w].epoch
           /\ workspaces'[w].adapter = workspaces[w].adapter]_registryVars

=============================================================================
