--------------------------- MODULE DaemonStateProofs ---------------------------
(***************************************************************************)
(* Proofs about what the daemon keeps: the session registry, for every set *)
(* of sessions, adapters and workspaces, and the edit store, for every     *)
(* number of plans and tokens, every capacity and every clock.             *)
(*                                                                         *)
(* The invariant of the registry joins the type invariant and the safety   *)
(* invariants with OwnersRegistered: WorkspacesReachable speaks of the     *)
(* session of a workspace's adapter, and needs to know that the adapter of *)
(* a listed workspace is registered before it can use AdaptersConnected.   *)
(*                                                                         *)
(* The store keeps plans and undo tokens side by side, and every method    *)
(* acts on each side in one of four ways: it leaves it alone, retires      *)
(* entries, checks one out, or creates one.  The lemmas are one for each   *)
(* way and side; the theorem about a method cites the two it needs.        *)
(* ReservationsExact is not inductive alone: that a retired plan's key is  *)
(* free afterwards, and that no other plan loses its key with it, needs    *)
(* KeysUnique; and that a retired plan is not also out with the caller     *)
(* needs OneShot.                                                          *)
(***************************************************************************)
EXTENDS SessionRegistry, EditStore, TLAPS

\* The adapter of a listed workspace is registered.
OwnersRegistered ==
    \A w \in WorkspaceIds : workspaces[w] # None => adapters[workspaces[w].adapter] # None

RegistryInvariant ==
    /\ RegistryTypeOK
    /\ IndexesAgree
    /\ AdaptersConnected
    /\ OwnersRegistered

-----------------------------------------------------------------------------
(* What the helpers yield.                                                 *)

\* A workspace an adapter announces is a well formed record of that adapter
\* (#addWorkspace).
LEMMA NewWorkspaceType ==
    ASSUME NEW a \in AdapterIds, NEW docs \in RootSets, NEW e \in Epochs, NEW t \in TrustLevels
    PROVE  /\ NewWorkspace(a, docs, e, t) \in Workspace
           /\ NewWorkspace(a, docs, e, t).adapter = a
  BY RegistryConstants DEF NewWorkspace, Workspace

\* A session that passes assertAdapterOwnership is the one that registered the
\* adapter.
LEMMA OwnershipMeansRegistered ==
    ASSUME NEW s, NEW a, s # None, AdapterOwnership(s, a) = "ok"
    PROVE  adapters[a] = s /\ adapters[a] # None
  BY DEF AdapterOwnership

\* Removing a registered adapter keeps every index consistent and leaves no
\* workspace behind, whether or not its session is closed in the same step.
LEMMA RemoveAdapterKeepsInvariant ==
    ASSUME RegistryInvariant,
           NEW a \in AdapterIds, adapters[a] # None,
           RemoveAdapter(a), UNCHANGED capable,
           \/ UNCHANGED sessions
           \/ sessions' = [sessions EXCEPT ![adapters[a]] = "closed"]
    PROVE  RegistryInvariant'
PROOF
  <1> DEFINE s == adapters[a]
  <1> USE DEF RegistryInvariant
  <1>1. /\ s \in SessionIds
        /\ adapterBySession[s] = a
    BY DEF RegistryTypeOK, IndexesAgree
  <1>2. \A b \in AdapterIds : b # a => adapters[b] # s
    BY <1>1, BaseConstants DEF IndexesAgree
  <1>3. RegistryTypeOK'
    <2>1. sessions' \in [SessionIds -> {"fresh", "open", "closed"}]
      BY <1>1 DEF RegistryTypeOK
    <2>2. adapters' \in [AdapterIds -> SessionIds \cup {None}]
      BY DEF RegistryTypeOK, RemoveAdapter
    <2>3. adapterBySession' \in [SessionIds -> AdapterIds \cup {None}]
      BY DEF RegistryTypeOK, RemoveAdapter
    <2>4. workspaces' \in [WorkspaceIds -> Workspace \cup {None}]
      BY DEF RegistryTypeOK, RemoveAdapter
    <2> QED BY <2>1, <2>2, <2>3, <2>4 DEF RegistryTypeOK
  <1>4. IndexesAgree'
    BY <1>1, <1>2 DEF IndexesAgree, RegistryTypeOK, RemoveAdapter
  <1>5. AdaptersConnected'
    BY <1>1, <1>2 DEF AdaptersConnected, RegistryTypeOK, RemoveAdapter, IsOpen
  <1>6. OwnersRegistered'
    <2> SUFFICES ASSUME NEW w \in WorkspaceIds, workspaces'[w] # None
                 PROVE  adapters'[workspaces'[w].adapter] # None
      BY DEF OwnersRegistered
    <2>1. /\ workspaces'[w] = workspaces[w]
          /\ workspaces[w].adapter # a
      BY DEF RemoveAdapter, WorkspacesOf
    <2>2. workspaces[w].adapter \in AdapterIds
      BY <2>1, NoneIsNoWorkspace DEF RegistryTypeOK, Workspace
    <2> QED BY <2>1, <2>2 DEF RemoveAdapter, OwnersRegistered, RegistryTypeOK
  <1> QED BY <1>3, <1>4, <1>5, <1>6

-----------------------------------------------------------------------------
(* The registry's indexes at all times.                                    *)

\* Every method of the registry keeps the invariant.
LEMMA StepKeepsInvariant ==
    ASSUME RegistryInvariant, [RegistryNext]_registryVars
    PROVE  RegistryInvariant'
PROOF
  <1> USE DEF RegistryInvariant
  <1>1. ASSUME NEW s \in SessionIds, OpenSession(s)
        PROVE  RegistryInvariant'
    BY <1>1 DEF OpenSession, RegistryTypeOK, IndexesAgree, AdaptersConnected, OwnersRegistered, IsOpen
  <1>2. ASSUME NEW s \in SessionIds, CloseSession(s)
        PROVE  RegistryInvariant'
    <2>1. CASE adapterBySession[s] = None
      <3>1. UNCHANGED <<adapters, adapterBySession, capable, workspaces>>
        BY <1>2, <2>1 DEF CloseSession
      <3>2. \A a \in AdapterIds : adapters[a] # s
        BY <2>1, BaseConstants DEF IndexesAgree, SessionIds
      <3> QED BY <1>2, <3>1, <3>2 DEF CloseSession, RegistryTypeOK, IndexesAgree, AdaptersConnected, OwnersRegistered, IsOpen
    <2>2. CASE adapterBySession[s] # None
      <3>1. /\ adapterBySession[s] \in AdapterIds
            /\ adapters[adapterBySession[s]] = s
            /\ s # None
        BY <2>2, BaseConstants DEF IndexesAgree, RegistryTypeOK, SessionIds
      <3>2. /\ RemoveAdapter(adapterBySession[s])
            /\ UNCHANGED capable
            /\ sessions' = [sessions EXCEPT ![s] = "closed"]
        BY <1>2, <2>2 DEF CloseSession
      <3> QED BY <3>1, <3>2, RemoveAdapterKeepsInvariant
    <2> QED BY <2>1, <2>2
  <1>3. ASSUME NEW s \in SessionIds, NEW a \in AdapterIds, NEW ws \in SUBSET WorkspaceIds,
               NEW docs \in RootSets, NEW e \in Epochs, NEW t \in TrustLevels,
               NEW offer \in Offers, RegisterAdapter(s, a, ws, docs, e, t, offer)
        PROVE  RegistryInvariant'
    <2>1. /\ s \in AdapterSessions /\ IsOpen(s)
          /\ adapterBySession[s] = None
          /\ adapters[a] = None
          /\ \A w \in ws : workspaces[w] = None
      BY <1>3 DEF RegisterAdapter, RegisterRefusal
    <2>2. s # None
      BY BaseConstants DEF SessionIds
    <2>3. \A w \in WorkspaceIds :
            workspaces'[w] = IF w \in ws THEN NewWorkspace(a, docs, e, t) ELSE workspaces[w]
      BY <1>3 DEF RegisterAdapter
    <2>4. RegistryTypeOK'
      <3>1. workspaces' \in [WorkspaceIds -> Workspace \cup {None}]
        BY <1>3, NewWorkspaceType DEF RegisterAdapter, RegistryTypeOK
      <3> QED BY <1>3, <3>1, RegistryConstants DEF RegisterAdapter, RegistryTypeOK
    <2>5. IndexesAgree'
      <3>1. /\ adapters' = [adapters EXCEPT ![a] = s]
            /\ adapterBySession' = [adapterBySession EXCEPT ![s] = a]
        BY <1>3 DEF RegisterAdapter
      <3>2. \A b \in AdapterIds : adapters[b] # s
        BY <2>1, <2>2, BaseConstants DEF IndexesAgree
      <3>3. \A r \in SessionIds : adapterBySession[r] # a
        BY <2>1, BaseConstants DEF IndexesAgree, SessionIds
      <3> QED BY <3>1, <3>2, <3>3 DEF RegistryTypeOK, IndexesAgree
    <2>6. AdaptersConnected'
      BY <1>3, <2>1 DEF RegisterAdapter, RegistryTypeOK, AdaptersConnected, IsOpen
    <2>7. OwnersRegistered'
      <3> SUFFICES ASSUME NEW w \in WorkspaceIds, workspaces'[w] # None
                   PROVE  adapters'[workspaces'[w].adapter] # None
        BY DEF OwnersRegistered
      <3>1. adapters' = [adapters EXCEPT ![a] = s]
        BY <1>3 DEF RegisterAdapter
      <3>2. CASE w \in ws
        BY <2>2, <2>3, <3>1, <3>2, NewWorkspaceType DEF RegistryTypeOK
      <3>3. CASE w \notin ws
        <4>1. workspaces'[w] = workspaces[w]
          BY <2>3, <3>3
        <4>2. workspaces[w].adapter \in AdapterIds
          BY <4>1 DEF RegistryTypeOK, Workspace
        <4> QED BY <2>1, <3>1, <4>1, <4>2 DEF OwnersRegistered, RegistryTypeOK
      <3> QED BY <3>2, <3>3
    <2> QED BY <2>4, <2>5, <2>6, <2>7
  <1>4. ASSUME NEW s \in SessionIds, NEW a \in AdapterIds, UnregisterAdapter(s, a)
        PROVE  RegistryInvariant'
    <2>1. adapters[a] # None
      BY <1>4, BaseConstants, OwnershipMeansRegistered DEF UnregisterAdapter, SessionIds
    <2> QED BY <1>4, <2>1, RemoveAdapterKeepsInvariant DEF UnregisterAdapter
  <1>5. ASSUME NEW s \in SessionIds, NEW a \in AdapterIds, NEW c \in Offers,
               UpdateCapabilities(s, a, c)
        PROVE  RegistryInvariant'
    BY <1>5, RegistryConstants
       DEF UpdateCapabilities, RegistryTypeOK, IndexesAgree, AdaptersConnected, OwnersRegistered, IsOpen
  <1>6. ASSUME NEW s \in SessionIds, NEW w \in WorkspaceIds, NEW a \in AdapterIds,
               NEW docs \in RootSets, NEW e \in Epochs, NEW t \in TrustLevels,
               OpenWorkspace(s, w, a, docs, e, t)
        PROVE  RegistryInvariant'
    <2>1. adapters[a] # None
      BY <1>6, BaseConstants, OwnershipMeansRegistered
         DEF OpenWorkspace, OpenWorkspaceRefusal, SessionIds
    <2>2. RegistryTypeOK'
      BY <1>6, NewWorkspaceType DEF OpenWorkspace, RegistryTypeOK
    <2>3. OwnersRegistered'
      BY <1>6, <2>1, NewWorkspaceType DEF OpenWorkspace, OwnersRegistered, RegistryTypeOK
    <2> QED BY <1>6, <2>2, <2>3 DEF OpenWorkspace, IndexesAgree, AdaptersConnected, IsOpen
  <1>7. ASSUME NEW s \in SessionIds, NEW w \in WorkspaceIds, NEW a \in AdapterIds,
               CloseWorkspace(s, w, a)
        PROVE  RegistryInvariant'
    BY <1>7 DEF CloseWorkspace, RegistryTypeOK, IndexesAgree, AdaptersConnected, OwnersRegistered, IsOpen
  <1>8. ASSUME NEW s \in SessionIds, NEW w \in WorkspaceIds, NEW a \in AdapterIds,
               NEW docs \in RootSets, NEW e \in Epochs, UpdateWorkspaceRoots(s, w, a, docs, e)
        PROVE  RegistryInvariant'
    <2>1. workspaces[w] \in Workspace
      BY <1>8 DEF UpdateWorkspaceRoots, UpdateRootsRefusal, NamedWorkspaceRefusal, RegistryTypeOK
    <2>2. workspaces' = [workspaces EXCEPT ![w] = [workspaces[w] EXCEPT !.roots = docs, !.epoch = e]]
      BY <1>8, <2>1 DEF UpdateWorkspaceRoots, RegistryTypeOK, Workspace
    <2>3. RegistryTypeOK'
      BY <1>8, <2>1, <2>2 DEF UpdateWorkspaceRoots, RegistryTypeOK, Workspace
    <2>4. OwnersRegistered'
      BY <1>8, <2>1, <2>2, NoneIsNoWorkspace DEF UpdateWorkspaceRoots, RegistryTypeOK, Workspace, OwnersRegistered
    <2> QED BY <1>8, <2>3, <2>4 DEF UpdateWorkspaceRoots, IndexesAgree, AdaptersConnected, IsOpen
  <1>9. ASSUME NEW s \in SessionIds, NEW w \in WorkspaceIds, NEW st \in ReadinessStates,
               UpdateWorkspaceStatus(s, w, st)
        PROVE  RegistryInvariant'
    <2>1. workspaces[w] \in Workspace
      BY <1>9 DEF UpdateWorkspaceStatus, WorkspaceOwnership, RegistryTypeOK
    <2>2. RegistryTypeOK'
      BY <1>9, <2>1 DEF UpdateWorkspaceStatus, RegistryTypeOK, Workspace
    <2>3. OwnersRegistered'
      BY <1>9, <2>1, NoneIsNoWorkspace DEF UpdateWorkspaceStatus, RegistryTypeOK, Workspace, OwnersRegistered
    <2> QED BY <1>9, <2>2, <2>3 DEF UpdateWorkspaceStatus, IndexesAgree, AdaptersConnected, IsOpen
  <1>10. ASSUME NEW s \in SessionIds, NEW w \in WorkspaceIds, NEW a \in AdapterIds,
                NEW t \in TrustLevels, UpdateWorkspaceTrust(s, w, a, t)
         PROVE  RegistryInvariant'
    <2>1. workspaces[w] \in Workspace
      BY <1>10 DEF UpdateWorkspaceTrust, NamedWorkspaceRefusal, RegistryTypeOK
    <2>2. RegistryTypeOK'
      BY <1>10, <2>1 DEF UpdateWorkspaceTrust, RegistryTypeOK, Workspace
    <2>3. OwnersRegistered'
      BY <1>10, <2>1, NoneIsNoWorkspace DEF UpdateWorkspaceTrust, RegistryTypeOK, Workspace, OwnersRegistered
    <2> QED BY <1>10, <2>2, <2>3 DEF UpdateWorkspaceTrust, IndexesAgree, AdaptersConnected, IsOpen
  <1>11. CASE UNCHANGED registryVars
    BY <1>11 DEF registryVars, RegistryTypeOK, IndexesAgree, AdaptersConnected, OwnersRegistered, IsOpen
  <1> QED
    BY <1>1, <1>2, <1>3, <1>4, <1>5, <1>6, <1>7, <1>8, <1>9, <1>10, <1>11 DEF RegistryNext

\* The registry starts consistent.
LEMMA InitInvariant == RegistryInit => RegistryInvariant
  BY DEF RegistryInit, RegistryInvariant, RegistryTypeOK, IndexesAgree, AdaptersConnected, OwnersRegistered

\* The invariant holds in every reachable state of the registry.
THEOREM RegistryInvariantAlways == RegistrySpec => []RegistryInvariant
  BY InitInvariant, StepKeepsInvariant, PTL DEF RegistrySpec

\* The Maps of the registry keep their types under every sequence of calls.
THEOREM RegistryTypes == RegistrySpec => []RegistryTypeOK
PROOF
  <1>1. RegistryInvariant => RegistryTypeOK
    BY DEF RegistryInvariant
  <1> QED BY <1>1, RegistryInvariantAlways, PTL

\* #adapters and #adapterBySession stay inverse to each other.
THEOREM RegistryIndexes == RegistrySpec => []IndexesAgree
PROOF
  <1>1. RegistryInvariant => IndexesAgree
    BY DEF RegistryInvariant
  <1> QED BY <1>1, RegistryInvariantAlways, PTL

\* A registered adapter has an open session in the adapter role.
THEOREM RegistryConnections == RegistrySpec => []AdaptersConnected
PROOF
  <1>1. RegistryInvariant => AdaptersConnected
    BY DEF RegistryInvariant
  <1> QED BY <1>1, RegistryInvariantAlways, PTL

\* getWorkspaceConnection never fails for a listed workspace.
THEOREM RegistryReachability == RegistrySpec => []WorkspacesReachable
PROOF
  <1>1. RegistryInvariant => WorkspacesReachable
    <2> SUFFICES ASSUME RegistryInvariant, NEW w \in WorkspaceIds, workspaces[w] # None
                 PROVE  WorkspaceConnectionRefusal(w) = "ok"
      BY DEF WorkspacesReachable
    <2>1. workspaces[w].adapter \in AdapterIds
      BY DEF RegistryInvariant, RegistryTypeOK, Workspace
    <2>2. adapters[workspaces[w].adapter] # None
      BY DEF RegistryInvariant, OwnersRegistered
    <2>3. IsOpen(adapters[workspaces[w].adapter])
      BY <2>1, <2>2 DEF RegistryInvariant, AdaptersConnected
    <2> QED BY <2>2, <2>3 DEF WorkspaceConnectionRefusal
  <1> QED BY <1>1, RegistryInvariantAlways, PTL

-----------------------------------------------------------------------------
(* Workspaces across a step.                                               *)

\* A workspace that is listed before and after a step of the registry keeps its
\* adapter and its epoch does not go back.
LEMMA StepKeepsOwner ==
    ASSUME RegistryInvariant, [RegistryNext]_registryVars,
           NEW w \in WorkspaceIds, workspaces[w] # None, workspaces'[w] # None
    PROVE  /\ workspaces'[w].epoch >= workspaces[w].epoch
           /\ workspaces'[w].adapter = workspaces[w].adapter
PROOF
  <1>1. workspaces[w] \in Workspace /\ workspaces[w].epoch \in Nat
    BY BaseConstants DEF RegistryInvariant, RegistryTypeOK, Workspace, Epochs
  <1>2. workspaces \in [WorkspaceIds -> Workspace \cup {None}]
    BY DEF RegistryInvariant, RegistryTypeOK
  <1>3. CASE workspaces'[w] = workspaces[w]
    BY <1>1, <1>3
  <1>4. ASSUME NEW s \in SessionIds, CloseSession(s)
        PROVE  workspaces'[w] = workspaces[w]
    BY <1>4 DEF CloseSession, RemoveAdapter
  <1>5. ASSUME NEW s \in SessionIds, NEW a \in AdapterIds, NEW ws \in SUBSET WorkspaceIds,
               NEW docs \in RootSets, NEW e \in Epochs, NEW t \in TrustLevels,
               NEW offer \in Offers, RegisterAdapter(s, a, ws, docs, e, t, offer)
        PROVE  workspaces'[w] = workspaces[w]
    BY <1>5 DEF RegisterAdapter, RegisterRefusal
  <1>6. ASSUME NEW s \in SessionIds, NEW a \in AdapterIds, UnregisterAdapter(s, a)
        PROVE  workspaces'[w] = workspaces[w]
    BY <1>6 DEF UnregisterAdapter, RemoveAdapter
  <1>7. ASSUME NEW s \in SessionIds, NEW v \in WorkspaceIds, NEW a \in AdapterIds,
               NEW docs \in RootSets, NEW e \in Epochs, NEW t \in TrustLevels,
               OpenWorkspace(s, v, a, docs, e, t)
        PROVE  workspaces'[w] = workspaces[w]
    BY <1>2, <1>7 DEF OpenWorkspace, OpenWorkspaceRefusal
  <1>8. ASSUME NEW s \in SessionIds, NEW v \in WorkspaceIds, NEW a \in AdapterIds,
               CloseWorkspace(s, v, a)
        PROVE  workspaces'[w] = workspaces[w]
    BY <1>2, <1>8 DEF CloseWorkspace
  <1>9. ASSUME NEW s \in SessionIds, NEW v \in WorkspaceIds, NEW a \in AdapterIds,
               NEW docs \in RootSets, NEW e \in Epochs, UpdateWorkspaceRoots(s, v, a, docs, e)
        PROVE  /\ workspaces'[w].epoch >= workspaces[w].epoch
               /\ workspaces'[w].adapter = workspaces[w].adapter
    <2>1. CASE v # w
      BY <1>1, <1>2, <1>9, <2>1 DEF UpdateWorkspaceRoots
    <2>2. CASE v = w
      <3>1. workspaces' = [workspaces EXCEPT ![w].roots = docs, ![w].epoch = e]
        BY <1>9, <2>2 DEF UpdateWorkspaceRoots
      <3>2. /\ workspaces'[w].epoch = e
            /\ workspaces'[w].adapter = workspaces[w].adapter
        BY <1>1, <1>2, <3>1 DEF Workspace
      <3>3. e \in Nat /\ ~(e <= workspaces[w].epoch)
        BY <1>9, <2>2, BaseConstants DEF UpdateWorkspaceRoots, UpdateRootsRefusal, Epochs
      <3> QED BY <1>1, <3>2, <3>3
    <2> QED BY <2>1, <2>2
  <1>10. ASSUME NEW s \in SessionIds, NEW v \in WorkspaceIds, NEW st \in ReadinessStates,
                UpdateWorkspaceStatus(s, v, st)
         PROVE  /\ workspaces'[w].epoch >= workspaces[w].epoch
                /\ workspaces'[w].adapter = workspaces[w].adapter
    BY <1>1, <1>2, <1>10 DEF UpdateWorkspaceStatus, Workspace
  <1>11. ASSUME NEW s \in SessionIds, NEW v \in WorkspaceIds, NEW a \in AdapterIds,
                NEW t \in TrustLevels, UpdateWorkspaceTrust(s, v, a, t)
         PROVE  /\ workspaces'[w].epoch >= workspaces[w].epoch
                /\ workspaces'[w].adapter = workspaces[w].adapter
    BY <1>1, <1>2, <1>11 DEF UpdateWorkspaceTrust, Workspace
  <1>12. CASE \/ UNCHANGED registryVars
              \/ \E s \in SessionIds : OpenSession(s)
              \/ \E s \in SessionIds, a \in AdapterIds, c \in Offers : UpdateCapabilities(s, a, c)
    BY <1>3, <1>12 DEF registryVars, OpenSession, UpdateCapabilities
  <1> QED
    BY <1>3, <1>4, <1>5, <1>6, <1>7, <1>8, <1>9, <1>10, <1>11, <1>12 DEF RegistryNext

\* While a workspace stays registered its epoch never goes back and it never
\* passes to another adapter.
THEOREM RegistryEpochs == RegistrySpec => EpochMonotone
PROOF
  <1>1. RegistryInvariant /\ [RegistryNext]_registryVars
          => [\A w \in WorkspaceIds :
                /\ workspaces[w] # None
                /\ workspaces'[w] # None
                => /\ workspaces'[w].epoch >= workspaces[w].epoch
                   /\ workspaces'[w].adapter = workspaces[w].adapter]_registryVars
    BY StepKeepsOwner DEF registryVars
  <1>2. RegistrySpec => [][RegistryNext]_registryVars
    BY DEF RegistrySpec
  <1> QED BY <1>1, <1>2, RegistryInvariantAlways, PTL DEF EpochMonotone

-----------------------------------------------------------------------------
(* The edit store.                                                         *)

PlanSide ==
    /\ plans \in [PlanIds -> StoredPlan \cup {None}]
    /\ held \subseteq StoredPlan
    /\ planSeq \in 0 .. MaxPlans
    /\ internalPlans = {Key(x) : x \in OutstandingPlans}
    /\ \A x, y \in OutstandingPlans : Key(x) = Key(y) => x = y
    /\ \A p \in LivePlans : plans[p].id = p /\ p <= planSeq
    /\ \A x \in held : plans[x.id] = None /\ x.id <= planSeq

TokenSide ==
    /\ undoTokens \in [TokenIds -> StoredUndoToken \cup {None}]
    /\ heldUndo \subseteq StoredUndoToken
    /\ tokenSeq \in 0 .. MaxTokens
    /\ internalUndo = {Key(x) : x \in OutstandingTokens}
    /\ \A x, y \in OutstandingTokens : Key(x) = Key(y) => x = y
    /\ \A t \in LiveTokens : undoTokens[t].id = t /\ t <= tokenSeq
    /\ \A x \in heldUndo : undoTokens[x.id] = None /\ x.id <= tokenSeq

EntryInvariant ==
    /\ PlanSide
    /\ TokenSide
    /\ now \in Times

-----------------------------------------------------------------------------
(* Plans.                                                                  *)

\* A live plan is a stored plan.
LEMMA LivePlansStored ==
    ASSUME PlanSide
    PROVE  /\ \A p \in LivePlans : p \in PlanIds /\ plans[p] \in StoredPlan
           /\ OutstandingPlans \subseteq StoredPlan
  BY DEF PlanSide, LivePlans, OutstandingPlans

\* Retiring live plans (#deletePlan) and releasing held ones (releasePlan) frees
\* exactly their keys.
LEMMA RetirePlans ==
    ASSUME PlanSide,
           NEW ps \in SUBSET LivePlans, NEW rel \in SUBSET held,
           plans' = [p \in PlanIds |-> IF p \in ps THEN None ELSE plans[p]],
           internalPlans' = PlanKeysWithout(ps, rel),
           held' = held \ rel,
           planSeq' = planSeq
    PROVE  PlanSide'
PROOF
  <1> USE DEF PlanSide
  <1>1. plans' \in [PlanIds -> StoredPlan \cup {None}]
    OBVIOUS
  <1>2. LivePlans' = LivePlans \ ps
    BY DEF LivePlans
  <1>3. \A p \in LivePlans' : plans'[p] = plans[p]
    BY <1>2 DEF LivePlans
  <1>4. OutstandingPlans' = {plans[p] : p \in LivePlans \ ps} \cup (held \ rel)
    BY <1>2, <1>3 DEF OutstandingPlans
  <1>5. OutstandingPlans' \subseteq OutstandingPlans
    BY <1>4 DEF OutstandingPlans
  <1>6. internalPlans' = {Key(x)' : x \in OutstandingPlans'}
    <2> DEFINE gone == {plans[p] : p \in ps} \cup rel
    <2>1. internalPlans' = {Key(x) : x \in OutstandingPlans} \ {Key(x) : x \in gone}
      BY DEF PlanKeysWithout
    <2>2. gone \subseteq OutstandingPlans
      BY DEF OutstandingPlans
    <2>3. OutstandingPlans = OutstandingPlans' \cup gone
      BY <1>4 DEF OutstandingPlans
    <2>4. \A x \in OutstandingPlans' : x \notin gone
      <3> SUFFICES ASSUME NEW x \in OutstandingPlans', x \in gone
                   PROVE  FALSE
        OBVIOUS
      <3>1. CASE x \in held \ rel
        <4>1. PICK p \in ps : x = plans[p]
          BY <3>1
        <4> QED BY <3>1, <4>1 DEF LivePlans
      <3>2. CASE x \notin held \ rel
        <4>1. PICK p \in LivePlans \ ps : x = plans[p]
          BY <1>4, <3>2
        <4>2. CASE x \in rel
          BY <4>1, <4>2 DEF LivePlans
        <4>3. CASE x \notin rel
          <5>1. PICK q \in ps : x = plans[q]
            BY <4>3
          <5> QED BY <4>1, <5>1
        <4> QED BY <4>2, <4>3
      <3> QED BY <3>1, <3>2
    <2>5. \A x \in OutstandingPlans', y \in gone : Key(x) # Key(y)
      BY <1>5, <2>2, <2>4
    <2> QED BY <2>1, <2>3, <2>5 DEF Key
  <1>7. \A x, y \in OutstandingPlans' : Key(x)' = Key(y)' => x = y
    BY <1>5 DEF Key
  <1>8. \A p \in LivePlans' : plans'[p].id = p /\ p <= planSeq'
    BY <1>2, <1>3
  <1>9. \A x \in held' : plans'[x.id] = None /\ x.id <= planSeq'
    BY DEF StoredPlan
  <1> QED BY <1>1, <1>6, <1>7, <1>8, <1>9

\* A consumed plan leaves the store with its key still reserved.
LEMMA CheckOutPlan ==
    ASSUME PlanSide, NEW p \in LivePlans, CheckOut(p), planSeq' = planSeq
    PROVE  PlanSide'
PROOF
  <1> USE DEF PlanSide
  <1>1. p \in PlanIds /\ plans[p] \in StoredPlan /\ plans[p].id = p /\ p <= planSeq
    BY LivePlansStored
  <1>2. /\ plans' = [plans EXCEPT ![p] = None]
        /\ held' = held \cup {plans[p]}
        /\ internalPlans' = internalPlans
    BY DEF CheckOut
  <1>3. LivePlans' = LivePlans \ {p}
    BY <1>1, <1>2 DEF LivePlans
  <1>4. \A q \in LivePlans' : plans'[q] = plans[q]
    BY <1>2, <1>3 DEF LivePlans
  <1>5. OutstandingPlans' = OutstandingPlans
    BY <1>2, <1>3, <1>4 DEF OutstandingPlans
  <1>6. internalPlans' = {Key(x)' : x \in OutstandingPlans'}
    BY <1>2, <1>5 DEF Key
  <1>7. \A x, y \in OutstandingPlans' : Key(x)' = Key(y)' => x = y
    BY <1>5 DEF Key
  <1>8. \A q \in LivePlans' : plans'[q].id = q /\ q <= planSeq'
    BY <1>3, <1>4
  <1>9. \A x \in held' : plans'[x.id] = None /\ x.id <= planSeq'
    BY <1>1, <1>2 DEF StoredPlan
  <1> QED BY <1>1, <1>2, <1>6, <1>7, <1>8, <1>9

\* A new plan takes a free key and an identifier no plan had, after the expired
\* ones are swept.
LEMMA AddPlan ==
    ASSUME PlanSide, now \in Times,
           NEW plan \in StoredPlan,
           Key(plan) \notin PlanKeysWithout(SweptPlans, {}),
           CreatePlan(plan)
    PROVE  PlanSide'
PROOF
  <1> DEFINE n == planSeq + 1
             new == Issued(plan, n)
             kept == {plans[p] : p \in LivePlans \ SweptPlans} \cup held
  <1>1. /\ n \in PlanIds /\ planSeq \in Nat
        /\ plans' = [p \in PlanIds |->
                        IF p = n THEN new ELSE IF p \in SweptPlans THEN None ELSE plans[p]]
        /\ internalPlans' = PlanKeysWithout(SweptPlans, {}) \cup {Key(plan)}
        /\ held' = held
        /\ planSeq' = n
    BY StoreConstants DEF CreatePlan, PlanSide, PlanIds
  <1>2. PublicExpiry(plan.expires) \in Deadlines
    BY StoreConstants DEF PublicExpiry, StoredPlan, Deadlines, Times
  <1>3. /\ new \in StoredPlan
        /\ new.id = n
        /\ Key(new) = Key(plan)
    BY <1>1, <1>2 DEF StoredPlan, Key, Issued
  <1>4. /\ SweptPlans \subseteq LivePlans
        /\ LivePlans \subseteq PlanIds
        /\ n \notin LivePlans
    BY <1>1 DEF SweptPlans, LivePlans, PlanSide, PlanIds
  <1>5. LivePlans' = (LivePlans \ SweptPlans) \cup {n}
    BY <1>1, <1>3, <1>4, NoneIsNoEntry DEF LivePlans
  <1>6. /\ \A p \in LivePlans \ SweptPlans : plans'[p] = plans[p]
        /\ plans'[n] = new
    BY <1>1, <1>4
  <1>7. OutstandingPlans' = kept \cup {new}
    BY <1>1, <1>5, <1>6 DEF OutstandingPlans
  <1> HIDE DEF new
  <1>8. kept \subseteq OutstandingPlans
    BY DEF OutstandingPlans
  <1>9. PlanKeysWithout(SweptPlans, {}) = {Key(x) : x \in kept}
    <2> DEFINE gone == {plans[p] : p \in SweptPlans}
    <2>1. PlanKeysWithout(SweptPlans, {}) = {Key(x) : x \in OutstandingPlans} \ {Key(x) : x \in gone}
      BY DEF PlanKeysWithout, PlanSide
    <2>2. gone \subseteq OutstandingPlans /\ OutstandingPlans = kept \cup gone
      BY <1>4 DEF OutstandingPlans
    <2>3. \A x \in kept : x \notin gone
      BY <1>4 DEF PlanSide, LivePlans
    <2>4. \A x \in kept, y \in gone : Key(x) # Key(y)
      BY <1>8, <2>2, <2>3 DEF PlanSide
    <2> QED BY <2>1, <2>2, <2>4
  <1>10. plans' \in [PlanIds -> StoredPlan \cup {None}]
    BY <1>1, <1>3 DEF PlanSide
  <1>11. internalPlans' = {Key(x)' : x \in OutstandingPlans'}
    BY <1>1, <1>3, <1>7, <1>9 DEF Key
  <1>12. \A x, y \in OutstandingPlans' : Key(x)' = Key(y)' => x = y
    <2>1. \A x \in kept : Key(x) # Key(new)
      BY <1>3, <1>9
    <2>2. \A x, y \in kept : Key(x) = Key(y) => x = y
      BY <1>8 DEF PlanSide
    <2> QED BY <1>7, <2>1, <2>2 DEF Key
  <1>13. \A p \in LivePlans' : plans'[p].id = p /\ p <= planSeq'
    BY <1>1, <1>3, <1>4, <1>5, <1>6 DEF PlanSide, PlanIds
  <1>14. \A x \in held' : plans'[x.id] = None /\ x.id <= planSeq'
    <2> SUFFICES ASSUME NEW x \in held
                 PROVE  plans'[x.id] = None /\ x.id <= n
      BY <1>1
    <2>1. x.id \in PlanIds /\ x.id <= planSeq /\ plans[x.id] = None
      BY DEF PlanSide, StoredPlan
    <2> QED BY <1>1, <2>1 DEF PlanIds
  <1>15. planSeq' \in 0 .. MaxPlans /\ held' \subseteq StoredPlan
    BY <1>1, StoreConstants DEF PlanIds, PlanSide
  <1> QED BY <1>10, <1>11, <1>12, <1>13, <1>14, <1>15 DEF PlanSide

-----------------------------------------------------------------------------
(* Undo tokens.                                                            *)

\* A live token is a stored token.
LEMMA LiveTokensStored ==
    ASSUME TokenSide
    PROVE  /\ \A p \in LiveTokens : p \in TokenIds /\ undoTokens[p] \in StoredUndoToken
           /\ OutstandingTokens \subseteq StoredUndoToken
  BY DEF TokenSide, LiveTokens, OutstandingTokens

\* Retiring live tokens and releasing held ones (releaseUndoToken) frees exactly
\* their keys.
LEMMA RetireTokens ==
    ASSUME TokenSide,
           NEW ts \in SUBSET LiveTokens, NEW relUndo \in SUBSET heldUndo,
           undoTokens' = [p \in TokenIds |-> IF p \in ts THEN None ELSE undoTokens[p]],
           internalUndo' = UndoKeysWithout(ts, relUndo),
           heldUndo' = heldUndo \ relUndo,
           tokenSeq' = tokenSeq
    PROVE  TokenSide'
PROOF
  <1> USE DEF TokenSide
  <1>1. undoTokens' \in [TokenIds -> StoredUndoToken \cup {None}]
    OBVIOUS
  <1>2. LiveTokens' = LiveTokens \ ts
    BY DEF LiveTokens
  <1>3. \A p \in LiveTokens' : undoTokens'[p] = undoTokens[p]
    BY <1>2 DEF LiveTokens
  <1>4. OutstandingTokens' = {undoTokens[p] : p \in LiveTokens \ ts} \cup (heldUndo \ relUndo)
    BY <1>2, <1>3 DEF OutstandingTokens
  <1>5. OutstandingTokens' \subseteq OutstandingTokens
    BY <1>4 DEF OutstandingTokens
  <1>6. internalUndo' = {Key(x)' : x \in OutstandingTokens'}
    <2> DEFINE gone == {undoTokens[p] : p \in ts} \cup relUndo
    <2>1. internalUndo' = {Key(x) : x \in OutstandingTokens} \ {Key(x) : x \in gone}
      BY DEF UndoKeysWithout
    <2>2. gone \subseteq OutstandingTokens
      BY DEF OutstandingTokens
    <2>3. OutstandingTokens = OutstandingTokens' \cup gone
      BY <1>4 DEF OutstandingTokens
    <2>4. \A x \in OutstandingTokens' : x \notin gone
      <3> SUFFICES ASSUME NEW x \in OutstandingTokens', x \in gone
                   PROVE  FALSE
        OBVIOUS
      <3>1. CASE x \in heldUndo \ relUndo
        <4>1. PICK p \in ts : x = undoTokens[p]
          BY <3>1
        <4> QED BY <3>1, <4>1 DEF LiveTokens
      <3>2. CASE x \notin heldUndo \ relUndo
        <4>1. PICK p \in LiveTokens \ ts : x = undoTokens[p]
          BY <1>4, <3>2
        <4>2. CASE x \in relUndo
          BY <4>1, <4>2 DEF LiveTokens
        <4>3. CASE x \notin relUndo
          <5>1. PICK q \in ts : x = undoTokens[q]
            BY <4>3
          <5> QED BY <4>1, <5>1
        <4> QED BY <4>2, <4>3
      <3> QED BY <3>1, <3>2
    <2>5. \A x \in OutstandingTokens', y \in gone : Key(x) # Key(y)
      BY <1>5, <2>2, <2>4
    <2> QED BY <2>1, <2>3, <2>5 DEF Key
  <1>7. \A x, y \in OutstandingTokens' : Key(x)' = Key(y)' => x = y
    BY <1>5 DEF Key
  <1>8. \A p \in LiveTokens' : undoTokens'[p].id = p /\ p <= tokenSeq'
    BY <1>2, <1>3
  <1>9. \A x \in heldUndo' : undoTokens'[x.id] = None /\ x.id <= tokenSeq'
    BY DEF StoredUndoToken
  <1> QED BY <1>1, <1>6, <1>7, <1>8, <1>9

\* A consumed token leaves the store with its key still reserved.
LEMMA CheckOutToken ==
    ASSUME TokenSide, NEW p \in LiveTokens,
           undoTokens' = [undoTokens EXCEPT ![p] = None],
           heldUndo' = heldUndo \cup {undoTokens[p]},
           internalUndo' = internalUndo,
           tokenSeq' = tokenSeq
    PROVE  TokenSide'
PROOF
  <1> USE DEF TokenSide
  <1>1. p \in TokenIds /\ undoTokens[p] \in StoredUndoToken /\ undoTokens[p].id = p /\ p <= tokenSeq
    BY LiveTokensStored
  <1>2. LiveTokens' = LiveTokens \ {p}
    BY <1>1 DEF LiveTokens
  <1>3. \A q \in LiveTokens' : undoTokens'[q] = undoTokens[q]
    BY <1>2 DEF LiveTokens
  <1>4. OutstandingTokens' = OutstandingTokens
    BY <1>2, <1>3 DEF OutstandingTokens
  <1>5. internalUndo' = {Key(x)' : x \in OutstandingTokens'}
    BY <1>4 DEF Key
  <1>6. \A x, y \in OutstandingTokens' : Key(x)' = Key(y)' => x = y
    BY <1>4 DEF Key
  <1>7. \A q \in LiveTokens' : undoTokens'[q].id = q /\ q <= tokenSeq'
    BY <1>2, <1>3
  <1>8. \A x \in heldUndo' : undoTokens'[x.id] = None /\ x.id <= tokenSeq'
    BY <1>1 DEF StoredUndoToken
  <1> QED BY <1>1, <1>5, <1>6, <1>7, <1>8

\* A new token takes a free key and an identifier no token had, after the expired
\* ones are swept and the ones the caller is done with are released.
LEMMA AddToken ==
    ASSUME TokenSide, now \in Times,
           NEW token \in StoredUndoToken,
           NEW rel, NEW relUndo \in SUBSET heldUndo,
           Key(token) \notin UndoKeysWithout(SweptTokens, relUndo),
           CreateUndoToken(token, rel, relUndo)
    PROVE  TokenSide'
PROOF
  <1> DEFINE n == tokenSeq + 1
             new == Issued(token, n)
             kept == {undoTokens[p] : p \in LiveTokens \ SweptTokens} \cup (heldUndo \ relUndo)
  <1>1. /\ n \in TokenIds /\ tokenSeq \in Nat
        /\ undoTokens' = [p \in TokenIds |->
                        IF p = n THEN new ELSE IF p \in SweptTokens THEN None ELSE undoTokens[p]]
        /\ internalUndo' = UndoKeysWithout(SweptTokens, relUndo) \cup {Key(token)}
        /\ heldUndo' = heldUndo \ relUndo
        /\ tokenSeq' = n
    BY StoreConstants DEF CreateUndoToken, TokenSide, TokenIds
  <1>2. PublicExpiry(token.expires) \in Deadlines
    BY StoreConstants DEF PublicExpiry, StoredUndoToken, Deadlines, Times
  <1>3. /\ new \in StoredUndoToken
        /\ new.id = n
        /\ Key(new) = Key(token)
    BY <1>1, <1>2 DEF StoredUndoToken, Key, Issued
  <1>4. /\ SweptTokens \subseteq LiveTokens
        /\ LiveTokens \subseteq TokenIds
        /\ n \notin LiveTokens
    BY <1>1 DEF SweptTokens, LiveTokens, TokenSide, TokenIds
  <1>5. LiveTokens' = (LiveTokens \ SweptTokens) \cup {n}
    BY <1>1, <1>3, <1>4, NoneIsNoEntry DEF LiveTokens
  <1>6. /\ \A p \in LiveTokens \ SweptTokens : undoTokens'[p] = undoTokens[p]
        /\ undoTokens'[n] = new
    BY <1>1, <1>4
  <1>7. OutstandingTokens' = kept \cup {new}
    BY <1>1, <1>5, <1>6 DEF OutstandingTokens
  <1> HIDE DEF new
  <1>8. kept \subseteq OutstandingTokens
    BY DEF OutstandingTokens
  <1>9. UndoKeysWithout(SweptTokens, relUndo) = {Key(x) : x \in kept}
    <2> DEFINE gone == {undoTokens[p] : p \in SweptTokens} \cup relUndo
    <2>1. UndoKeysWithout(SweptTokens, relUndo) = {Key(x) : x \in OutstandingTokens} \ {Key(x) : x \in gone}
      BY DEF UndoKeysWithout, TokenSide
    <2>2. gone \subseteq OutstandingTokens /\ OutstandingTokens = kept \cup gone
      BY <1>4 DEF OutstandingTokens
    <2>3. \A x \in kept : x \notin gone
      BY <1>4 DEF TokenSide, LiveTokens
    <2>4. \A x \in kept, y \in gone : Key(x) # Key(y)
      BY <1>8, <2>2, <2>3 DEF TokenSide
    <2> QED BY <2>1, <2>2, <2>4
  <1>10. undoTokens' \in [TokenIds -> StoredUndoToken \cup {None}]
    BY <1>1, <1>3 DEF TokenSide
  <1>11. internalUndo' = {Key(x)' : x \in OutstandingTokens'}
    BY <1>1, <1>3, <1>7, <1>9 DEF Key
  <1>12. \A x, y \in OutstandingTokens' : Key(x)' = Key(y)' => x = y
    <2>1. \A x \in kept : Key(x) # Key(new)
      BY <1>3, <1>9
    <2>2. \A x, y \in kept : Key(x) = Key(y) => x = y
      BY <1>8 DEF TokenSide
    <2> QED BY <1>7, <2>1, <2>2 DEF Key
  <1>13. \A p \in LiveTokens' : undoTokens'[p].id = p /\ p <= tokenSeq'
    BY <1>1, <1>3, <1>4, <1>5, <1>6 DEF TokenSide, TokenIds
  <1>14. \A x \in heldUndo' : undoTokens'[x.id] = None /\ x.id <= tokenSeq'
    <2> SUFFICES ASSUME NEW x \in heldUndo
                 PROVE  undoTokens'[x.id] = None /\ x.id <= n
      BY <1>1
    <2>1. x.id \in TokenIds /\ x.id <= tokenSeq /\ undoTokens[x.id] = None
      BY DEF TokenSide, StoredUndoToken
    <2> QED BY <1>1, <2>1 DEF TokenIds
  <1>15. tokenSeq' \in 0 .. MaxTokens /\ heldUndo' \subseteq StoredUndoToken
    BY <1>1, StoreConstants DEF TokenIds, TokenSide
  <1> QED BY <1>10, <1>11, <1>12, <1>13, <1>14, <1>15 DEF TokenSide

-----------------------------------------------------------------------------
(* The methods of the store.                                               *)

\* Dropping and releasing entries on both sides at once.
LEMMA RetireKeepsInvariant ==
    ASSUME EntryInvariant,
           NEW ps \in SUBSET LivePlans, NEW ts \in SUBSET LiveTokens,
           NEW rel \in SUBSET held, NEW relUndo \in SUBSET heldUndo,
           Retire(ps, ts, rel, relUndo), UNCHANGED <<planSeq, tokenSeq, now>>
    PROVE  EntryInvariant'
PROOF
  <1>1. PlanSide'
    BY RetirePlans DEF EntryInvariant, Retire
  <1>2. TokenSide'
    BY RetireTokens DEF EntryInvariant, Retire
  <1> QED BY <1>1, <1>2 DEF EntryInvariant

\* A step that leaves the plans alone keeps what holds of them.
LEMMA PlansUnchanged ==
    ASSUME PlanSide, UNCHANGED <<plans, internalPlans, held, planSeq>>
    PROVE  PlanSide'
  BY DEF PlanSide, OutstandingPlans, LivePlans, Key

\* The same for undo tokens.
LEMMA TokensUnchanged ==
    ASSUME TokenSide, UNCHANGED <<undoTokens, internalUndo, heldUndo, tokenSeq>>
    PROVE  TokenSide'
  BY DEF TokenSide, OutstandingTokens, LiveTokens, Key

\* Every method of the store keeps the invariant.
LEMMA StoreStepKeepsInvariant ==
    ASSUME EntryInvariant, [StoreNext]_storeVars
    PROVE  EntryInvariant'
PROOF
  <1> USE DEF EntryInvariant
  <1>0. /\ SweptPlans \subseteq LivePlans /\ SweptTokens \subseteq LiveTokens
        /\ {} \subseteq held /\ {} \subseteq heldUndo
    BY DEF SweptPlans, SweptTokens
  <1>1. ASSUME Sweep PROVE EntryInvariant'
    BY <1>0, <1>1, RetireKeepsInvariant DEF Sweep
  <1>2. ASSUME NEW plan \in [id : {1}, consumer : ConsumerSessions, adapter : AdapterSessions,
                    author : AdapterIds, workspace : WorkspaceIds, epoch : Epochs,
                    key : AdapterPlanIds, expires : Deadlines, pre : SUBSET Docs,
                    changes : SUBSET Docs],
               NEW owner \in AdapterIds, NEW foreign \in BOOLEAN, NEW roots \in SUBSET Docs,
               TryCreatePlan(plan, owner, foreign, roots)
        PROVE  EntryInvariant'
    <2>1. CASE CreatePlanRefusal(plan, owner, foreign, roots) = "ok" /\ CreatePlan(plan)
      <3>1. Key(plan) \notin PlanKeysWithout(SweptPlans, {})
        BY <2>1 DEF CreatePlanRefusal
      <3>2. plan \in StoredPlan
        BY <2>1, StoreConstants DEF CreatePlan, PlanSide, StoredPlan, PlanIds
      <3>3. PlanSide'
        BY <2>1, <3>1, <3>2, AddPlan
      <3>4. TokenSide'
        BY <1>0, <2>1, RetireTokens DEF CreatePlan
      <3> QED BY <2>1, <3>3, <3>4 DEF CreatePlan
    <2>2. CASE Sweep
      BY <1>1, <2>2
    <2> QED BY <1>2, <2>1, <2>2 DEF TryCreatePlan
  <1>3. ASSUME NEW token \in [id : {1}, consumer : ConsumerSessions, adapter : AdapterSessions,
                     author : AdapterIds, workspace : WorkspaceIds, key : AdapterTokenIds,
                     expires : Deadlines],
               NEW owner \in AdapterIds, NEW foreign \in BOOLEAN,
               TryCreateUndoToken(token, owner, foreign)
        PROVE  EntryInvariant'
    <2>1. CASE CreateUndoTokenRefusal(token, owner, foreign, {}) = "ok" /\ CreateUndoToken(token, {}, {})
      <3>1. Key(token) \notin UndoKeysWithout(SweptTokens, {})
        BY <2>1 DEF CreateUndoTokenRefusal
      <3>2. token \in StoredUndoToken
        BY <2>1, StoreConstants DEF CreateUndoToken, TokenSide, StoredUndoToken, TokenIds
      <3>3. TokenSide'
        BY <1>0, <2>1, <3>1, <3>2, AddToken
      <3>4. PlanSide'
        BY <1>0, <2>1, RetirePlans DEF CreateUndoToken
      <3> QED BY <2>1, <3>3, <3>4 DEF CreateUndoToken
    <2>2. CASE Sweep
      BY <1>1, <2>2
    <2> QED BY <1>3, <2>1, <2>2 DEF TryCreateUndoToken
  <1>4. ASSUME NEW p \in LivePlans, CheckOut(p), UNCHANGED <<planSeq, tokenSeq, now>>
        PROVE  EntryInvariant'
    BY <1>4, CheckOutPlan, TokensUnchanged DEF CheckOut
  <1>5. ASSUME NEW p \in LivePlans, DropExpired(p), UNCHANGED <<planSeq, tokenSeq, now>>
        PROVE  EntryInvariant'
    BY <1>0, <1>5, RetireKeepsInvariant DEF DropExpired
  <1>6. ASSUME UNCHANGED <<entryVars, planSeq, tokenSeq>>, now' \in Times
        PROVE  EntryInvariant'
    BY <1>6, PlansUnchanged, TokensUnchanged DEF entryVars
  <1>7. ASSUME NEW p \in PlanIds, NEW c \in ConsumerSessions, NEW w \in WorkspaceIds,
               NEW e \in Epochs, ConsumePlan(p, c, w, e)
        PROVE  EntryInvariant'
    <2> DEFINE refusal == ConsumePlanRefusal(p, c, w, e)
    <2>0. UNCHANGED <<planSeq, tokenSeq, now>>
      BY <1>7 DEF ConsumePlan
    <2>1. refusal \in {"ok", "PLAN_EXPIRED"} => p \in LivePlans
      BY DEF ConsumePlanRefusal, Owns, LivePlans
    <2>2. CASE refusal = "ok" /\ CheckOut(p)
      BY <1>4, <2>0, <2>1, <2>2
    <2>3. CASE refusal = "PLAN_EXPIRED" /\ DropExpired(p)
      BY <1>5, <2>0, <2>1, <2>3
    <2>4. CASE UNCHANGED entryVars
      BY <1>6, <2>0, <2>4
    <2> QED BY <1>7, <2>2, <2>3, <2>4 DEF ConsumePlan, TakeReason
  <1>8. ASSUME NEW p \in PlanIds, NEW c \in ConsumerSessions, NEW w \in WorkspaceIds,
               DiscardPlan(p, c, w)
        PROVE  EntryInvariant'
    <2> DEFINE refusal == DiscardPlanRefusal(p, c, w)
    <2>0. UNCHANGED <<planSeq, tokenSeq, now>>
      BY <1>8 DEF DiscardPlan
    <2>1. refusal \in {"ok", "PLAN_EXPIRED"} => p \in LivePlans
      BY DEF DiscardPlanRefusal, Owns, LivePlans
    <2>2. CASE refusal = "ok" /\ CheckOut(p)
      BY <1>4, <2>0, <2>1, <2>2
    <2>3. CASE refusal = "PLAN_EXPIRED" /\ DropExpired(p)
      BY <1>5, <2>0, <2>1, <2>3
    <2>4. CASE UNCHANGED entryVars
      BY <1>6, <2>0, <2>4
    <2> QED BY <1>8, <2>2, <2>3, <2>4 DEF DiscardPlan
  <1>9. ASSUME NEW t \in TokenIds, NEW c \in ConsumerSessions, NEW w \in WorkspaceIds,
               ConsumeUndoToken(t, c, w)
        PROVE  EntryInvariant'
    <2> DEFINE refusal == ConsumeUndoRefusal(t, c, w)
    <2>0. UNCHANGED <<planSeq, tokenSeq, now>>
      BY <1>9 DEF ConsumeUndoToken
    <2>1. refusal \in {"ok", "PLAN_EXPIRED"} => t \in LiveTokens
      BY DEF ConsumeUndoRefusal, LiveTokens
    <2>2. CASE refusal = "ok"
      <3>1. /\ undoTokens' = [undoTokens EXCEPT ![t] = None]
            /\ heldUndo' = heldUndo \cup {undoTokens[t]}
            /\ UNCHANGED <<plans, internalPlans, held, internalUndo>>
        BY <1>9, <2>2 DEF ConsumeUndoToken
      <3> QED BY <2>0, <2>1, <2>2, <3>1, CheckOutToken, PlansUnchanged
    <2>3. CASE refusal = "PLAN_EXPIRED"
      <3>1. Retire({}, {t}, {}, {})
        BY <1>9, <2>3 DEF ConsumeUndoToken
      <3>2. {t} \in SUBSET LiveTokens /\ {} \in SUBSET LivePlans
        BY <2>1, <2>3
      <3> QED BY <1>0, <2>0, <3>1, <3>2, RetireKeepsInvariant
    <2>4. CASE UNCHANGED entryVars
      BY <1>6, <2>0, <2>4
    <2> QED BY <1>9, <2>2, <2>3, <2>4 DEF ConsumeUndoToken
  <1>10. ASSUME NEW rel \in SUBSET held, NEW relUndo \in SUBSET heldUndo, Release(rel, relUndo)
         PROVE  EntryInvariant'
    BY <1>10, RetireKeepsInvariant DEF Release
  <1>11. ASSUME NEW w \in WorkspaceIds, NEW ds \in SUBSET Docs, NEW r \in BOOLEAN,
                InvalidateDocuments(w, ds, r)
         PROVE  EntryInvariant'
    <2>1. PlansOn(w, ds) \in SUBSET LivePlans
      BY DEF PlansOn
    <2> QED BY <1>0, <1>11, <2>1, RetireKeepsInvariant DEF InvalidateDocuments
  <1>12. ASSUME NEW w \in WorkspaceIds, InvalidateWorkspace(w)
         PROVE  EntryInvariant'
    BY <1>0, <1>12, RetireKeepsInvariant DEF InvalidateWorkspace
  <1>13. ASSUME NEW s \in SessionIds, InvalidateSession(s, {}, {})
         PROVE  EntryInvariant'
    BY <1>0, <1>13, RetireKeepsInvariant DEF InvalidateSession
  <1>14. ASSUME CloseStore PROVE EntryInvariant'
    BY <1>14, RetireKeepsInvariant DEF CloseStore
  <1>15. ASSUME Tick PROVE EntryInvariant'
    <2>1. now' \in Times
      BY <1>15, StoreConstants DEF Tick, Times
    <2> QED BY <1>6, <1>15, <2>1 DEF Tick
  <1>16. CASE UNCHANGED storeVars
    BY <1>6, <1>16 DEF storeVars
  <1> QED
    BY <1>1, <1>2, <1>3, <1>7, <1>8, <1>9, <1>10, <1>11, <1>12, <1>13, <1>14, <1>15, <1>16
       DEF StoreNext

\* The store starts empty, with nothing reserved.
LEMMA StoreInitInvariant == StoreInit => EntryInvariant
PROOF
  <1> SUFFICES ASSUME StoreInit PROVE EntryInvariant
    OBVIOUS
  <1> USE DEF StoreInit
  <1>1. LivePlans = {} /\ LiveTokens = {}
    BY DEF LivePlans, LiveTokens
  <1>2. OutstandingPlans = {} /\ OutstandingTokens = {}
    BY <1>1 DEF OutstandingPlans, OutstandingTokens
  <1> QED BY <1>1, <1>2, StoreConstants DEF EntryInvariant, PlanSide, TokenSide, Times

\* The invariant holds in every reachable state of the store.
THEOREM EntryInvariantAlways == StoreSpec => []EntryInvariant
  BY StoreInitInvariant, StoreStepKeepsInvariant, PTL DEF StoreSpec

\* An adapter's identifier is reserved exactly while a plan or token with it is
\* stored or out with the caller.
THEOREM StoreReservations == StoreSpec => []ReservationsExact
PROOF
  <1>1. EntryInvariant => ReservationsExact
    BY DEF EntryInvariant, PlanSide, TokenSide, ReservationsExact
  <1> QED BY <1>1, EntryInvariantAlways, PTL

\* No two outstanding plans or tokens of an adapter session carry one identifier.
THEOREM StoreKeys == StoreSpec => []KeysUnique
PROOF
  <1>1. EntryInvariant => KeysUnique
    BY DEF EntryInvariant, PlanSide, TokenSide, KeysUnique
  <1> QED BY <1>1, EntryInvariantAlways, PTL

\* A plan or token that was consumed is never live again.
THEOREM StoreOneShot == StoreSpec => []OneShot
PROOF
  <1>1. EntryInvariant => OneShot
    BY DEF EntryInvariant, PlanSide, TokenSide, OneShot
  <1> QED BY <1>1, EntryInvariantAlways, PTL

=============================================================================
