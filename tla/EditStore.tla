------------------------------ MODULE EditStore ------------------------------
(***************************************************************************)
(* The daemon's store of prepared edit plans and undo tokens               *)
(* (packages/bridge-daemon/src/plan/in-memory-edit-store.ts).              *)
(*                                                                         *)
(* A consumer never sees an adapter's own plan identifier: createPlan mints *)
(* a public one and reserves the adapter's identifier in #internalPlans    *)
(* until the plan is dropped or, once consumed, until the caller releases  *)
(* it.  `held' is the set of StoredPlan copies consumePlan and discardPlan *)
(* handed to the caller and that were not released yet; `heldUndo' the     *)
(* same for undo tokens.                                                   *)
(*                                                                         *)
(* Public identifiers are 18 random bytes, never issued twice; here they   *)
(* are numbered in the order of creation, which is also the iteration order *)
(* of the code's Maps.  MaxPlans and MaxTokens bound how many a behaviour  *)
(* may create.                                                             *)
(***************************************************************************)
EXTENDS BridgeBase, Sequences

CONSTANTS
    AdapterPlanIds,         \* plan identifiers adapters choose for themselves
    AdapterTokenIds,        \* undo token identifiers adapters choose
    MaxPlans,               \* bound on the plans created
    MaxTokens,              \* bound on the undo tokens created
    MaxTime,                \* bound on the clock
    MaximumPlanLifetime,    \* maximumPlanLifetimeMs
    MaximumEntries,         \* maximumEntries
    MaximumEntriesPerConsumer,  \* maximumEntriesPerConsumer
    MaxRememberedInvalidations  \* MAX_REMEMBERED_INVALIDATIONS

ASSUME StoreConstants ==
    /\ MaxPlans \in Nat
    /\ MaxTokens \in Nat
    /\ MaxTime \in Nat
    /\ MaximumPlanLifetime \in Nat \ {0}
    /\ MaximumEntries \in Nat \ {0}
    /\ MaximumEntriesPerConsumer \in 1 .. MaximumEntries
    /\ MaxRememberedInvalidations \in Nat \ {0}
    /\ AdapterPlanIds \cap AdapterTokenIds = {}

VARIABLES
    plans,          \* plan id -> StoredPlan: #plans
    internalPlans,  \* reserved <<adapter session, adapter plan id>>: #internalPlans
    reasons,        \* plan ids, oldest first: the keys of #invalidationReasons
    undoTokens,     \* token id -> StoredUndoToken: #undoTokens
    internalUndo,   \* reserved <<adapter session, adapter token id>>: #internalUndoTokens
    held,           \* StoredPlans out with the caller
    heldUndo,       \* StoredUndoTokens out with the caller
    planSeq,        \* plans created so far
    tokenSeq,       \* tokens created so far
    now             \* the clock

entryVars == <<plans, internalPlans, undoTokens, internalUndo, held, heldUndo>>
storeVars == <<entryVars, reasons, planSeq, tokenSeq, now>>

PlanIds == 1 .. MaxPlans
TokenIds == 1 .. MaxTokens
Times == 0 .. MaxTime
Deadlines == 0 .. (MaxTime + MaximumPlanLifetime)

\* A stored plan: its public id, owners, the adapter it names as its author, the
\* workspace and epoch it was prepared in, the adapter's identifier, its public
\* expiry, and the documents its preconditions and its changes name.
StoredPlan ==
    [id : PlanIds, consumer : ConsumerSessions, adapter : AdapterSessions, author : AdapterIds,
     workspace : WorkspaceIds, epoch : Epochs, key : AdapterPlanIds, expires : Deadlines,
     pre : SUBSET Docs, changes : SUBSET Docs]

StoredUndoToken ==
    [id : TokenIds, consumer : ConsumerSessions, adapter : AdapterSessions, author : AdapterIds,
     workspace : WorkspaceIds, key : AdapterTokenIds, expires : Deadlines]

\* An absent entry is no record.
ASSUME NoneIsNoEntry == None \notin StoredPlan \cup StoredUndoToken

StoreTypeOK ==
    /\ plans \in [PlanIds -> StoredPlan \cup {None}]
    /\ internalPlans \subseteq AdapterSessions \X AdapterPlanIds
    /\ reasons \in Seq(PlanIds)
    /\ undoTokens \in [TokenIds -> StoredUndoToken \cup {None}]
    /\ internalUndo \subseteq AdapterSessions \X AdapterTokenIds
    /\ held \subseteq StoredPlan
    /\ heldUndo \subseteq StoredUndoToken
    /\ planSeq \in 0 .. MaxPlans
    /\ tokenSeq \in 0 .. MaxTokens
    /\ now \in Times

StoreInit ==
    /\ plans = [p \in PlanIds |-> None]
    /\ internalPlans = {}
    /\ reasons = << >>
    /\ undoTokens = [t \in TokenIds |-> None]
    /\ internalUndo = {}
    /\ held = {}
    /\ heldUndo = {}
    /\ planSeq = 0
    /\ tokenSeq = 0
    /\ now = 0

-----------------------------------------------------------------------------
(* Helpers.                                                                *)

LivePlans == {p \in PlanIds : plans[p] # None}
LiveTokens == {t \in TokenIds : undoTokens[t] # None}

\* internalPlanKey, internalUndoTokenKey
Key(stored) == <<stored.adapter, stored.key>>

Expired(stored) == stored.expires <= now

\* The entries sweep() drops.
SweptPlans == {p \in LivePlans : Expired(plans[p])}
SweptTokens == {t \in LiveTokens : Expired(undoTokens[t])}

\* The reservations left once the plans ps are dropped (#deletePlan) and the
\* stored plans rel are released (releasePlan); the same for undo tokens.
PlanKeysWithout(ps, rel) ==
    internalPlans \ ({Key(plans[p]) : p \in ps} \cup {Key(x) : x \in rel})

UndoKeysWithout(ts, rel) ==
    internalUndo \ ({Key(undoTokens[t]) : t \in ts} \cup {Key(x) : x \in rel})

\* Drop the plans ps and the tokens ts with their reservations, and release the
\* stored plans and tokens the caller gives back.
Retire(ps, ts, rel, relUndo) ==
    /\ plans' = [p \in PlanIds |-> IF p \in ps THEN None ELSE plans[p]]
    /\ internalPlans' = PlanKeysWithout(ps, rel)
    /\ held' = held \ rel
    /\ undoTokens' = [t \in TokenIds |-> IF t \in ts THEN None ELSE undoTokens[t]]
    /\ internalUndo' = UndoKeysWithout(ts, relUndo)
    /\ heldUndo' = heldUndo \ relUndo

\* #assertCapacity, evaluated after the sweep each creation starts with.
CapacityLeft(c) ==
    LET ps == LivePlans \ SweptPlans
        ts == LiveTokens \ SweptTokens
    IN  /\ Cardinality(ps) + Cardinality(ts) < MaximumEntries
        /\ Cardinality({p \in ps : plans[p].consumer = c})
             + Cardinality({t \in ts : undoTokens[t].consumer = c}) < MaximumEntriesPerConsumer

PublicExpiry(adapterExpiry) ==
    IF adapterExpiry < now + MaximumPlanLifetime THEN adapterExpiry
    ELSE now + MaximumPlanLifetime

\* The entry stored for what the adapter sent: a public identifier and expiry.
Issued(entry, n) == [entry EXCEPT !.id = n, !.expires = PublicExpiry(entry.expires)]

-----------------------------------------------------------------------------
(* Plans.                                                                  *)

\* Mistake: the adapter's identifier is not looked up in #internalPlans.
CreatePlanRefusalReusedKey(plan, owner, foreign, roots) ==
    IF ~CapacityLeft(plan.consumer) THEN "PRECONDITION_FAILED"
    ELSE IF \/ foreign
            \/ plan.author # owner
            \/ plan.expires <= now
            \/ ~(plan.pre \subseteq roots)
            \/ ~(plan.changes \subseteq plan.pre)
    THEN "PROVIDER_FAILED"
    ELSE "ok"

\* Why createPlan throws, `owner' being the adapter that owns the workspace now.
\* `foreign': the plan names another session, workspace or epoch, repeats a URI,
\* or has no readable expiry.
CreatePlanRefusal(plan, owner, foreign, roots) ==
    IF ~CapacityLeft(plan.consumer) THEN "PRECONDITION_FAILED"
    ELSE IF \/ foreign
            \/ plan.author # owner
            \/ plan.expires <= now
            \/ ~(plan.pre \subseteq roots)
            \/ ~(plan.changes \subseteq plan.pre)
            \/ Key(plan) \in PlanKeysWithout(SweptPlans, {})
    THEN "PROVIDER_FAILED"
    ELSE "ok"

\* createPlan when nothing refuses: sweep, then store under a fresh public id.
CreatePlan(plan) ==
    /\ planSeq < MaxPlans
    /\ planSeq' = planSeq + 1
    /\ plans' = [p \in PlanIds |->
                    IF p = planSeq + 1
                    THEN Issued(plan, planSeq + 1)
                    ELSE IF p \in SweptPlans THEN None ELSE plans[p]]
    /\ internalPlans' = PlanKeysWithout(SweptPlans, {}) \cup {Key(plan)}
    /\ undoTokens' = [t \in TokenIds |-> IF t \in SweptTokens THEN None ELSE undoTokens[t]]
    /\ internalUndo' = UndoKeysWithout(SweptTokens, {})
    /\ UNCHANGED <<reasons, held, heldUndo, tokenSeq, now>>

\* sweep(), also what a refused createPlan or createUndoToken leaves behind.
Sweep ==
    /\ Retire(SweptPlans, SweptTokens, {}, {})
    /\ UNCHANGED <<reasons, planSeq, tokenSeq, now>>

\* Mistake: whoever knows the identifier of a plan may use it.
OwnsAnyConsumer(c, p, w) == plans[p] # None /\ plans[p].workspace = w

\* A plan consumer c may name: it exists, is c's and belongs to the workspace.
Owns(c, p, w) ==
    /\ plans[p] # None
    /\ plans[p].consumer = c
    /\ plans[p].workspace = w

Remembered(p) == \E i \in DOMAIN reasons : reasons[i] = p

ConsumePlanRefusal(p, c, w, epoch) ==
    IF ~Owns(c, p, w) THEN IF Remembered(p) THEN "STALE_DOCUMENT" ELSE "PLAN_NOT_FOUND"
    ELSE IF Expired(plans[p]) \/ plans[p].epoch # epoch THEN "PLAN_EXPIRED"
    ELSE "ok"

\* Mistake: the plan is copied out and stays in #plans until the adapter answers.
CheckOutKeepsPlan(p) ==
    /\ held' = held \cup {plans[p]}
    /\ UNCHANGED <<plans, internalPlans, undoTokens, internalUndo, heldUndo, reasons>>

\* Mistake: #deletePlan(stored) drops the reservation with the plan.
CheckOutUnreserved(p) ==
    /\ plans' = [plans EXCEPT ![p] = None]
    /\ held' = held \cup {plans[p]}
    /\ internalPlans' = internalPlans \ {Key(plans[p])}
    /\ UNCHANGED <<undoTokens, internalUndo, heldUndo, reasons>>

\* #deletePlan(stored, false): the plan leaves the store for the caller with its
\* reservation still in place.
CheckOut(p) ==
    /\ plans' = [plans EXCEPT ![p] = None]
    /\ held' = held \cup {plans[p]}
    /\ UNCHANGED <<internalPlans, undoTokens, internalUndo, heldUndo, reasons>>

\* A plan found expired is dropped for good.
DropExpired(p) == Retire({p}, {}, {}, {}) /\ UNCHANGED reasons

\* #takeReason: the reason is reported once.
TakeReason(p) ==
    /\ \E i \in DOMAIN reasons :
        /\ reasons[i] = p
        /\ reasons' = SubSeq(reasons, 1, i - 1) \o SubSeq(reasons, i + 1, Len(reasons))
    /\ UNCHANGED entryVars

ConsumePlan(p, c, w, epoch) ==
    LET refusal == ConsumePlanRefusal(p, c, w, epoch)
    IN  /\ \/ refusal = "ok" /\ CheckOut(p)
           \/ refusal = "PLAN_EXPIRED" /\ DropExpired(p)
           \/ refusal = "STALE_DOCUMENT" /\ TakeReason(p)
           \/ refusal = "PLAN_NOT_FOUND" /\ UNCHANGED <<entryVars, reasons>>
        /\ UNCHANGED <<planSeq, tokenSeq, now>>

DiscardPlanRefusal(p, c, w) ==
    IF ~Owns(c, p, w) THEN "PLAN_NOT_FOUND"
    ELSE IF Expired(plans[p]) THEN "PLAN_EXPIRED"
    ELSE "ok"

DiscardPlan(p, c, w) ==
    LET refusal == DiscardPlanRefusal(p, c, w)
    IN  /\ \/ refusal = "ok" /\ CheckOut(p)
           \/ refusal = "PLAN_EXPIRED" /\ DropExpired(p)
           \/ refusal = "PLAN_NOT_FOUND" /\ UNCHANGED <<entryVars, reasons>>
        /\ UNCHANGED <<planSeq, tokenSeq, now>>

\* releasePlan and releaseUndoToken, for the entries a caller is done with.
Release(rel, relUndo) ==
    /\ Retire({}, {}, rel, relUndo)
    /\ UNCHANGED <<reasons, planSeq, tokenSeq, now>>

-----------------------------------------------------------------------------
(* Undo tokens.                                                            *)

\* Why createUndoToken throws, once the caller released relUndo.
CreateUndoTokenRefusal(token, owner, foreign, relUndo) ==
    IF ~CapacityLeft(token.consumer) THEN "PRECONDITION_FAILED"
    ELSE IF \/ foreign
            \/ token.author # owner
            \/ token.expires <= now
            \/ Key(token) \in UndoKeysWithout(SweptTokens, relUndo)
    THEN "PROVIDER_FAILED"
    ELSE "ok"

\* createUndoToken when nothing refuses, after the caller released rel and relUndo.
CreateUndoToken(token, rel, relUndo) ==
    /\ tokenSeq < MaxTokens
    /\ tokenSeq' = tokenSeq + 1
    /\ undoTokens' = [t \in TokenIds |->
                        IF t = tokenSeq + 1
                        THEN Issued(token, tokenSeq + 1)
                        ELSE IF t \in SweptTokens THEN None ELSE undoTokens[t]]
    /\ internalUndo' = UndoKeysWithout(SweptTokens, relUndo) \cup {Key(token)}
    /\ heldUndo' = heldUndo \ relUndo
    /\ plans' = [p \in PlanIds |-> IF p \in SweptPlans THEN None ELSE plans[p]]
    /\ internalPlans' = PlanKeysWithout(SweptPlans, rel)
    /\ held' = held \ rel
    /\ UNCHANGED <<reasons, planSeq, now>>

ConsumeUndoRefusal(t, c, w) ==
    IF ~(undoTokens[t] # None /\ undoTokens[t].consumer = c /\ undoTokens[t].workspace = w)
    THEN "PLAN_NOT_FOUND"
    ELSE IF Expired(undoTokens[t]) THEN "PLAN_EXPIRED"
    ELSE "ok"

ConsumeUndoToken(t, c, w) ==
    LET refusal == ConsumeUndoRefusal(t, c, w)
    IN  /\ \/ /\ refusal = "ok"
              /\ undoTokens' = [undoTokens EXCEPT ![t] = None]
              /\ heldUndo' = heldUndo \cup {undoTokens[t]}
              /\ UNCHANGED <<plans, internalPlans, held, internalUndo>>
           \/ refusal = "PLAN_EXPIRED" /\ Retire({}, {t}, {}, {})
           \/ refusal = "PLAN_NOT_FOUND" /\ UNCHANGED entryVars
        /\ UNCHANGED <<reasons, planSeq, tokenSeq, now>>

-----------------------------------------------------------------------------
(* Invalidation.                                                           *)

\* The plans ps in the order the Map yields them: the only sequence of this set.
InCreationOrder(ps) ==
    {order \in [1 .. Cardinality(ps) -> ps] :
        \A i, j \in DOMAIN order : i < j => order[i] < order[j]}

\* Mistake: the oldest reasons are never evicted.
RememberAll(ps) == \E new \in InCreationOrder(ps) : reasons' = reasons \o new

\* #rememberReason for each of ps: the newest MaxRememberedInvalidations stay.
Remember(ps) ==
    \E new \in InCreationOrder(ps) :
        LET all == reasons \o new
        IN  reasons' = IF Len(all) <= MaxRememberedInvalidations THEN all
                       ELSE SubSeq(all, Len(all) - MaxRememberedInvalidations + 1, Len(all))

PlansOn(w, ds) == {p \in LivePlans : plans[p].workspace = w /\ plans[p].pre \cap ds # {}}

\* invalidateDocument for each of ds; a reason is kept when the notification
\* carries the document's new revision.
InvalidateDocuments(w, ds, withRevision) ==
    /\ Retire(PlansOn(w, ds), {}, {}, {})
    /\ IF withRevision THEN Remember(PlansOn(w, ds)) ELSE UNCHANGED reasons
    /\ UNCHANGED <<planSeq, tokenSeq, now>>

InvalidateWorkspace(w) ==
    /\ Retire({p \in LivePlans : plans[p].workspace = w},
              {t \in LiveTokens : undoTokens[t].workspace = w}, {}, {})
    /\ UNCHANGED <<reasons, planSeq, tokenSeq, now>>

\* Mistake: the entries of an adapter session that ends are kept.
InvolvesConsumer(stored, s) == stored.consumer = s

Involves(stored, s) == stored.consumer = s \/ stored.adapter = s

\* invalidateSession, followed by the releases the caller makes at once.
InvalidateSession(s, rel, relUndo) ==
    /\ Retire({p \in LivePlans : Involves(plans[p], s)},
              {t \in LiveTokens : Involves(undoTokens[t], s)}, rel, relUndo)
    /\ UNCHANGED <<reasons, planSeq, tokenSeq, now>>

\* close(): every session is gone by then, so nothing is out with the caller
\* that could still be used.
CloseStore ==
    /\ Retire(LivePlans, LiveTokens, held, heldUndo)
    /\ UNCHANGED <<reasons, planSeq, tokenSeq, now>>

Tick ==
    /\ now < MaxTime
    /\ now' = now + 1
    /\ UNCHANGED <<entryVars, reasons, planSeq, tokenSeq>>

-----------------------------------------------------------------------------
(* The store driven by any sequence of calls.                              *)

\* A refused creation changes nothing but the sweep it starts with.
TryCreatePlan(plan, owner, foreign, roots) ==
    \/ CreatePlanRefusal(plan, owner, foreign, roots) = "ok" /\ CreatePlan(plan)
    \/ CreatePlanRefusal(plan, owner, foreign, roots) # "ok" /\ Sweep

TryCreateUndoToken(token, owner, foreign) ==
    \/ CreateUndoTokenRefusal(token, owner, foreign, {}) = "ok" /\ CreateUndoToken(token, {}, {})
    \/ CreateUndoTokenRefusal(token, owner, foreign, {}) # "ok" /\ Sweep

StoreNext ==
    \/ \E plan \in [id : {1}, consumer : ConsumerSessions, adapter : AdapterSessions,
                    author : AdapterIds, workspace : WorkspaceIds, epoch : Epochs,
                    key : AdapterPlanIds, expires : Deadlines, pre : SUBSET Docs,
                    changes : SUBSET Docs],
          owner \in AdapterIds, foreign \in BOOLEAN, roots \in SUBSET Docs :
            TryCreatePlan(plan, owner, foreign, roots)
    \/ \E token \in [id : {1}, consumer : ConsumerSessions, adapter : AdapterSessions,
                     author : AdapterIds, workspace : WorkspaceIds, key : AdapterTokenIds,
                     expires : Deadlines],
          owner \in AdapterIds, foreign \in BOOLEAN :
            TryCreateUndoToken(token, owner, foreign)
    \/ \E p \in PlanIds, c \in ConsumerSessions, w \in WorkspaceIds, e \in Epochs :
            ConsumePlan(p, c, w, e)
    \/ \E p \in PlanIds, c \in ConsumerSessions, w \in WorkspaceIds : DiscardPlan(p, c, w)
    \/ \E t \in TokenIds, c \in ConsumerSessions, w \in WorkspaceIds : ConsumeUndoToken(t, c, w)
    \/ \E x \in held : Release({x}, {})
    \/ \E x \in heldUndo : Release({}, {x})
    \/ \E w \in WorkspaceIds, ds \in SUBSET Docs, r \in BOOLEAN : InvalidateDocuments(w, ds, r)
    \/ \E w \in WorkspaceIds : InvalidateWorkspace(w)
    \/ \E s \in SessionIds : InvalidateSession(s, {}, {})
    \/ Sweep
    \/ CloseStore
    \/ Tick

StoreSpec == StoreInit /\ [][StoreNext]_storeVars

-----------------------------------------------------------------------------
(* Properties.                                                             *)

\* The plans an adapter may still be asked about: stored, or out with the caller.
OutstandingPlans == {plans[p] : p \in LivePlans} \cup held
OutstandingTokens == {undoTokens[t] : t \in LiveTokens} \cup heldUndo

\* #internalPlans and #internalUndoTokens hold exactly the identifiers of the
\* plans and tokens that are stored or out with the caller: none is freed while
\* an apply, discard or undo of it may still reach the adapter, and none stays
\* behind to refuse an identifier the adapter may use again.
ReservationsExact ==
    /\ internalPlans = {Key(x) : x \in OutstandingPlans}
    /\ internalUndo = {Key(x) : x \in OutstandingTokens}

\* No two outstanding plans of an adapter session carry one identifier of its
\* own (and likewise tokens), whatever mixture of consuming, expiry, invalidation
\* and late release led here: an apply can mean one plan only.
KeysUnique ==
    /\ \A x, y \in OutstandingPlans : Key(x) = Key(y) => x = y
    /\ \A x, y \in OutstandingTokens : Key(x) = Key(y) => x = y

\* A public plan or token is live or out with the caller, never both: once
\* consumed it cannot be consumed again (ADR-0007, "Concurrent apply/discard
\* calls therefore have exactly one winner").
OneShot ==
    /\ \A p \in LivePlans : plans[p].id = p /\ p <= planSeq
    /\ \A t \in LiveTokens : undoTokens[t].id = t /\ t <= tokenSeq
    /\ \A x \in held : plans[x.id] = None /\ x.id <= planSeq
    /\ \A x \in heldUndo : undoTokens[x.id] = None /\ x.id <= tokenSeq

\* The two bounds of #assertCapacity hold in every state.
CapacityBounds ==
    /\ Cardinality(LivePlans) + Cardinality(LiveTokens) <= MaximumEntries
    /\ \A c \in ConsumerSessions :
        Cardinality({p \in LivePlans : plans[p].consumer = c})
          + Cardinality({t \in LiveTokens : undoTokens[t].consumer = c})
            <= MaximumEntriesPerConsumer

\* A plan remembered as stale is gone for good: it is neither stored nor out to
\* be applied, it is remembered once, and the memory stays bounded.
ReasonsSound ==
    /\ Len(reasons) <= MaxRememberedInvalidations
    /\ \A i \in DOMAIN reasons :
        /\ plans[reasons[i]] = None
        /\ \A x \in held : x.id # reasons[i]
        /\ \A j \in DOMAIN reasons : reasons[i] = reasons[j] => i = j

=============================================================================
