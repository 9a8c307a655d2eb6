--------------------------- MODULE VscodeRoutesProofs --------------------------
(***************************************************************************)
(* The VS Code adapter's plans and handles, for any number of requests,    *)
(* documents, plans and handles: prepared plans implement OneShotGrant,    *)
(* none in store outlives a change of a document it guards, and an edit    *)
(* meets an unchecked text only in the window after its own check; the     *)
(* collections of the handle registry agree and stay within their limits,  *)
(* minting evicts no tree, and no handle outlives a change of its document *)
(* that comes after its minting.                                           *)
(***************************************************************************)
EXTENDS VscodeRoutes, FiniteSetTheorems, SequenceTheorems, WellFoundedInduction, TLAPS

\* Some request has taken plan p out of the store and not applied it yet.
Claimed(p) == \E r \in Requests : Claims(r, p)

\* The plans whose edit was applied.
Used == {p \in PlanIds : applied[p] > 0}

\* The fields that the continuations of a request rely on.
RequestsFormed ==
    /\ DOMAIN req = Requests
    /\ \A r \in Requests :
        /\ "op" \in DOMAIN req[r]
        /\ req[r].op = "apply" => /\ {"at", "plan"} \subseteq DOMAIN req[r]
                                  /\ req[r].plan \in PlanIds

PlansNumbered ==
    /\ issued \in 0 .. MaxPlans
    /\ DOMAIN plans \subseteq 1 .. issued
    /\ applied \in [PlanIds -> {0, 1}]
    /\ Used \subseteq 1 .. issued
    /\ \A r \in Requests, p \in PlanIds : Claims(r, p) => p <= issued

\* A plan is in one place: in store, with one request, or applied.
PlansExclusive ==
    /\ \A p \in Used : p \notin DOMAIN plans
    /\ \A r \in Requests, p \in PlanIds : Claims(r, p) => p \notin DOMAIN plans \cup Used
    /\ \A q, r \in Requests, p \in PlanIds : Claims(q, p) /\ Claims(r, p) => q = r

GrantInvariant == RequestsFormed /\ PlansNumbered /\ PlansExclusive

\* What the refinement mapping says of a plan, read off its place.
Placed(p) ==
    /\ Stage(p) \in {"none", "granted", "claimed", "spent", "void"}
    /\ Stage(p) = "spent" <=> p \in Used
    /\ Stage(p) = "claimed" <=> Claimed(p)
    /\ Stage(p) = "granted" <=> p \in DOMAIN plans
    /\ Stage(p) = "none" <=> p > issued
    /\ Stage(p) # "claimed" => Holders(p) = {}
    /\ \A r \in Holders(p) : r \in Requests /\ Holders(p) = {r}
    /\ applied[p] = IF Stage(p) = "spent" THEN 1 ELSE 0

LEMMA PlanStates == GrantInvariant => \A p \in PlanIds : Placed(p)
  <1> SUFFICES ASSUME GrantInvariant, NEW p \in PlanIds PROVE Placed(p)
    OBVIOUS
  <1>1. Claimed(p) <=> Holders(p) # {}
    BY DEF Claimed, Holders
  <1>2. /\ p \in Used <=> applied[p] > 0
        /\ applied[p] \in {0, 1} /\ issued \in Nat /\ p \in Nat
    BY RouteConstants DEF GrantInvariant, PlansNumbered, Used, PlanIds
  <1>3. /\ p \in DOMAIN plans => p <= issued /\ p \notin Used /\ ~Claimed(p)
        /\ p \in Used => p <= issued /\ ~Claimed(p)
        /\ Claimed(p) => p <= issued
    <2>1. p \in DOMAIN plans \cup Used => p <= issued
      BY <1>2 DEF GrantInvariant, PlansNumbered
    <2>2. Claimed(p) => p <= issued
      BY DEF GrantInvariant, PlansNumbered, Claimed
    <2>3. Claimed(p) => p \notin DOMAIN plans \cup Used
      BY DEF GrantInvariant, PlansExclusive, Claimed
    <2>4. p \in Used => p \notin DOMAIN plans
      BY DEF GrantInvariant, PlansExclusive
    <2>5. QED
      BY <2>1, <2>2, <2>3, <2>4
  <1>4. \A r \in Holders(p) : r \in Requests /\ Holders(p) = {r}
    BY DEF Holders, GrantInvariant, PlansExclusive
  <1>5. QED
    BY <1>1, <1>2, <1>3, <1>4 DEF Placed, Stage

\* It holds before any request.
LEMMA GrantInitially == RoutesInit => GrantInvariant /\ Grant!Init
  <1> SUFFICES ASSUME RoutesInit PROVE GrantInvariant /\ Grant!Init
    OBVIOUS
  <1>1. RequestsFormed
    BY DEF RoutesInit, RequestsFormed, Idle
  <1>2. \A r \in Requests, p \in PlanIds : ~Claims(r, p)
    BY DEF RoutesInit, Claims, Idle
  <1>3. PlansNumbered /\ PlansExclusive
    BY <1>2, RouteConstants DEF RoutesInit, PlansNumbered, PlansExclusive, Empty, Used
  <1>4. Grant!Init
    <2>1. ASSUME NEW p \in PlanIds PROVE PlanState(p) = Grant!Unused
      <3>1. Holders(p) = {} /\ applied[p] = 0 /\ p > issued /\ p \notin DOMAIN plans
        BY <1>2, RouteConstants DEF RoutesInit, Holders, PlanIds, Empty
      <3>2. QED
        BY <3>1 DEF PlanState, Stage, Grant!Unused
    <2>2. QED
      BY <2>1 DEF Grant!Init
  <1>5. QED
    BY <1>1, <1>3, <1>4 DEF GrantInvariant

-----------------------------------------------------------------------------
(* Steps by what they do to plans.                                         *)

\* No step skips a state of the grant: from the places of the plans before and
\* after.
LEMMA GrantStep ==
    ASSUME GrantInvariant, GrantInvariant',
           \A p \in Used : p \in Used',
           \A p \in PlanIds : p \in Used' => p \in Used \/ Claimed(p),
           \A r \in Requests, p \in PlanIds : Claims(r, p)' => Claims(r, p) \/ p \in DOMAIN plans,
           \A p \in PlanIds : p \in DOMAIN plans' => p \in DOMAIN plans \/ p > issued,
           \A p \in PlanIds : p > issued /\ p <= issued' => p \in DOMAIN plans',
           issued <= issued',
           \A p, q \in PlanIds : p \in Used' \ Used /\ q \in Used' \ Used => p = q,
           \A p, q \in PlanIds : Claimed(p)' /\ ~Claimed(p) /\ Claimed(q)' /\ ~Claimed(q) => p = q
    PROVE  Grant!Next
  <1>1. \A p \in PlanIds : Placed(p)
    BY PlanStates
  <1>2. (GrantInvariant => \A p \in PlanIds : Placed(p))'
    BY PlanStates, PTL
  <1>3. \A p \in PlanIds : Placed(p)'
    BY <1>2
  <1>4. issued \in Nat /\ issued' \in Nat /\ PlanIds \subseteq Nat
    BY RouteConstants DEF GrantInvariant, PlansNumbered, PlanIds
  <1>5. \A p \in PlanIds : Claimed(p)' => Claimed(p) \/ p \in DOMAIN plans
    BY DEF Claimed
  <1>6. \A p \in PlanIds : Claimed(p) /\ Claimed(p)' => Holders(p)' = Holders(p)
    <2>1. ASSUME NEW p \in PlanIds, Claimed(p), Claimed(p)' PROVE Holders(p)' = Holders(p)
      <3>1. PICK r \in Requests : Claims(r, p)'
        BY <2>1 DEF Claimed
      <3>2. Claims(r, p)
        BY <2>1, <3>1, <1>1 DEF Placed
      <3>3. r \in Holders(p) /\ r \in Holders(p)'
        BY <3>1, <3>2 DEF Holders
      <3>4. QED
        BY <1>1, <1>3, <3>3 DEF Placed
    <2>2. QED
      BY <2>1
  <1> DEFINE Was(p) == PlanState(p)
             Is(p) == PlanState(p)'
             Before(p, stage, uses) == Was(p) = [stage |-> stage, holders |-> {}, uses |-> uses]
             After(p, stage, uses) == Is(p) = [stage |-> stage, holders |-> {}, uses |-> uses]
  <1>7. ASSUME NEW p \in PlanIds
        PROVE  /\ Stage(p) \in {"none", "granted", "void"} => Before(p, Stage(p), 0)
               /\ Stage(p)' \in {"none", "granted", "void"} => After(p, Stage(p)', 0)
               /\ Stage(p) = "spent" => Before(p, "spent", 1)
               /\ Stage(p)' = "spent" => After(p, "spent", 1)
               /\ Stage(p) = "claimed" => Was(p) = [stage |-> "claimed", holders |-> Holders(p), uses |-> 0]
               /\ Stage(p)' = "claimed" => Is(p) = [stage |-> "claimed", holders |-> Holders(p)', uses |-> 0]
    <2>1. /\ Stage(p) # "claimed" => Holders(p) = {}
          /\ Stage(p)' # "claimed" => Holders(p)' = {}
          /\ applied[p] = IF Stage(p) = "spent" THEN 1 ELSE 0
          /\ applied'[p] = IF Stage(p)' = "spent" THEN 1 ELSE 0
      BY <1>1, <1>3 DEF Placed
    <2>2. /\ Was(p) = [stage |-> Stage(p), holders |-> Holders(p), uses |-> applied[p]]
          /\ Is(p) = [stage |-> Stage(p)', holders |-> Holders(p)', uses |-> applied'[p]]
      BY DEF PlanState
    <2>3. QED
      BY <2>1, <2>2
  <1>s. \A p \in PlanIds : Was(p).stage = Stage(p) /\ Is(p).stage = Stage(p)'
    BY DEF PlanState
  <1>p. ASSUME NEW p \in PlanIds
        PROVE  /\ Stage(p) = "none" => Stage(p)' \in {"none", "granted"}
               /\ Stage(p) = "granted" => Stage(p)' \in {"granted", "claimed", "void"}
               /\ Stage(p) = "claimed" => Stage(p)' \in {"claimed", "spent", "void"}
               /\ Stage(p) \in {"spent", "void"} => Stage(p)' = Stage(p)
    BY <1>1, <1>3, <1>4, <1>5 DEF Placed
  <1> HIDE DEF Was, Is
  <1>8. ASSUME NEW p \in PlanIds
        PROVE  \/ Is(p) = Was(p)
               \/ Grant!Granted(Was(p), Is(p)) \/ Grant!Claimed(Was(p), Is(p))
               \/ Grant!Spent(Was(p), Is(p)) \/ Grant!Voided(Was(p), Is(p))
    <2>1. CASE Stage(p) = "none"
      BY <2>1, <1>7, <1>p DEF Grant!Granted
    <2>2. CASE Stage(p) = "granted" /\ Stage(p)' = "claimed"
      <3>1. PICK u \in Requests : Holders(p)' = {u}
        BY <2>2, <1>3 DEF Placed, Claimed, Holders
      <3>2. /\ Was(p) = [stage |-> "granted", holders |-> {}, uses |-> 0]
            /\ Is(p) = [stage |-> "claimed", holders |-> {u}, uses |-> 0]
        BY <2>2, <3>1, <1>7
      <3>3. /\ Was(p).stage = "granted" /\ Was(p).uses = 0
            /\ Is(p) = [stage |-> "claimed", holders |-> {u}, uses |-> Was(p).uses]
        BY <3>2
      <3>4. Grant!Claimed(Was(p), Is(p))
        BY <3>3 DEF Grant!Claimed
      <3>5. QED
        BY <3>4
    <2>3. CASE Stage(p) = "granted" /\ Stage(p)' # "claimed"
      <3>1. Was(p) = [stage |-> "granted", holders |-> {}, uses |-> 0]
        BY <2>3, <1>7
      <3>2. CASE Stage(p)' = "void"
        <4>1. /\ Was(p).stage = "granted" /\ Was(p).uses = 0
              /\ Is(p) = [stage |-> "void", holders |-> {}, uses |-> Was(p).uses]
          BY <3>1, <3>2, <1>7
        <4>2. Grant!Voided(Was(p), Is(p))
          BY <4>1 DEF Grant!Voided
        <4>3. QED
          BY <4>2
      <3>3. CASE Stage(p)' = "granted"
        BY <2>3, <3>3, <1>7
      <3>4. QED
        BY <2>3, <3>2, <3>3, <1>p
    <2>4. CASE Stage(p) = "claimed" /\ Stage(p)' = "claimed"
      <3>1. Holders(p)' = Holders(p)
        BY <2>4, <1>1, <1>3, <1>6 DEF Placed
      <3>2. QED
        BY <2>4, <3>1, <1>7
    <2>5. CASE Stage(p) = "claimed" /\ Stage(p)' = "spent"
      BY <2>5, <1>7 DEF Grant!Spent
    <2>6. CASE Stage(p) = "claimed" /\ Stage(p)' = "void"
      <3>1. /\ Was(p) = [stage |-> "claimed", holders |-> Holders(p), uses |-> 0]
            /\ Is(p) = [stage |-> "void", holders |-> {}, uses |-> 0]
        BY <2>6, <1>7
      <3>2. QED
        BY <3>1 DEF Grant!Voided
    <2>7. CASE Stage(p) \in {"spent", "void"}
      BY <2>7, <1>7, <1>p
    <2>8. QED
      BY <1>1, <1>p, <2>1, <2>2, <2>3, <2>4, <2>5, <2>6, <2>7 DEF Placed
  <1>9. ASSUME NEW p \in PlanIds, NEW q \in PlanIds, p # q
        PROVE  /\ ~(Grant!Claimed(Was(p), Is(p)) /\ Grant!Claimed(Was(q), Is(q)))
               /\ ~(Grant!Spent(Was(p), Is(p)) /\ Grant!Spent(Was(q), Is(q)))
    <2>1. ASSUME NEW x \in PlanIds, Grant!Claimed(Was(x), Is(x)) PROVE Claimed(x)' /\ ~Claimed(x)
      <3>1. Stage(x) = "granted"
        BY <2>1, <1>s DEF Grant!Claimed
      <3>2. Stage(x)' = "claimed"
        <4>1. PICK u \in Requests : Is(x) = [stage |-> "claimed", holders |-> {u}, uses |-> Was(x).uses]
          BY <2>1 DEF Grant!Claimed
        <4>2. Is(x).stage = "claimed"
          BY <4>1, <3>1, <1>7
        <4>3. QED
          BY <4>2, <1>s
      <3>3. QED
        BY <3>1, <3>2, <1>1, <1>3 DEF Placed
    <2>2. ASSUME NEW x \in PlanIds, Grant!Spent(Was(x), Is(x)) PROVE x \in Used' \ Used
      <3>1. Stage(x) = "claimed" /\ Stage(x)' = "spent"
        BY <2>2, <1>s DEF Grant!Spent
      <3>2. QED
        BY <3>1, <1>1, <1>3 DEF Placed
    <2>3. QED
      BY <1>9, <2>1, <2>2
  <1>10. [p \in PlanIds |-> PlanState(p)]' \in [PlanIds -> Grant!GrantStates]
    <2>1. ASSUME NEW p \in PlanIds PROVE Is(p) \in Grant!GrantStates
      <3>1. /\ Stage(p)' \in {"none", "granted", "claimed", "spent", "void"}
            /\ Holders(p)' \in SUBSET Requests /\ applied'[p] \in Nat
        BY <1>3 DEF Placed
      <3>2. QED
        BY <3>1 DEF Grant!GrantStates, Is, PlanState
    <2>2. QED
      BY <2>1 DEF Is
  <1>11. QED
    BY <1>8, <1>9, <1>10 DEF Grant!Next, Was, Is

\* A step that stores no plan and applies none, and claims none that was not
\* claimed.
LEMMA QuietStep ==
    ASSUME GrantInvariant, RequestsFormed', UNCHANGED <<issued, applied>>,
           DOMAIN plans' \subseteq DOMAIN plans,
           \A r \in Requests, p \in PlanIds : Claims(r, p)' => Claims(r, p)
    PROVE  GrantInvariant' /\ Grant!Next
  <1>1. GrantInvariant'
    BY DEF GrantInvariant, PlansNumbered, PlansExclusive, Used
  <1>2. \A p \in PlanIds : Claimed(p)' => Claimed(p)
    BY DEF Claimed
  <1>3. issued \in Nat /\ issued' = issued /\ Used' = Used
    BY DEF GrantInvariant, PlansNumbered, Used
  <1>4. \A p \in PlanIds : ~(p > issued /\ p <= issued')
    BY <1>3 DEF PlanIds
  <1>5. QED
    BY <1>1, <1>2, <1>3, <1>4, GrantStep

\* Request r goes on as q, which claims a plan only if r did.
LEMMA RequestGoesOn ==
    ASSUME RequestsFormed, NEW r \in Requests, NEW q, Waits(r, q), "op" \in DOMAIN q,
           q.op = "apply" => /\ {"at", "plan"} \subseteq DOMAIN q
                             /\ q.plan \in PlanIds
                             /\ q.at \in {"check", "apply"} => Claims(r, q.plan)
    PROVE  /\ RequestsFormed'
           /\ \A x \in Requests, p \in PlanIds : Claims(x, p)' => Claims(x, p)
  BY DEF RequestsFormed, Waits, Claims

\* A request that ends makes no new claim.
LEMMA RequestEnds ==
    ASSUME RequestsFormed, NEW r \in Requests, Ends(r)
    PROVE  /\ RequestsFormed'
           /\ \A x \in Requests, p \in PlanIds : Claims(x, p)' => Claims(x, p)
  BY DEF RequestsFormed, Ends, Idle, Claims

\* No request changes.
LEMMA RequestsStay ==
    ASSUME RequestsFormed, UNCHANGED req
    PROVE  /\ RequestsFormed'
           /\ \A x \in Requests, p \in PlanIds : Claims(x, p)' => Claims(x, p)
  BY DEF RequestsFormed, Claims

\* Invalidation only takes plans away.
LEMMA InvalidationTakes == ASSUME NEW D PROVE DOMAIN Uncovered(D) \subseteq DOMAIN plans
  BY DEF Uncovered, Without

\* Events of the documents, the workspace and the connection.
LEMMA EnvironmentStep ==
    ASSUME GrantInvariant, Environment
    PROVE  GrantInvariant' /\ Grant!Next
  <1>1. RequestsFormed
    BY DEF GrantInvariant
  <1>2. DOMAIN plans' \subseteq DOMAIN plans
    BY InvalidationTakes
    DEF Environment, documentChanged, Changed, DiskChange, invalidateForUri, planVars,
        workspaceProjectionChanged, Reconnected, discardPlan, Without, Empty
  <1>3. UNCHANGED <<issued, applied>>
    BY DEF Environment, documentChanged, DiskChange, invalidateForUri, planVars,
        workspaceProjectionChanged, Reconnected, discardPlan
  <1>4. CASE Reconnected
    <2>1. RequestsFormed'
      BY <1>1, <1>4 DEF Reconnected, HandedOver, RequestsFormed, Idle
    <2>2. \A x \in Requests, p \in PlanIds : Claims(x, p)' => Claims(x, p)
      BY <1>1, <1>4 DEF Reconnected, HandedOver, RequestsFormed, Claims, Idle
    <2>3. QED
      BY <1>2, <1>3, <2>1, <2>2, QuietStep
  <1>5. CASE ~Reconnected
    <2>1. UNCHANGED req
      BY <1>5 DEF Environment, documentChanged, DiskChange, invalidateForUri,
          workspaceProjectionChanged, discardPlan
    <2>2. QED
      BY <1>1, <1>2, <1>3, <2>1, RequestsStay, QuietStep
  <1>6. QED
    BY <1>4, <1>5

\* A cancellation.
LEMMA CancelStep ==
    ASSUME GrantInvariant, NEW r \in Requests, Cancel(r)
    PROVE  GrantInvariant' /\ Grant!Next
  <1>1. RequestsFormed /\ UNCHANGED <<issued, applied>> /\ DOMAIN plans' = DOMAIN plans
    BY DEF GrantInvariant, Cancel, planVars
  <1>2. CASE HandedOver(r)
    <2> DEFINE q == [req[r] EXCEPT !.aborted = TRUE]
    <2>1. Waits(r, q)
      BY <1>2 DEF Cancel
    <2>2. /\ q.op = "apply" /\ q.at = req[r].at /\ q.plan = req[r].plan
          /\ DOMAIN q = DOMAIN req[r]
      BY <1>1, <1>2 DEF HandedOver, RequestsFormed
    <2>3. q.at \in {"check", "apply"} => Claims(r, q.plan)
      BY <1>2, <2>2 DEF HandedOver, Claims
    <2> HIDE DEF q
    <2>4. RequestsFormed' /\ \A x \in Requests, p \in PlanIds : Claims(x, p)' => Claims(x, p)
      BY <1>1, <1>2, <2>1, <2>2, <2>3, RequestGoesOn DEF HandedOver, RequestsFormed
    <2>5. QED
      BY <1>1, <2>4, QuietStep
  <1>3. CASE ~HandedOver(r)
    BY <1>1, <1>3, RequestEnds, QuietStep DEF Cancel
  <1>4. QED
    BY <1>2, <1>3

\* Requests that mint handles leave the plans alone.
LEMMA SymbolStep ==
    ASSUME GrantInvariant, NEW r \in Requests, SymbolRequest(r)
    PROVE  GrantInvariant' /\ Grant!Next
  <1>1. RequestsFormed /\ UNCHANGED <<issued, applied>> /\ DOMAIN plans' = DOMAIN plans
    BY DEF GrantInvariant, SymbolRequest, StartBracket, SecondRead, Materialize, NoSymbol,
        StartSearch, FinishSearch, planVars
  <1>2. CASE Ends(r)
    BY <1>1, <1>2, RequestEnds, QuietStep
  <1>3. CASE \E d \in Docs, op \in Bracketed : StartBracket(r, op, d)
    BY <1>1, <1>3, RequestGoesOn, QuietStep DEF StartBracket, Bracketed
  <1>4. CASE SecondRead(r) /\ ~Ends(r)
    BY <1>1, <1>4, RequestGoesOn, QuietStep DEF SecondRead, Bracketed, RequestsFormed
  <1>5. CASE StartSearch(r)
    BY <1>1, <1>5, RequestGoesOn, QuietStep DEF StartSearch
  <1>6. QED
    BY <1>2, <1>3, <1>4, <1>5 DEF SymbolRequest, Materialize, NoSymbol, FinishSearch

\* The steps of a prepare.
LEMMA PrepareStep ==
    ASSUME GrantInvariant, NEW r \in Requests, PrepareRequest(r)
    PROVE  GrantInvariant' /\ Grant!Next
  <1>1. RequestsFormed
    BY DEF GrantInvariant
  <1>2. CASE StorePlan(r) /\ issued' # issued
    <2>1. /\ DOMAIN plans' = DOMAIN plans \cup {issued + 1}
          /\ issued' = issued + 1 /\ issued < MaxPlans /\ applied' = applied /\ Used' = Used
      BY <1>2 DEF StorePlan, With, Used
    <2>2. RequestsFormed' /\ \A x \in Requests, p \in PlanIds : Claims(x, p)' => Claims(x, p)
      BY <1>1, <1>2, RequestEnds DEF StorePlan
    <2>3. issued \in Nat /\ PlanIds \subseteq Nat /\ MaxPlans \in Nat
      BY RouteConstants DEF GrantInvariant, PlansNumbered, PlanIds
    <2>4. GrantInvariant'
      BY <2>1, <2>2, <2>3 DEF GrantInvariant, PlansNumbered, PlansExclusive
    <2>5. \A p \in PlanIds : Claimed(p)' => Claimed(p)
      BY <2>2 DEF Claimed
    <2>6. \A p \in PlanIds : p > issued /\ p <= issued' => p \in DOMAIN plans'
      BY <2>1, <2>3
    <2>7. \A p \in PlanIds : p \in DOMAIN plans' => p \in DOMAIN plans \/ p > issued
      BY <2>1, <2>3
    <2>8. QED
      BY <2>1, <2>2, <2>3, <2>4, <2>5, <2>6, <2>7, GrantStep
  <1>3. CASE StorePlan(r) /\ issued' = issued
    <2>1. UNCHANGED <<issued, applied>> /\ DOMAIN plans' = DOMAIN plans
      BY <1>3 DEF StorePlan, GrantInvariant, PlansNumbered
    <2>2. QED
      BY <1>1, <1>3, <2>1, RequestEnds, QuietStep DEF StorePlan
  <1>4. CASE ~StorePlan(r)
    <2>1. UNCHANGED <<issued, applied>> /\ DOMAIN plans' = DOMAIN plans
      BY <1>4 DEF PrepareRequest, StartRename, StartPrepare, ProvideEdit, CollectPrecondition,
          planVars
    <2>2. CASE Ends(r)
      BY <1>1, <2>1, <2>2, RequestEnds, QuietStep
    <2>3. CASE StartRename(r) \/ \E d \in Docs : StartPrepare(r, d)
      BY <1>1, <2>1, <2>3, RequestGoesOn, QuietStep DEF StartRename, StartPrepare
    <2>4. CASE \E D \in SUBSET Docs \ {{}} : ProvideEdit(r, D)
      BY <1>1, <2>1, <2>4, RequestGoesOn, QuietStep DEF ProvideEdit, Prepares, RequestsFormed
    <2>5. CASE ~Ends(r) /\ \E d \in Docs : CollectPrecondition(r, d)
      BY <1>1, <2>1, <2>5, RequestGoesOn, QuietStep
      DEF CollectPrecondition, Prepares, RequestsFormed
    <2>6. QED
      BY <1>4, <2>2, <2>3, <2>4, <2>5 DEF PrepareRequest
  <1>5. QED
    BY <1>2, <1>3, <1>4

\* #consumePlan takes the plan out before anything is awaited.
LEMMA StartApplyStep ==
    ASSUME GrantInvariant, NEW r \in Requests, NEW p \in PlanIds, StartApply(r, p)
    PROVE  GrantInvariant' /\ Grant!Next
  <1>1. RequestsFormed /\ issued \in Nat /\ PlanIds \subseteq Nat
    BY RouteConstants DEF GrantInvariant, PlansNumbered, PlanIds
  <1>2. UNCHANGED <<issued, applied>> /\ DOMAIN plans' = DOMAIN plans \ {p} /\ p \in DOMAIN plans
    BY DEF StartApply, Without
  <1>3. CASE UNCHANGED req
    BY <1>1, <1>2, <1>3, RequestsStay, QuietStep
  <1>4. CASE ~UNCHANGED req
    <2>1. RequestsFormed'
      BY <1>1, <1>4 DEF StartApply, Waits, RequestsFormed
    <2>2. \A x \in Requests, q \in PlanIds : Claims(x, q)' <=> Claims(x, q) \/ (x = r /\ q = p)
      BY <1>1, <1>4 DEF StartApply, Waits, RequestsFormed, Claims, Idle
    <2>3. GrantInvariant'
      BY <1>1, <1>2, <2>1, <2>2 DEF GrantInvariant, PlansNumbered, PlansExclusive, Used
    <2>4. (\A q \in PlanIds : Claimed(q)' => Claimed(q) \/ q = p) /\ Used' = Used
      BY <1>2, <2>2 DEF Claimed, Used
    <2>5. \A q \in PlanIds : ~(q > issued /\ q <= issued')
      BY <1>1, <1>2
    <2>6. QED
      BY <1>1, <1>2, <2>2, <2>3, <2>4, <2>5, GrantStep
  <1>5. QED
    BY <1>3, <1>4

\* The edit is applied under a claim, and only the claim of the request is used.
LEMMA ApplyEditStep ==
    ASSUME GrantInvariant, NEW r \in Requests, NEW new, applyEdit(r, new)
    PROVE  GrantInvariant' /\ Grant!Next
  <1> DEFINE p == req[r].plan
  <1>1. RequestsFormed /\ issued \in Nat /\ PlanIds \subseteq Nat
    BY RouteConstants DEF GrantInvariant, PlansNumbered, PlanIds
  <1>2. /\ issued' = issued /\ applied' = [applied EXCEPT ![p] = @ + 1]
        /\ DOMAIN plans' \subseteq DOMAIN plans
    BY InvalidationTakes DEF applyEdit, Changed
  <1>3. Claims(r, p)
    BY DEF applyEdit, Claims
  <1>4. RequestsFormed'
    BY <1>1 DEF applyEdit, Waits, RequestsFormed
  <1>5. \A x \in Requests, q \in PlanIds : Claims(x, q)' => Claims(x, q) /\ x # r
    BY <1>1 DEF applyEdit, Waits, RequestsFormed, Claims
  <1>6. p \in PlanIds
    BY <1>1 DEF applyEdit, RequestsFormed
  <1>7. p \notin DOMAIN plans /\ p <= issued /\ \A x \in Requests : x # r => ~Claims(x, p)
    BY <1>3, <1>6 DEF GrantInvariant, PlansNumbered, PlansExclusive
  <1> HIDE DEF p
  <1>u. applied' \in [PlanIds -> {0, 1}] /\ Used' = Used \cup {p}
    <2>1. applied \in [PlanIds -> {0, 1}] /\ p \notin Used
      BY <1>3, <1>6 DEF GrantInvariant, PlansNumbered, PlansExclusive
    <2>2. QED
      BY <1>2, <1>6, <2>1 DEF Used
  <1>8. GrantInvariant'
    <2> p \in 1 .. issued
      BY <1>1, <1>6, <1>7 DEF PlanIds
    <2>1. PlansNumbered'
      BY <1>2, <1>5, <1>u DEF GrantInvariant, PlansNumbered
    <2>2. PlansExclusive'
      BY <1>2, <1>5, <1>6, <1>7, <1>u DEF GrantInvariant, PlansExclusive
    <2>3. QED
      BY <1>4, <2>1, <2>2 DEF GrantInvariant
  <1>9. \A q \in PlanIds : Claimed(q)' => Claimed(q)
    BY <1>5 DEF Claimed
  <1>10. \A q \in PlanIds : q \in Used' => q \in Used \/ Claimed(q)
    BY <1>u, <1>3 DEF Claimed
  <1>11. \A q \in PlanIds : ~(q > issued /\ q <= issued')
    BY <1>1, <1>2
  <1>12. QED
    BY <1>1, <1>2, <1>5, <1>8, <1>9, <1>10, <1>11, <1>u, GrantStep

\* The steps of an apply.
LEMMA ApplyStep ==
    ASSUME GrantInvariant, NEW r \in Requests, ApplyRequest(r)
    PROVE  GrantInvariant' /\ Grant!Next
  <1>1. RequestsFormed
    BY DEF GrantInvariant
  <1>2. CASE \E p \in PlanIds : StartApply(r, p)
    BY <1>2, StartApplyStep
  <1>3. CASE \E new \in [Docs -> Texts] : applyEdit(r, new)
    BY <1>3, ApplyEditStep
  <1>4. ASSUME NEW d \in Docs, CheckPrecondition(r, d)
        PROVE  GrantInvariant' /\ Grant!Next
    <2>1. UNCHANGED <<issued, applied>> /\ DOMAIN plans' = DOMAIN plans
      BY <1>4 DEF CheckPrecondition, planVars
    <2>2. CASE Ends(r)
      BY <1>1, <2>1, <2>2, RequestEnds, QuietStep
    <2>3. CASE ~Ends(r)
      <3> DEFINE rest == req[r].todo \ {d}
                 q == [req[r] EXCEPT !.todo = rest, !.checked = With(@, d, version[d]),
                                     !.at = IF rest = {} THEN "apply" ELSE "check"]
      <3>1. Waits(r, q)
        BY <1>4, <2>3 DEF CheckPrecondition
      <3>2. /\ q.op = "apply" /\ q.plan = req[r].plan
            /\ DOMAIN q = DOMAIN req[r]
        BY <1>1, <1>4 DEF CheckPrecondition, RequestsFormed
      <3>3. Claims(r, q.plan)
        BY <1>4, <3>2 DEF CheckPrecondition, Claims
      <3> HIDE DEF q
      <3>4. RequestsFormed' /\ \A x \in Requests, p \in PlanIds : Claims(x, p)' => Claims(x, p)
        BY <1>1, <1>4, <3>1, <3>2, <3>3, RequestGoesOn DEF CheckPrecondition, RequestsFormed
      <3>5. QED
        BY <2>1, <3>4, QuietStep
    <2>4. QED
      BY <2>2, <2>3
  <1>5. ASSUME NEW d \in Docs, NEW new, SaveDocument(r, d, new)
        PROVE  GrantInvariant' /\ Grant!Next
    <2>1. UNCHANGED <<issued, applied>> /\ DOMAIN plans' \subseteq DOMAIN plans
      BY <1>5, InvalidationTakes DEF SaveDocument, Changed
    <2>2. CASE Ends(r)
      BY <1>1, <2>1, <2>2, RequestEnds, QuietStep
    <2>3. CASE ~Ends(r)
      <3>1. PICK q : Waits(r, q) /\ q.op = "apply" /\ q.at = "save" /\ q.plan = req[r].plan
                        /\ DOMAIN q = DOMAIN req[r]
        BY <1>1, <1>5, <2>3 DEF SaveDocument, RequestsFormed
      <3>2. QED
        BY <1>1, <1>5, <2>1, <3>1, RequestGoesOn, QuietStep DEF SaveDocument, RequestsFormed
    <2>4. QED
      BY <2>2, <2>3
  <1>6. CASE FinishApply(r) \/ EditRefused(r)
    BY <1>1, <1>6, RequestEnds, QuietStep DEF FinishApply, EditRefused, planVars
  <1>7. QED
    BY <1>2, <1>3, <1>4, <1>5, <1>6 DEF ApplyRequest

\* Every step is a step of the grant, or none.
LEMMA GrantNext ==
    ASSUME GrantInvariant, RoutesNext
    PROVE  GrantInvariant' /\ Grant!Next
  BY EnvironmentStep, CancelStep, SymbolStep, PrepareStep, ApplyStep DEF RoutesNext

\* No step, no change.
LEMMA GrantStutters ==
    ASSUME GrantInvariant, UNCHANGED vars
    PROVE  GrantInvariant' /\ UNCHANGED [p \in PlanIds |-> PlanState(p)]
  <1>1. UNCHANGED <<req, plans, issued, applied>>
    BY DEF vars, planVars
  <1>2. GrantInvariant'
    BY <1>1 DEF GrantInvariant, RequestsFormed, PlansNumbered, PlansExclusive, Claims, Used
  <1>3. UNCHANGED [p \in PlanIds |-> PlanState(p)]
    BY <1>1 DEF PlanState, Stage, Holders, Claims
  <1>4. QED
    BY <1>2, <1>3

-----------------------------------------------------------------------------

\* A plan is in one place at a time, in every behaviour of the routes.
THEOREM GrantInvariantAlways == RoutesSpec => []GrantInvariant
  <1>1. GrantInvariant /\ [RoutesNext]_vars => GrantInvariant'
    BY GrantNext, GrantStutters
  <1>2. QED
    BY <1>1, GrantInitially, PTL DEF RoutesSpec

\* The routes implement OneShotGrant: a prepared plan is claimed by one request,
\* while no other holds it, its edit is applied once or not at all, and it never comes
\* back (#plans and
\* #consumePlan of edit-routes.ts).
THEOREM PlansImplementGrant == RoutesSpec => PlansAreOneShot
  <1>1. GrantInvariant /\ [RoutesNext]_vars
            => [Grant!Next]_([p \in PlanIds |-> PlanState(p)])
    BY GrantNext, GrantStutters
  <1>2. QED
    BY <1>1, GrantInitially, GrantInvariantAlways, PTL DEF RoutesSpec, PlansAreOneShot, Grant!Spec

-----------------------------------------------------------------------------
(* Plans and the documents they guard.                                     *)

\* The preconditions that a prepare has collected are about documents.
GuardsAreDocuments ==
    \A r \in Requests : req[r].op \in Prepares =>
        "guards" \in DOMAIN req[r] /\ DOMAIN req[r].guards \subseteq Docs

PlanGuardsAreDocuments == \A p \in DOMAIN plans : DOMAIN plans[p].guards \subseteq Docs

PlanInvariant ==
    /\ RequestsFormed
    /\ DOMAIN version = Docs
    /\ GuardsAreDocuments
    /\ PlanGuardsAreDocuments
    /\ PlansFollowDocuments

\* The part of the invariant about the store.
StoreFollows == DOMAIN version = Docs /\ PlanGuardsAreDocuments /\ PlansFollowDocuments

\* It holds before any plan.
LEMMA PlanInitially == RoutesInit => PlanInvariant
  BY GrantInitially
  DEF RoutesInit, GrantInvariant, PlanInvariant, GuardsAreDocuments, PlanGuardsAreDocuments,
      PlansFollowDocuments, Idle, Prepares, Empty

\* The change event takes away the plans that guard a changed document before
\* any other code runs.
LEMMA ChangeEvent ==
    ASSUME StoreFollows, NEW D, NEW new, Changed(D, new)
    PROVE  StoreFollows'
  <1>1. \A p \in DOMAIN plans' : /\ p \in DOMAIN plans /\ plans'[p] = plans[p]
                                 /\ \A d \in D : d \notin DOMAIN plans[p].guards
    BY DEF Changed, Uncovered, Without, Covers
  <1>2. DOMAIN version' = Docs /\ \A d \in Docs \ D : version'[d] = version[d]
    BY DEF Changed
  <1>3. unseen' = unseen
    BY DEF Changed
  <1>4. QED
    BY <1>1, <1>2, <1>3 DEF StoreFollows, PlanGuardsAreDocuments, PlansFollowDocuments

\* Removing plans, with the documents as they are.
LEMMA FewerPlans ==
    ASSUME StoreFollows, UNCHANGED <<version, unseen>>,
           \A p \in DOMAIN plans' : p \in DOMAIN plans /\ plans'[p] = plans[p]
    PROVE  StoreFollows'
  BY DEF StoreFollows, PlanGuardsAreDocuments, PlansFollowDocuments

\* What the editor and the connection do.
LEMMA EnvironmentFollows ==
    ASSUME StoreFollows, Environment
    PROVE  StoreFollows'
  <1>1. CASE \E d \in Docs, new \in Texts : documentChanged(d, new)
    BY <1>1, ChangeEvent DEF documentChanged
  <1>2. ASSUME NEW d \in Docs, NEW new, DiskChange(d, new)
        PROVE  StoreFollows'
    BY <1>2
    DEF DiskChange, planVars, StoreFollows, PlanGuardsAreDocuments, PlansFollowDocuments
  <1>3. ASSUME NEW d \in Docs, invalidateForUri(d)
        PROVE  StoreFollows'
    <2>1. \A p \in DOMAIN plans' : /\ p \in DOMAIN plans /\ plans'[p] = plans[p]
                                   /\ d \notin DOMAIN plans[p].guards
      BY <1>3 DEF invalidateForUri, Uncovered, Without, Covers
    <2>2. version' = version /\ unseen' = unseen \ {d}
      BY <1>3 DEF invalidateForUri
    <2>3. QED
      BY <2>1, <2>2 DEF StoreFollows, PlanGuardsAreDocuments, PlansFollowDocuments
  <1>4. CASE workspaceProjectionChanged \/ Reconnected \/ \E p \in PlanIds : discardPlan(p)
    BY <1>4, FewerPlans
    DEF workspaceProjectionChanged, Reconnected, discardPlan, docVars, planVars, Without, Empty
  <1>5. QED
    BY <1>1, <1>2, <1>3, <1>4 DEF Environment

\* A plan is stored with the versions that its documents have at that moment.
LEMMA StoredFollows ==
    ASSUME StoreFollows, GuardsAreDocuments, NEW r \in Requests, StorePlan(r)
    PROVE  StoreFollows'
  <1>1. UNCHANGED <<version, unseen>>
    BY DEF StorePlan, docVars
  <1>2. CASE plans' = plans
    BY <1>1, <1>2, FewerPlans
  <1>3. CASE plans' # plans
    <2>1. /\ DOMAIN NewPlan(r).guards \subseteq Docs
          /\ \A d \in DOMAIN NewPlan(r).guards : NewPlan(r).born[d] = version[d]
      BY DEF NewPlan, StorePlan, GuardsAreDocuments
    <2>2. plans' = With(plans, issued + 1, NewPlan(r))
      BY <1>3 DEF StorePlan
    <2>3. \A p \in DOMAIN plans' :
            plans'[p] = NewPlan(r) \/ (p \in DOMAIN plans /\ plans'[p] = plans[p])
      BY <2>2 DEF With
    <2>4. QED
      BY <1>1, <2>1, <2>3 DEF StoreFollows, PlanGuardsAreDocuments, PlansFollowDocuments
  <1>4. QED
    BY <1>2, <1>3

\* What the requests do.
LEMMA RequestFollows ==
    ASSUME StoreFollows, GuardsAreDocuments, NEW r \in Requests,
           Cancel(r) \/ SymbolRequest(r) \/ PrepareRequest(r) \/ ApplyRequest(r)
    PROVE  StoreFollows'
  <1>1. CASE Cancel(r) \/ SymbolRequest(r)
    BY <1>1, FewerPlans
    DEF Cancel, SymbolRequest, StartBracket, SecondRead, Materialize, NoSymbol, StartSearch,
        FinishSearch, docVars, planVars
  <1>2. CASE PrepareRequest(r)
    BY <1>2, FewerPlans, StoredFollows
    DEF PrepareRequest, StartRename, StartPrepare, ProvideEdit, CollectPrecondition, docVars,
        planVars
  <1>3. CASE ApplyRequest(r)
    <2>1. CASE \/ \E p \in PlanIds : StartApply(r, p)
               \/ \E d \in Docs : CheckPrecondition(r, d)
               \/ FinishApply(r) \/ EditRefused(r)
      BY <2>1, FewerPlans
      DEF StartApply, CheckPrecondition, FinishApply, EditRefused, docVars, planVars, Without
    <2>2. CASE \E new \in [Docs -> Texts] : applyEdit(r, new)
      BY <2>2, ChangeEvent DEF applyEdit
    <2>3. CASE \E d \in Docs, new \in Texts \cup {Gone} : SaveDocument(r, d, new)
      BY <2>3, FewerPlans, ChangeEvent DEF SaveDocument, docVars
    <2>4. QED
      BY <1>3, <2>1, <2>2, <2>3 DEF ApplyRequest
  <1>4. QED
    BY <1>1, <1>2, <1>3

\* What a prepare has collected stays about documents.
LEMMA GuardsKept ==
    ASSUME RequestsFormed, GuardsAreDocuments, RoutesNext
    PROVE  GuardsAreDocuments'
  <1>1. CASE Environment
    <2>1. CASE Reconnected
      BY <2>1 DEF Reconnected, HandedOver, RequestsFormed, GuardsAreDocuments, Prepares, Idle
    <2>2. CASE ~Reconnected
      <3>1. UNCHANGED req
        BY <1>1, <2>2 DEF Environment, documentChanged, DiskChange, invalidateForUri,
            workspaceProjectionChanged, discardPlan
      <3>2. QED
        BY <3>1 DEF GuardsAreDocuments
    <2>3. QED
      BY <2>1, <2>2
  <1>2. ASSUME NEW r \in Requests,
               Cancel(r) \/ SymbolRequest(r) \/ PrepareRequest(r) \/ ApplyRequest(r)
        PROVE  GuardsAreDocuments'
    <2>1. ASSUME NEW q, Waits(r, q), "op" \in DOMAIN q,
                 q.op \in Prepares => "guards" \in DOMAIN q /\ DOMAIN q.guards \subseteq Docs
          PROVE  GuardsAreDocuments'
      BY <2>1 DEF Waits, RequestsFormed, GuardsAreDocuments
    <2>2. CASE Ends(r) \/ UNCHANGED req
      BY <2>2 DEF Ends, Idle, RequestsFormed, GuardsAreDocuments, Prepares
    <2>3. CASE Cancel(r)
      BY <2>1, <2>2, <2>3 DEF Cancel, HandedOver, RequestsFormed, Prepares
    <2>4. CASE SymbolRequest(r)
      BY <2>1, <2>2, <2>4
      DEF SymbolRequest, StartBracket, SecondRead, Materialize, NoSymbol, StartSearch,
          FinishSearch, Bracketed, RequestsFormed, Prepares
    <2>5. CASE PrepareRequest(r)
      BY <2>1, <2>2, <2>5
      DEF PrepareRequest, StartRename, StartPrepare, ProvideEdit, CollectPrecondition, StorePlan,
          With, Empty, RequestsFormed, GuardsAreDocuments, Prepares
    <2>6. CASE ApplyRequest(r)
      BY <2>1, <2>2, <2>6
      DEF ApplyRequest, StartApply, CheckPrecondition, applyEdit, EditRefused, SaveDocument, FinishApply,
          RequestsFormed, Prepares
    <2>7. QED
      BY <1>2, <2>3, <2>4, <2>5, <2>6
  <1>3. QED
    BY <1>1, <1>2 DEF RoutesNext

\* No plan in store outlives a change of a document it guards, except for the
\* time until the file watcher's event (invalidateDocument of edit-routes.ts and
\* its callers in extension.ts).
THEOREM PlansFollow == RoutesSpec => []PlansFollowDocuments
  <1>1. GrantInvariant /\ PlanInvariant /\ [RoutesNext]_vars => PlanInvariant'
    <2>1. ASSUME GrantInvariant, PlanInvariant, RoutesNext
          PROVE  PlanInvariant'
      <3>1. RequestsFormed'
        BY <2>1, GrantNext DEF GrantInvariant
      <3>2. StoreFollows'
        BY <2>1, EnvironmentFollows, RequestFollows DEF RoutesNext, PlanInvariant, StoreFollows
      <3>3. GuardsAreDocuments'
        BY <2>1, GuardsKept DEF PlanInvariant
      <3>4. QED
        BY <3>1, <3>2, <3>3 DEF PlanInvariant, StoreFollows
    <2>2. PlanInvariant /\ UNCHANGED vars => PlanInvariant'
      BY DEF vars, docVars, planVars, PlanInvariant, RequestsFormed, GuardsAreDocuments,
          PlanGuardsAreDocuments, PlansFollowDocuments
    <2>3. QED
      BY <2>1, <2>2
  <1>2. PlanInvariant => PlansFollowDocuments
    BY DEF PlanInvariant
  <1>3. QED
    BY <1>1, <1>2, PlanInitially, GrantInvariantAlways, PTL DEF RoutesSpec

-----------------------------------------------------------------------------
(* The registry of handles.                                                *)

\* A value of the registry: its handles are identifiers, its indexes are by
\* document, its generations a sequence.
RegistryFormed(h) ==
    /\ DOMAIN h = {"records", "trees", "generations", "hits"}
    /\ Live(h) \subseteq Ids
    /\ DOMAIN h.trees = Docs /\ DOMAIN h.hits = Docs
    /\ h.generations \in Seq(SUBSET Ids)
    /\ \A i \in Live(h) : /\ h.records[i].kind \in {"document", "transient"}
                          /\ h.records[i].doc \in Docs

IsOf(h, i, kind, d) == i \in Live(h) /\ h.records[i].kind = kind /\ h.records[i].doc = d

\* What CollectionsAgree says, of any value of the registry and handle by handle.
TreesFollow(h) == \A d \in Docs : \A i : i \in h.trees[d] <=> IsOf(h, i, "document", d)

HitsFollow(h) == \A d \in Docs : \A i : i \in h.hits[d] <=> IsOf(h, i, "transient", d)

HitsGenerated(h) ==
    \A d \in Docs : \A i \in h.hits[d] : \E g \in DOMAIN h.generations : i \in h.generations[g]

GenerationsHit(h) ==
    \A g \in DOMAIN h.generations : \A i \in h.generations[g] : \E d \in Docs : i \in h.hits[d]

GenerationsApart(h) ==
    \A f, g \in DOMAIN h.generations :
        f # g => \A i \in h.generations[f] : i \notin h.generations[g]

Agrees(h) ==
    /\ RegistryFormed(h)
    /\ TreesFollow(h) /\ HitsFollow(h)
    /\ HitsGenerated(h) /\ GenerationsHit(h) /\ GenerationsApart(h)

\* Some handles are gone and the others are as they were.
FewerHandles(g, h) == Live(g) \subseteq Live(h) /\ \A i \in Live(g) : g.records[i] = h.records[i]

\* The registry at first, and after invalidateAll.
LEMMA NothingAgrees == Agrees(NoHandles) /\ Live(NoHandles) = {} /\ NoHandles.generations = <<>>
  BY DEF Agrees, RegistryFormed, TreesFollow, HitsFollow, HitsGenerated, GenerationsHit,
      GenerationsApart, IsOf, NoHandles, Live, Empty

\* What the invariant is for.
LEMMA AgreementImplies == Agrees(handles) => CollectionsAgree
  <1> SUFFICES ASSUME Agrees(handles) PROVE CollectionsAgree
    OBVIOUS
  <1> DEFINE Of(kind, d) == {i \in Live(handles) : handles.records[i].kind = kind
                                                   /\ handles.records[i].doc = d}
  <1>1. \A d \in Docs : handles.trees[d] = Of("document", d) /\ handles.hits[d] = Of("transient", d)
    BY DEF Agrees, TreesFollow, HitsFollow, IsOf
  <1>2. Flat(handles.generations) = UNION {handles.hits[d] : d \in Docs}
    BY DEF Agrees, HitsGenerated, GenerationsHit, Flat
  <1>3. \A i, j \in DOMAIN handles.generations :
            i # j => handles.generations[i] \cap handles.generations[j] = {}
    BY DEF Agrees, GenerationsApart
  <1>4. QED
    BY <1>1, <1>2, <1>3 DEF CollectionsAgree

\* An eviction takes whole generations off the front and nothing else.
LEMMA EvictionAgrees ==
    ASSUME NEW h, Agrees(h), NEW k \in 0 .. Len(h.generations)
    PROVE  LET g == evictOldestTransient(h, k)
           IN  /\ Agrees(g) /\ FewerHandles(g, h) /\ g.trees = h.trees
               /\ Len(g.generations) = Len(h.generations) - k
  <1> DEFINE g == evictOldestTransient(h, k)
             gone == UNION {h.generations[i] : i \in 1 .. k}
             n == Len(h.generations)
  <1>1. RegistryFormed(h) /\ h.generations \in Seq(SUBSET Ids) /\ n \in Nat /\ k \in 0 .. n
    BY DEF Agrees, RegistryFormed
  <1>2. /\ DOMAIN g = DOMAIN h
        /\ g.records = Without(h.records, gone) /\ g.trees = h.trees
        /\ g.generations = SubSeq(h.generations, k + 1, n)
        /\ g.hits = [d \in Docs |-> h.hits[d] \ gone]
    BY <1>1 DEF RegistryFormed, evictOldestTransient
  <1>3. SubSeq(h.generations, k + 1, n) \in Seq(SUBSET Ids)
        /\ Len(SubSeq(h.generations, k + 1, n)) = n - k
        /\ \A i \in 1 .. n - k : SubSeq(h.generations, k + 1, n)[i] = h.generations[i + k]
    BY <1>1
  <1>4. \A i : i \in gone <=> \E j \in 1 .. k : i \in h.generations[j]
    OBVIOUS
  <1>5. DOMAIN h.generations = 1 .. n
    BY <1>1
  <1> HIDE DEF g, gone, n
  <1>6. /\ Live(g) = Live(h) \ gone /\ \A i \in Live(g) : g.records[i] = h.records[i]
        /\ g.trees = h.trees
        /\ g.hits = [d \in Docs |-> h.hits[d] \ gone]
        /\ g.generations \in Seq(SUBSET Ids) /\ Len(g.generations) = n - k
        /\ DOMAIN g.generations = 1 .. n - k
        /\ \A i \in 1 .. n - k : i + k \in 1 .. n /\ g.generations[i] = h.generations[i + k]
    <2>1. Live(g) = Live(h) \ gone /\ \A i \in Live(g) : g.records[i] = h.records[i]
      BY <1>2 DEF Live, Without
    <2>2. /\ g.generations \in Seq(SUBSET Ids) /\ Len(g.generations) = n - k
          /\ \A i \in 1 .. n - k : g.generations[i] = h.generations[i + k]
      BY <1>2, <1>3
    <2>3. DOMAIN g.generations = 1 .. n - k
      BY <2>2
    <2>4. \A i \in 1 .. n - k : i + k \in 1 .. n
      BY <1>1
    <2>5. QED
      BY <1>2, <2>1, <2>2, <2>3, <2>4
  <1>7. RegistryFormed(g) /\ FewerHandles(g, h)
    BY <1>1, <1>2, <1>6 DEF RegistryFormed, FewerHandles
  <1>8. TreesFollow(g)
    <2>1. \A i \in gone : \E d \in Docs : IsOf(h, i, "transient", d)
      BY <1>1, <1>4, <1>5 DEF Agrees, GenerationsHit, HitsFollow
    <2>2. \A i \in gone : \A d \in Docs : ~IsOf(h, i, "document", d)
      BY <2>1 DEF IsOf
    <2>3. \A d \in Docs : \A i : IsOf(g, i, "document", d) <=> IsOf(h, i, "document", d)
      BY <1>6, <2>2 DEF IsOf
    <2>4. QED
      BY <1>6, <2>3 DEF Agrees, TreesFollow
  <1>9. HitsFollow(g)
    <2>1. \A d \in Docs : \A i : IsOf(g, i, "transient", d) <=> IsOf(h, i, "transient", d) /\ i \notin gone
      BY <1>6 DEF IsOf
    <2>2. QED
      BY <1>6, <2>1 DEF Agrees, HitsFollow
  <1>10. HitsGenerated(g)
    <2>1. ASSUME NEW d \in Docs, NEW i \in g.hits[d]
          PROVE  \E f \in DOMAIN g.generations : i \in g.generations[f]
      <3>1. i \in h.hits[d] /\ i \notin gone
        BY <1>6, <2>1
      <3>2. PICK f \in 1 .. n : i \in h.generations[f]
        BY <1>5, <3>1 DEF Agrees, HitsGenerated
      <3>3. ~(f \in 1 .. k)
        BY <1>4, <3>1, <3>2
      <3>4. f - k \in 1 .. n - k /\ (f - k) + k = f
        BY <1>1, <3>2, <3>3
      <3>5. QED
        BY <1>6, <3>2, <3>4
    <2>2. QED
      BY <2>1 DEF HitsGenerated
  <1>11. GenerationsHit(g)
    <2>1. ASSUME NEW f \in 1 .. n - k, NEW i \in g.generations[f]
          PROVE  \E d \in Docs : i \in g.hits[d]
      <3>1. i \in h.generations[f + k] /\ f + k \in 1 .. n
        BY <1>6, <2>1
      <3>2. \A j \in 1 .. k : j \in 1 .. n /\ j # f + k
        BY <1>1
      <3>3. i \notin gone
        BY <1>4, <1>5, <3>1, <3>2 DEF Agrees, GenerationsApart
      <3>4. PICK d \in Docs : i \in h.hits[d]
        BY <1>5, <3>1 DEF Agrees, GenerationsHit
      <3>5. QED
        BY <1>6, <3>3, <3>4
    <2>2. QED
      BY <1>6, <2>1 DEF GenerationsHit
  <1>12. GenerationsApart(g)
    <2>1. \A e, f \in 1 .. n - k : e # f => e + k # f + k
      BY <1>1
    <2>2. ASSUME NEW e \in 1 .. n - k, NEW f \in 1 .. n - k, e # f, NEW i \in g.generations[e]
          PROVE  i \notin g.generations[f]
      <3>1. e + k # f + k /\ e + k \in 1 .. n /\ f + k \in 1 .. n
        BY <1>6, <2>1, <2>2
      <3>2. i \in h.generations[e + k] /\ g.generations[f] = h.generations[f + k]
        BY <1>6, <2>2
      <3>3. QED
        BY <1>5, <3>1, <3>2 DEF Agrees, GenerationsApart
    <2>3. QED
      BY <1>6, <2>2 DEF GenerationsApart
  <1>13. QED
    BY <1>6, <1>7, <1>8, <1>9, <1>10, <1>11, <1>12 DEF Agrees, g, n

\* The loop of reserveCapacity ends after some number of evictions.
LEMMA ReservationEvicts ==
    ASSUME NEW h, Agrees(h), NEW n, NEW replaced
    PROVE  \E k \in 0 .. Len(h.generations) :
            reserveCapacity(h, n, replaced) = evictOldestTransient(h, k)
  <1> DEFINE Enough(k) == Fits(evictOldestTransient(h, k), n, replaced)
             Needed(k) == k = Len(h.generations) \/ Enough(k)
             T == {k \in 0 .. Len(h.generations) : Needed(k)}
  <1>1. Len(h.generations) \in Nat
    BY DEF Agrees, RegistryFormed
  <1>2. T \subseteq Nat /\ T # {}
    <2>1. Len(h.generations) \in T
      BY <1>1
    <2>2. QED
      BY <1>1, <2>1
  <1> HIDE DEF Enough, T
  <1>3. PICK k \in T : \A j \in T : ~(<<j, k>> \in OpToRel(<, Nat))
    BY <1>2, WFMin, NatLessThanWellFounded, Zenon
  <1>4. \A j \in T : ~(j < k)
    BY <1>2, <1>3 DEF OpToRel
  <1>5. k \in 0 .. Len(h.generations) /\ Needed(k) /\ \A j \in 0 .. k - 1 : ~Needed(j)
    BY <1>1, <1>4 DEF T
  <1>6. (CHOOSE m \in 0 .. Len(h.generations) : Needed(m) /\ \A j \in 0 .. m - 1 : ~Needed(j))
            \in 0 .. Len(h.generations)
    BY <1>5
  <1>7. QED
    BY <1>6 DEF reserveCapacity, Enough

\* So it leaves the trees, and a registry that agrees.
LEMMA ReservationAgrees ==
    ASSUME NEW h, Agrees(h), NEW n, NEW replaced
    PROVE  LET g == reserveCapacity(h, n, replaced)
           IN  /\ Agrees(g) /\ FewerHandles(g, h) /\ g.trees = h.trees
               /\ Len(g.generations) <= Len(h.generations)
  <1>1. PICK k \in 0 .. Len(h.generations) :
            reserveCapacity(h, n, replaced) = evictOldestTransient(h, k)
    BY ReservationEvicts
  <1>2. Len(h.generations) \in Nat
    BY DEF Agrees, RegistryFormed
  <1>3. QED
    BY <1>1, <1>2, EvictionAgrees

\* An invalidation takes the handles of its documents from all four collections.
LEMMA InvalidationAgrees ==
    ASSUME NEW h, Agrees(h), NEW D \in SUBSET Docs
    PROVE  LET g == invalidateDocuments(h, D)
           IN  /\ Agrees(g) /\ FewerHandles(g, h)
               /\ \A i : i \in Live(g) <=> i \in Live(h) /\ h.records[i].doc \notin D
               /\ \A d \in Docs : g.trees[d] = IF d \in D THEN {} ELSE h.trees[d]
               /\ Len(g.generations) = Len(h.generations)
  <1> DEFINE g == invalidateDocuments(h, D)
             gone == UNION {h.trees[d] \cup h.hits[d] : d \in D}
  <1>1. /\ DOMAIN g = DOMAIN h
        /\ g.records = Without(h.records, gone)
        /\ g.trees = [d \in Docs |-> IF d \in D THEN {} ELSE h.trees[d]]
        /\ g.generations = [i \in DOMAIN h.generations |-> h.generations[i] \ gone]
        /\ g.hits = [d \in Docs |-> IF d \in D THEN {} ELSE h.hits[d]]
    BY DEF Agrees, RegistryFormed, invalidateDocuments
  <1>2. \A i : i \in gone <=> \E d \in D : i \in h.trees[d] \/ i \in h.hits[d]
    OBVIOUS
  <1> HIDE DEF g, gone
  <1>3. \A i : i \in gone => i \in Live(h) /\ h.records[i].doc \in D
    BY <1>2 DEF Agrees, TreesFollow, HitsFollow, IsOf
  <1>4. \A i \in Live(h) : \E kind \in {"document", "transient"} : IsOf(h, i, kind, h.records[i].doc)
    BY DEF Agrees, RegistryFormed, IsOf
  <1>5. \A i \in Live(h) : h.records[i].doc \in D => i \in gone
    BY <1>2, <1>4 DEF Agrees, TreesFollow, HitsFollow
  <1>6. /\ Live(g) = Live(h) \ gone /\ \A i \in Live(g) : g.records[i] = h.records[i]
    BY <1>1 DEF Live, Without
  <1>7. /\ g.generations \in Seq(SUBSET Ids) /\ Len(g.generations) = Len(h.generations)
        /\ DOMAIN g.generations = DOMAIN h.generations
        /\ \A f \in DOMAIN g.generations : g.generations[f] = h.generations[f] \ gone
    BY <1>1 DEF Agrees, RegistryFormed
  <1>8. RegistryFormed(g) /\ FewerHandles(g, h)
    BY <1>1, <1>6, <1>7 DEF Agrees, RegistryFormed, FewerHandles
  <1>9. \A i, kind, d : IsOf(g, i, kind, d) <=> IsOf(h, i, kind, d) /\ d \notin D
    BY <1>3, <1>5, <1>6 DEF IsOf
  <1>10. TreesFollow(g) /\ HitsFollow(g)
    BY <1>1, <1>9 DEF Agrees, TreesFollow, HitsFollow
  <1>11. HitsGenerated(g)
    <2>1. ASSUME NEW d \in Docs, NEW i \in g.hits[d]
          PROVE  \E f \in DOMAIN g.generations : i \in g.generations[f]
      <3>1. i \in h.hits[d] /\ d \notin D
        BY <1>1, <2>1
      <3>2. i \notin gone
        BY <1>3, <3>1 DEF Agrees, HitsFollow, IsOf
      <3>3. QED
        BY <1>7, <3>1, <3>2 DEF Agrees, HitsGenerated
    <2>2. QED
      BY <2>1 DEF HitsGenerated
  <1>12. GenerationsHit(g)
    <2>1. ASSUME NEW f \in DOMAIN g.generations, NEW i \in g.generations[f]
          PROVE  \E d \in Docs : i \in g.hits[d]
      <3>1. PICK d \in Docs : i \in h.hits[d]
        BY <1>7, <2>1 DEF Agrees, GenerationsHit
      <3>2. d \notin D
        BY <1>2, <1>7, <2>1, <3>1
      <3>3. QED
        BY <1>1, <3>1, <3>2
    <2>2. QED
      BY <2>1 DEF GenerationsHit
  <1>13. GenerationsApart(g)
    BY <1>7 DEF Agrees, GenerationsApart
  <1>14. QED
    BY <1>1, <1>3, <1>5, <1>6, <1>7, <1>8, <1>10, <1>11, <1>12, <1>13 DEF Agrees, g

\* The handles of a set have as many slots as it has members.
LEMMA HandlesFinite == ASSUME NEW S \in SUBSET Ids PROVE IsFiniteSet(S) /\ Cardinality(S) \in Nat
  BY HandleConstants, FS_Subset, FS_CardinalityType

\* With fewer handles there is no more than there was.
LEMMA FewerTakeLess ==
    ASSUME NEW g, NEW h, Agrees(h), FewerHandles(g, h)
    PROVE  size(g) <= size(h)
  <1>1. IsFiniteSet(Live(h)) /\ Live(g) \in SUBSET Live(h)
    BY HandlesFinite DEF Agrees, RegistryFormed, FewerHandles
  <1>2. QED
    BY <1>1, FS_Subset DEF size

\* What becomes of registry h when the tree of document d is minted.
TreeOutcome(h, g, d, ids, record) ==
    /\ Agrees(g)
    /\ \A i \in Live(g) : \/ i \in Live(h) /\ g.records[i] = h.records[i]
                          \/ i \in ids /\ g.records[i] = record
    /\ \A c \in Docs \ {d} : g.trees[c] = h.trees[c]
    /\ g.trees[d] \in {h.trees[d], ids}
    /\ Live(g) \subseteq Live(h) \/ g.trees[d] = ids
    /\ Len(g.generations) <= Len(h.generations)
    /\ size(h) <= MaxHandles => size(g) <= MaxHandles

\* A new tree replaces the old one and fits where the old one was; search results
\* about the document go with it.  When there is no room, only evictions happen.
LEMMA MaterializeAgrees ==
    ASSUME NEW h, Agrees(h), NEW d \in Docs, NEW ids \in SUBSET (Ids \ Live(h)),
           NEW record, record.kind = "document", record.doc = d
    PROVE  TreeOutcome(h, materialize(h, d, ids, record), d, ids, record)
  <1> DEFINE n == Cardinality(ids)
             replaced == Cardinality(h.trees[d])
             room == reserveCapacity(h, n, replaced)
             cleared == invalidateDocuments(room, {d})
             g == [cleared EXCEPT !.records = [i \in DOMAIN @ \cup ids |->
                                                 IF i \in ids THEN record ELSE @[i]],
                                  !.trees[d] = ids]
  <1>1. /\ Agrees(room) /\ FewerHandles(room, h) /\ room.trees = h.trees
        /\ Len(room.generations) <= Len(h.generations)
    BY ReservationAgrees
  <1>2. materialize(h, d, ids, record) = IF ~Fits(room, n, replaced) THEN room ELSE g
    BY DEF materialize
  <1>3. CASE ~Fits(room, n, replaced)
    <2> HIDE DEF n, replaced, room
    <2>1. size(room) <= size(h) /\ size(room) \in Nat /\ size(h) \in Nat
      BY <1>1, FewerTakeLess, HandlesFinite DEF Agrees, RegistryFormed, size
    <2>2. QED
      BY <1>1, <1>2, <1>3, <2>1, HandleConstants DEF FewerHandles, TreeOutcome
  <1>4. CASE Fits(room, n, replaced)
    <2>1. /\ Agrees(cleared) /\ FewerHandles(cleared, room)
          /\ \A i : i \in Live(cleared) <=> i \in Live(room) /\ room.records[i].doc # d
          /\ \A c \in Docs : cleared.trees[c] = IF c = d THEN {} ELSE room.trees[c]
          /\ Len(cleared.generations) = Len(room.generations)
      <3> HIDE DEF n, replaced, room
      <3>1. {d} \in SUBSET Docs /\ \A x : x \in {d} <=> x = d
        OBVIOUS
      <3>2. QED
        BY <1>1, <3>1, InvalidationAgrees
    <2> HIDE DEF n, replaced, room, cleared
    <2>2. Live(cleared) \cap ids = {}
      BY <1>1, <2>1 DEF FewerHandles
    <2>3. /\ DOMAIN g = DOMAIN cleared
          /\ g.records = [i \in Live(cleared) \cup ids |->
                            IF i \in ids THEN record ELSE cleared.records[i]]
          /\ g.trees = [cleared.trees EXCEPT ![d] = ids]
          /\ g.generations = cleared.generations /\ g.hits = cleared.hits
      BY <2>1 DEF Agrees, RegistryFormed, Live
    <2> HIDE DEF g
    <2>4. /\ Live(g) = Live(cleared) \cup ids
          /\ \A i \in ids : g.records[i] = record
          /\ \A i \in Live(cleared) : g.records[i] = cleared.records[i]
      BY <2>2, <2>3 DEF Live
    <2>5. RegistryFormed(g)
      BY <2>1, <2>3, <2>4 DEF Agrees, RegistryFormed
    <2>6. \A i, c : /\ IsOf(g, i, "document", c) <=> IsOf(cleared, i, "document", c) \/ (i \in ids /\ c = d)
                    /\ IsOf(g, i, "transient", c) <=> IsOf(cleared, i, "transient", c)
      BY <2>2, <2>4 DEF IsOf
    <2>7. \A i : ~IsOf(cleared, i, "document", d)
      BY <2>1 DEF IsOf, FewerHandles
    <2>8. TreesFollow(g)
      BY <2>1, <2>3, <2>6, <2>7 DEF Agrees, TreesFollow, RegistryFormed
    <2>9. HitsFollow(g) /\ HitsGenerated(g) /\ GenerationsHit(g) /\ GenerationsApart(g)
      BY <2>1, <2>3, <2>6
      DEF Agrees, HitsFollow, HitsGenerated, GenerationsHit, GenerationsApart
    <2>10. Agrees(g)
      BY <2>5, <2>8, <2>9 DEF Agrees
    <2>11. \A i \in Live(g) : \/ i \in Live(h) /\ g.records[i] = h.records[i]
                              \/ i \in ids /\ g.records[i] = record
      BY <1>1, <2>1, <2>4 DEF FewerHandles
    <2>12. g.trees[d] = ids /\ \A c \in Docs \ {d} : g.trees[c] = h.trees[c]
      BY <1>1, <2>1, <2>3 DEF Agrees, RegistryFormed
    <2>13. size(g) <= MaxHandles
      <3>1. h.trees[d] \subseteq Live(room) /\ \A i \in h.trees[d] : room.records[i].doc = d
        BY <1>1 DEF Agrees, TreesFollow, IsOf
      <3>2. Live(cleared) \subseteq Live(room) \ h.trees[d]
        BY <2>1, <3>1
      <3>3. IsFiniteSet(Live(room)) /\ IsFiniteSet(ids) /\ n \in Nat
            /\ Cardinality(Live(room)) \in Nat
        BY <1>1, HandlesFinite DEF Agrees, RegistryFormed, n
      <3>4. /\ IsFiniteSet(Live(room) \ h.trees[d])
            /\ Cardinality(Live(room) \ h.trees[d]) = Cardinality(Live(room)) - replaced
        <4>1. Live(room) \cap h.trees[d] = h.trees[d]
          BY <3>1
        <4>2. QED
          <5> DEFINE S == Live(room)
                     U == h.trees[d]
          <5>1. IsFiniteSet(S)
            BY <3>3
          <5> HIDE DEF S, U
          <5>2. IsFiniteSet(S \ U) /\ Cardinality(S \ U) = Cardinality(S) - Cardinality(S \cap U)
            BY <5>1, FS_Difference
          <5>3. QED
            BY <4>1, <5>2 DEF S, U, replaced
      <3>5. /\ IsFiniteSet(Live(cleared))
            /\ Cardinality(Live(cleared)) <= Cardinality(Live(room)) - replaced
        BY <3>2, <3>4, FS_Subset
      <3>6. Cardinality(Live(g)) = Cardinality(Live(cleared)) + n
        <4>1. Cardinality(Live(cleared) \cap ids) = 0
          BY <2>2, FS_EmptySet
        <4>2. Cardinality(Live(cleared)) \in Nat
          BY <3>5, FS_CardinalityType
        <4>3. QED
          <5> DEFINE S == Live(cleared)
          <5>1. IsFiniteSet(S) /\ IsFiniteSet(ids)
            BY <3>3, <3>5
          <5> HIDE DEF S
          <5>2. Cardinality(S \cup ids) = Cardinality(S) + Cardinality(ids) - Cardinality(S \cap ids)
            BY <5>1, FS_Union
          <5>3. QED
            BY <2>4, <3>3, <4>1, <4>2, <5>2 DEF S, n
      <3>7. replaced \in Nat /\ Cardinality(Live(cleared)) \in Nat
        BY <3>1, <3>3, <3>5, FS_Subset, FS_CardinalityType DEF replaced
      <3>8. QED
        BY <1>4, <3>3, <3>5, <3>6, <3>7, HandleConstants DEF Fits, size
    <2>14. QED
      <3>1. TreeOutcome(h, g, d, ids, record)
        BY <1>1, <2>1, <2>3, <2>10, <2>11, <2>12, <2>13 DEF TreeOutcome
      <3>2. QED
        BY <1>2, <1>4, <3>1
  <1>5. QED
    BY <1>3, <1>4

\* The drafts of search results: one for each identifier.
Drafts(ids, rec) == {[id |-> i, record |-> rec[i]] : i \in ids}

\* Drafts and identifiers correspond.
LEMMA DraftsOfIds ==
    ASSUME NEW ids \in SUBSET Ids, NEW rec
    PROVE  /\ {draft.id : draft \in Drafts(ids, rec)} = ids
           /\ \A i \in ids : (CHOOSE draft \in Drafts(ids, rec) : draft.id = i).record = rec[i]
           /\ Cardinality(Drafts(ids, rec)) = Cardinality(ids)
  <1> DEFINE f == [i \in ids |-> [id |-> i, record |-> rec[i]]]
  <1>0. /\ \A i \in ids : [id |-> i, record |-> rec[i]] \in Drafts(ids, rec)
        /\ \A draft \in Drafts(ids, rec) : draft.id \in ids /\ draft.record = rec[draft.id]
    BY DEF Drafts
  <1>1. {draft.id : draft \in Drafts(ids, rec)} = ids
    <2>1. ASSUME NEW i \in ids PROVE \E draft \in Drafts(ids, rec) : i = draft.id
      <3> [id |-> i, record |-> rec[i]] \in Drafts(ids, rec)
        BY <1>0
      <3>1. WITNESS [id |-> i, record |-> rec[i]] \in Drafts(ids, rec)
      <3>2. QED
        OBVIOUS
    <2>2. \A draft \in Drafts(ids, rec) : draft.id \in ids
      BY <1>0
    <2>3. QED
      BY <2>1, <2>2
  <1>2. ASSUME NEW i \in ids
        PROVE  (CHOOSE draft \in Drafts(ids, rec) : draft.id = i).record = rec[i]
    <2>1. [id |-> i, record |-> rec[i]] \in Drafts(ids, rec)
          /\ [id |-> i, record |-> rec[i]].id = i
      BY <1>0
    <2>2. QED
      BY <1>0, <2>1
  <1>3. f \in Bijection(ids, Drafts(ids, rec))
    <2>1. f \in [ids -> Drafts(ids, rec)]
      BY DEF Drafts
    <2>2. \A i, j \in ids : f[i] = f[j] => i = j
      OBVIOUS
    <2>3. \A draft \in Drafts(ids, rec) : \E i \in ids : f[i] = draft
      BY DEF Drafts
    <2>4. QED
      BY <2>1, <2>2, <2>3 DEF Bijection, Injection, Surjection, IsInjective
  <1>4. Cardinality(Drafts(ids, rec)) = Cardinality(ids)
    BY <1>3, HandlesFinite, FS_Bijection DEF ExistsBijection
  <1>5. QED
    BY <1>1, <1>2, <1>4

\* What becomes of registry h when search results are minted.
HitsOutcome(h, g, ids, rec) ==
    /\ Agrees(g)
    /\ \A i \in Live(g) : \/ i \in Live(h) /\ g.records[i] = h.records[i]
                          \/ i \in ids /\ g.records[i] = rec[i]
    /\ g.trees = h.trees
    /\ Len(h.generations) <= MAX_TRANSIENT_GENERATIONS
         => Len(g.generations) <= MAX_TRANSIENT_GENERATIONS
    /\ size(h) <= MaxHandles => size(g) <= MaxHandles

\* Search results become the youngest generation; the oldest go for it, and no
\* tree does.
LEMMA TransientAgrees ==
    ASSUME NEW h, Agrees(h), NEW ids \in SUBSET (Ids \ Live(h)), NEW rec,
           \A i \in ids : rec[i].kind = "transient" /\ rec[i].doc \in Docs
    PROVE  HitsOutcome(h, materializeTransient(h, Drafts(ids, rec)), ids, rec)
  <1> DEFINE drafts == Drafts(ids, rec)
             n == Cardinality(drafts)
             Of(i) == (CHOOSE draft \in drafts : draft.id = i).record
             names == {draft.id : draft \in drafts}
             room == reserveCapacity(h, n, 0)
             made == [room EXCEPT
                        !.records = [i \in DOMAIN @ \cup names |-> IF i \in names THEN Of(i) ELSE @[i]],
                        !.generations = Append(@, names),
                        !.hits = [d \in Docs |-> @[d] \cup {i \in names : Of(i).doc = d}]]
             added == [room EXCEPT
                        !.records = [i \in DOMAIN @ \cup ids |-> IF i \in ids THEN rec[i] ELSE @[i]],
                        !.generations = Append(@, ids),
                        !.hits = [d \in Docs |-> @[d] \cup {i \in ids : rec[i].doc = d}]]
             length == Len(added.generations)
             excess == IF length > MAX_TRANSIENT_GENERATIONS
                       THEN length - MAX_TRANSIENT_GENERATIONS ELSE 0
             g == evictOldestTransient(added, excess)
  <1>1. names = ids /\ (\A i \in ids : Of(i) = rec[i]) /\ n = Cardinality(ids)
    BY DraftsOfIds
  <1>2. /\ Agrees(room) /\ FewerHandles(room, h) /\ room.trees = h.trees
        /\ Len(room.generations) <= Len(h.generations)
    BY ReservationAgrees
  <1>3. made = added
    <2> HIDE DEF names, Of, room
    <2>1. \A d \in Docs : {i \in names : Of(i).doc = d} = {i \in ids : rec[i].doc = d}
      BY <1>1
    <2>2. \A S : [i \in S \cup names |-> IF i \in names THEN Of(i) ELSE room.records[i]]
                   = [i \in S \cup ids |-> IF i \in ids THEN rec[i] ELSE room.records[i]]
      BY <1>1
    <2>3. [d \in Docs |-> room.hits[d] \cup {i \in names : Of(i).doc = d}]
            = [d \in Docs |-> room.hits[d] \cup {i \in ids : rec[i].doc = d}]
      BY <2>1
    <2>4. Append(room.generations, names) = Append(room.generations, ids)
      BY <1>1
    <2>5. QED
      BY <2>2, <2>3, <2>4
  <1>4. materializeTransient(h, drafts) =
            IF ~Fits(room, n, 0) THEN room ELSE g
    <2>1. materializeTransient(h, drafts) =
            IF ~Fits(room, n, 0) THEN room
            ELSE LET len == Len(made.generations)
                     more == IF len > MAX_TRANSIENT_GENERATIONS
                             THEN len - MAX_TRANSIENT_GENERATIONS ELSE 0
                 IN  evictOldestTransient(made, more)
      BY DEF materializeTransient
    <2> HIDE DEF made, added
    <2>2. QED
      BY <1>3, <2>1
  <1> HIDE DEF drafts, n, names, Of, room, made
  <1>5. size(room) <= size(h) /\ size(room) \in Nat /\ size(h) \in Nat
        /\ Len(room.generations) \in Nat /\ Len(h.generations) \in Nat
    BY <1>2, FewerTakeLess, HandlesFinite DEF Agrees, RegistryFormed, size
  <1>6. CASE ~Fits(room, n, 0)
    BY <1>2, <1>4, <1>5, <1>6, HandleConstants DEF FewerHandles, drafts, HitsOutcome
  <1>7. CASE Fits(room, n, 0)
    <2>1. /\ DOMAIN added = DOMAIN room
          /\ added.records = [i \in Live(room) \cup ids |->
                                IF i \in ids THEN rec[i] ELSE room.records[i]]
          /\ added.trees = room.trees
          /\ added.generations = Append(room.generations, ids)
          /\ added.hits = [d \in Docs |-> room.hits[d] \cup {i \in ids : rec[i].doc = d}]
      BY <1>2 DEF Agrees, RegistryFormed, Live
    <2> HIDE DEF added
    <2>2. Live(room) \cap ids = {} /\ ids \in SUBSET Ids
      BY <1>2 DEF FewerHandles
    <2>3. /\ Live(added) = Live(room) \cup ids
          /\ \A i \in ids : added.records[i] = rec[i]
          /\ \A i \in Live(room) : added.records[i] = room.records[i]
      BY <2>1, <2>2 DEF Live
    <2>4. /\ added.generations \in Seq(SUBSET Ids) /\ length = Len(room.generations) + 1
          /\ DOMAIN room.generations = 1 .. Len(room.generations)
          /\ DOMAIN added.generations = 1 .. Len(room.generations) + 1
          /\ \A f \in 1 .. Len(room.generations) : added.generations[f] = room.generations[f]
          /\ added.generations[Len(room.generations) + 1] = ids
      BY <1>2, <2>1, <2>2 DEF Agrees, RegistryFormed
    <2>5. RegistryFormed(added)
      BY <1>2, <2>1, <2>3, <2>4 DEF Agrees, RegistryFormed
    <2>6. \A i, d : /\ IsOf(added, i, "document", d) <=> IsOf(room, i, "document", d)
                    /\ IsOf(added, i, "transient", d)
                        <=> IsOf(room, i, "transient", d) \/ (i \in ids /\ rec[i].doc = d)
      BY <2>2, <2>3 DEF IsOf
    <2>7. TreesFollow(added) /\ HitsFollow(added)
      BY <1>2, <2>1, <2>6 DEF Agrees, TreesFollow, HitsFollow
    <2>8. HitsGenerated(added)
      <3>1. ASSUME NEW d \in Docs, NEW i \in added.hits[d]
            PROVE  \E f \in DOMAIN added.generations : i \in added.generations[f]
        <4>1. CASE i \in ids
          BY <1>5, <2>4, <4>1
        <4>2. CASE i \notin ids
          <5>1. i \in room.hits[d]
            BY <2>1, <3>1, <4>2
          <5>2. PICK f \in 1 .. Len(room.generations) : i \in room.generations[f]
            BY <1>2, <2>4, <5>1 DEF Agrees, HitsGenerated
          <5>3. f \in DOMAIN added.generations
            BY <1>5, <2>4
          <5>4. QED
            BY <2>4, <5>2, <5>3
        <4>3. QED
          BY <4>1, <4>2
      <3>2. QED
        BY <3>1 DEF HitsGenerated
    <2>9. \A f \in DOMAIN added.generations :
            \/ f \in DOMAIN room.generations /\ added.generations[f] = room.generations[f]
            \/ f = Len(room.generations) + 1 /\ added.generations[f] = ids
      BY <1>5, <2>4
    <2>10. GenerationsHit(added)
      <3>1. \A d \in Docs : room.hits[d] \subseteq added.hits[d]
        BY <2>1
      <3>2. \A i \in ids : i \in added.hits[rec[i].doc]
        BY <2>1
      <3>3. QED
        BY <1>2, <2>9, <3>1, <3>2 DEF Agrees, GenerationsHit
    <2>11. \A f \in DOMAIN room.generations : room.generations[f] \cap ids = {}
      BY <1>2, <2>2 DEF Agrees, GenerationsHit, HitsFollow, IsOf
    <2>12. GenerationsApart(added)
      BY <1>2, <2>9, <2>11 DEF Agrees, GenerationsApart
    <2>13. Agrees(added)
      BY <2>5, <2>7, <2>8, <2>10, <2>12 DEF Agrees
    <2>14. /\ excess \in 0 .. Len(added.generations)
           /\ length - excess <= MAX_TRANSIENT_GENERATIONS
      BY <1>5, <2>4, HandleConstants
    <2>15. /\ Agrees(g) /\ FewerHandles(g, added) /\ g.trees = added.trees
           /\ Len(g.generations) = length - excess
      <3> HIDE DEF excess
      <3>1. QED
        BY <2>13, <2>14, EvictionAgrees
    <2>16. size(added) <= MaxHandles
      <3> DEFINE S == Live(room)
      <3>1. IsFiniteSet(S) /\ IsFiniteSet(ids) /\ Cardinality(ids) \in Nat /\ Cardinality(S) \in Nat
        BY <1>2, <2>2, HandlesFinite DEF Agrees, RegistryFormed
      <3>2. Cardinality(S \cap ids) = 0
        BY <2>2, FS_EmptySet
      <3> HIDE DEF S
      <3>3. Cardinality(S \cup ids) = Cardinality(S) + Cardinality(ids) - Cardinality(S \cap ids)
        BY <3>1, FS_Union
      <3>4. QED
        BY <1>1, <1>7, <2>3, <3>1, <3>2, <3>3, HandleConstants DEF Fits, size, S
    <2>17. size(g) <= MaxHandles
      <3>1. size(g) <= size(added) /\ size(g) \in Nat /\ size(added) \in Nat
        BY <2>13, <2>15, FewerTakeLess, HandlesFinite DEF Agrees, RegistryFormed, size
      <3>2. QED
        BY <2>16, <3>1, HandleConstants
    <2>18. \A i \in Live(g) : \/ i \in Live(h) /\ g.records[i] = h.records[i]
                              \/ i \in ids /\ g.records[i] = rec[i]
      BY <1>2, <2>3, <2>15 DEF FewerHandles
    <2> HIDE DEF excess, g
    <2>19. QED
      BY <1>2, <1>4, <1>7, <2>1, <2>14, <2>15, <2>17, <2>18 DEF drafts, HitsOutcome
  <1>8. QED
    BY <1>6, <1>7

-----------------------------------------------------------------------------
(* What the requests know of documents.                                    *)

\* The documents of a request, or of a plan, are documents of the workspace.
DocsKnown(q) ==
    /\ q.op \in Bracketed => "doc" \in DOMAIN q /\ q.doc \in Docs
    /\ q.op \in Prepares \cup {"apply"} =>
        /\ {"docs", "guards"} \subseteq DOMAIN q
        /\ q.docs \in SUBSET Docs /\ DOMAIN q.guards \in SUBSET Docs

\* An apply has checked every guarded document that it is not going to check, and
\* each had the guarded text then: it has it still, or its version went on.
Checked(q, now, ver) ==
    q.op = "apply" /\ q.at \in {"check", "apply"} =>
        /\ {"at", "todo", "checked", "guards"} \subseteq DOMAIN q
        /\ DOMAIN q.guards = q.todo \cup DOMAIN q.checked
        /\ q.at = "apply" => q.todo = {}
        /\ \A d \in DOMAIN q.checked :
            /\ q.checked[d] \in Nat /\ q.checked[d] <= ver[d]
            /\ now[d] = q.guards[d] \/ q.checked[d] < ver[d]

DocsTyped == DOMAIN text = Docs /\ version \in [Docs -> Nat]

PlansKnown ==
    \A p \in DOMAIN plans : plans[p].docs \in SUBSET Docs /\ DOMAIN plans[p].guards \in SUBSET Docs

RequestsKnown == \A r \in Requests : DocsKnown(req[r]) /\ Checked(req[r], text, version)

KnownInvariant == RequestsFormed /\ DocsTyped /\ PlansKnown /\ RequestsKnown

\* It holds before any request.
LEMMA KnownInitially == RoutesInit => KnownInvariant
  BY GrantInitially
  DEF RoutesInit, GrantInvariant, KnownInvariant, DocsTyped, PlansKnown, RequestsKnown, DocsKnown,
      Checked, Idle, Prepares, Bracketed, Empty

\* A text that changes gets another version.
DocsMove ==
    /\ DocsTyped'
    /\ \A d \in Docs : /\ version[d] <= version'[d]
                       /\ text'[d] = text[d] \/ version[d] < version'[d]

\* An event of the editor moves the documents it is about.
LEMMA ChangedMoves == ASSUME DocsTyped, NEW D, NEW new, Changed(D, new) PROVE DocsMove
  BY DEF DocsTyped, Changed, DocsMove

\* No document changes.
LEMMA DocsStay == ASSUME DocsTyped, UNCHANGED <<text, version>> PROVE DocsMove
  BY DEF DocsTyped, DocsMove

\* Every step that changes a text, in the editor or on disk.
LEMMA DocumentsMove == ASSUME DocsTyped, RoutesNext PROVE DocsMove
  <1>1. CASE Environment
    <2>1. ASSUME NEW d \in Docs, NEW new, DiskChange(d, new) PROVE DocsMove
      BY <2>1 DEF DiskChange, DocsTyped, DocsMove
    <2>2. QED
      BY <1>1, <2>1, ChangedMoves, DocsStay
      DEF Environment, documentChanged, invalidateForUri, workspaceProjectionChanged, Reconnected,
          discardPlan, docVars
  <1>2. ASSUME NEW r \in Requests, Cancel(r) \/ SymbolRequest(r) \/ PrepareRequest(r)
        PROVE  DocsMove
    BY <1>2, DocsStay
    DEF Cancel, SymbolRequest, StartBracket, SecondRead, Materialize, NoSymbol, StartSearch,
        FinishSearch, PrepareRequest, StartRename, StartPrepare, ProvideEdit, CollectPrecondition,
        StorePlan, docVars
  <1>3. ASSUME NEW r \in Requests, ApplyRequest(r) PROVE DocsMove
    BY <1>3, ChangedMoves, DocsStay
    DEF ApplyRequest, StartApply, CheckPrecondition, applyEdit, EditRefused, SaveDocument,
        FinishApply, docVars
  <1>4. QED
    BY <1>1, <1>2, <1>3 DEF RoutesNext

\* Checks stand while documents move.
LEMMA ChecksStand ==
    ASSUME DocsTyped, DocsMove, NEW q, DocsKnown(q), Checked(q, text, version)
    PROVE  Checked(q, text', version')
  <1>1. CASE ~(q.op = "apply" /\ q.at \in {"check", "apply"})
    BY <1>1 DEF Checked
  <1>2. CASE q.op = "apply" /\ q.at \in {"check", "apply"}
    <2>1. \A d \in DOMAIN q.checked : d \in Docs
      BY <1>2 DEF Checked, DocsKnown
    <2>2. \A d \in DOMAIN q.checked :
            /\ q.checked[d] \in Nat /\ version[d] \in Nat /\ version'[d] \in Nat
            /\ q.checked[d] <= version[d] /\ version[d] <= version'[d]
            /\ text[d] = q.guards[d] \/ q.checked[d] < version[d]
            /\ text'[d] = text[d] \/ version[d] < version'[d]
      BY <1>2, <2>1 DEF Checked, DocsTyped, DocsMove
    <2>3. \A d \in DOMAIN q.checked :
            /\ q.checked[d] <= version'[d]
            /\ text'[d] = q.guards[d] \/ q.checked[d] < version'[d]
      BY <2>2
    <2>4. QED
      BY <1>2, <2>3 DEF Checked
  <1>3. QED
    BY <1>1, <1>2

\* Request r goes on as q, the others as they were.
LEMMA KnownGoesOn ==
    ASSUME KnownInvariant, DocsMove, NEW r \in Requests, NEW q, Waits(r, q),
           DocsKnown(q), Checked(q, text', version')
    PROVE  RequestsKnown'
  <1>1. \A x \in Requests : req'[x] = IF x = r THEN q ELSE req[x]
    BY DEF KnownInvariant, RequestsFormed, Waits
  <1>2. \A x \in Requests : DocsKnown(req[x]) /\ Checked(req[x], text', version')
    BY ChecksStand DEF KnownInvariant, RequestsKnown
  <1>3. \A x \in Requests : DocsKnown(req'[x]) /\ Checked(req'[x], text', version')
    BY <1>1, <1>2
  <1>4. QED
    BY <1>3 DEF RequestsKnown

\* Request r ends.
LEMMA KnownEnds ==
    ASSUME KnownInvariant, DocsMove, NEW r \in Requests, Ends(r)
    PROVE  RequestsKnown'
  <1>1. DocsKnown(Idle) /\ Checked(Idle, text', version')
    BY DEF DocsKnown, Checked, Idle, Prepares, Bracketed
  <1>2. Waits(r, Idle)
    BY DEF Ends, Waits
  <1>3. QED
    BY <1>1, <1>2, KnownGoesOn

\* No request moves.
LEMMA KnownStays ==
    ASSUME KnownInvariant, DocsMove, UNCHANGED req
    PROVE  RequestsKnown'
  <1>1. \A x \in Requests : DocsKnown(req[x]) /\ Checked(req[x], text', version')
    BY ChecksStand DEF KnownInvariant, RequestsKnown
  <1>2. QED
    BY <1>1 DEF RequestsKnown

\* The steps of the requests that prepare nothing and apply nothing.
LEMMA SymbolKnows ==
    ASSUME KnownInvariant, DocsMove, NEW r \in Requests, SymbolRequest(r)
    PROVE  RequestsKnown'
  <1>1. ASSUME NEW d \in Docs, NEW op \in Bracketed, StartBracket(r, op, d) PROVE RequestsKnown'
    <2> DEFINE q == [op |-> op, at |-> "provider", doc |-> d, before |-> revision(d)]
    <2>1. Waits(r, q)
      BY <1>1 DEF StartBracket
    <2>2. DocsKnown(q) /\ Checked(q, text', version')
      BY DEF DocsKnown, Checked, Bracketed, Prepares
    <2> HIDE DEF q
    <2>3. QED
      BY <2>1, <2>2, KnownGoesOn
  <1>2. CASE SecondRead(r)
    <2>1. CASE Ends(r)
      BY <2>1, KnownEnds
    <2>2. CASE ~Ends(r)
      <3> DEFINE q == [req[r] EXCEPT !.at = "hash"]
      <3>1. Waits(r, q) /\ req[r].op \in Bracketed
        BY <1>2, <2>2 DEF SecondRead
      <3>2. DocsKnown(req[r]) /\ "op" \in DOMAIN req[r]
        BY DEF KnownInvariant, RequestsKnown, RequestsFormed
      <3>3. DocsKnown(q) /\ Checked(q, text', version')
        BY <3>1, <3>2 DEF DocsKnown, Checked, Bracketed, Prepares
      <3> HIDE DEF q
      <3>4. QED
        BY <3>1, <3>3, KnownGoesOn
    <2>3. QED
      BY <2>1, <2>2
  <1>3. CASE StartSearch(r)
    <2> DEFINE q == [op |-> "search", at |-> "provider", epoch |-> epoch]
    <2>1. Waits(r, q)
      BY <1>3 DEF StartSearch
    <2>2. DocsKnown(q) /\ Checked(q, text', version')
      BY DEF DocsKnown, Checked, Bracketed, Prepares
    <2> HIDE DEF q
    <2>3. QED
      BY <2>1, <2>2, KnownGoesOn
  <1>4. QED
    BY <1>1, <1>2, <1>3, KnownEnds DEF SymbolRequest, Materialize, NoSymbol, FinishSearch

\* The documents of a prepare come from the request and from its edit.
LEMMA PrepareKnows ==
    ASSUME KnownInvariant, DocsMove, NEW r \in Requests, PrepareRequest(r)
    PROVE  RequestsKnown'
  <1>1. ASSUME NEW D \in SUBSET Docs, NEW T,
               Waits(r, [op |-> "rename", at |-> "provider", epoch |-> epoch, docs |-> {},
                         guards |-> Empty, todo |-> {}])
               \/ Waits(r, [op |-> "prepare", at |-> "guards", epoch |-> epoch, docs |-> D,
                            guards |-> Empty, todo |-> T])
        PROVE  RequestsKnown'
    <2>1. PICK q : Waits(r, q) /\ {"docs", "guards"} \subseteq DOMAIN q /\ q.op \in Prepares
                    /\ q.docs \in SUBSET Docs /\ q.guards = Empty
      BY <1>1 DEF Prepares
    <2>2. DocsKnown(q) /\ Checked(q, text', version')
      BY <2>1 DEF DocsKnown, Checked, Bracketed, Prepares, Empty
    <2>3. QED
      BY <2>1, <2>2, KnownGoesOn
  <1>2. ASSUME NEW q, Waits(r, q), req[r].op \in Prepares, q.op = req[r].op,
               DOMAIN q = DOMAIN req[r],
               q.docs \in SUBSET Docs, DOMAIN q.guards \in SUBSET Docs
        PROVE  RequestsKnown'
    <2>1. DocsKnown(req[r])
      BY DEF KnownInvariant, RequestsKnown
    <2>2. DocsKnown(q) /\ Checked(q, text', version')
      BY <1>2, <2>1 DEF DocsKnown, Checked, Bracketed, Prepares
    <2>3. QED
      BY <1>2, <2>2, KnownGoesOn
  <1>3. DocsKnown(req[r]) /\ "op" \in DOMAIN req[r]
    BY DEF KnownInvariant, RequestsKnown, RequestsFormed
  <1>4. ASSUME NEW D \in SUBSET Docs, ProvideEdit(r, D) PROVE RequestsKnown'
    <2>1. PICK at, todo : Waits(r, [req[r] EXCEPT !.docs = D, !.at = at, !.todo = todo])
      BY <1>4 DEF ProvideEdit
    <2> DEFINE q == [req[r] EXCEPT !.docs = D, !.at = at, !.todo = todo]
    <2>2. /\ q.op = req[r].op /\ DOMAIN q = DOMAIN req[r]
          /\ q.docs \in SUBSET Docs /\ DOMAIN q.guards \in SUBSET Docs
      BY <1>3, <1>4 DEF ProvideEdit, DocsKnown, Prepares
    <2> HIDE DEF q
    <2>3. QED
      BY <1>2, <1>4, <2>1, <2>2 DEF ProvideEdit, q
  <1>5. ASSUME NEW d \in Docs, CollectPrecondition(r, d) PROVE RequestsKnown'
    <2>1. CASE Ends(r)
      BY <2>1, KnownEnds
    <2>2. CASE ~Ends(r)
      <3>1. PICK todo, at : Waits(r, [req[r] EXCEPT !.guards = With(@, d, text[d]),
                                                    !.todo = todo, !.at = at])
        BY <1>5, <2>2 DEF CollectPrecondition
      <3> DEFINE q == [req[r] EXCEPT !.guards = With(@, d, text[d]), !.todo = todo, !.at = at]
      <3>2. /\ q.op = req[r].op /\ DOMAIN q = DOMAIN req[r]
            /\ q.docs \in SUBSET Docs /\ DOMAIN q.guards \in SUBSET Docs
        BY <1>3, <1>5 DEF CollectPrecondition, DocsKnown, Prepares, With
      <3> HIDE DEF q
      <3>3. QED
        BY <1>2, <1>5, <3>1, <3>2 DEF CollectPrecondition, q
    <2>3. QED
      BY <2>1, <2>2
  <1>6. CASE StartRename(r)
    BY <1>1, <1>6 DEF StartRename
  <1>7. ASSUME NEW d \in Docs, StartPrepare(r, d) PROVE RequestsKnown'
    BY <1>1, <1>7 DEF StartPrepare
  <1>8. QED
    BY <1>4, <1>5, <1>6, <1>7, KnownEnds DEF PrepareRequest, StorePlan

\* An apply takes its documents from the plan and ticks them off one by one.
LEMMA ApplyKnows ==
    ASSUME KnownInvariant, DocsMove, NEW r \in Requests, ApplyRequest(r)
    PROVE  RequestsKnown'
  <1>0. /\ DocsKnown(req[r]) /\ Checked(req[r], text, version) /\ "op" \in DOMAIN req[r]
        /\ req[r].op = "apply" => "at" \in DOMAIN req[r]
    BY DEF KnownInvariant, RequestsKnown, RequestsFormed
  <1>1. ASSUME NEW p \in PlanIds, StartApply(r, p) PROVE RequestsKnown'
    <2>1. CASE UNCHANGED req
      BY <2>1, KnownStays
    <2>2. CASE ~UNCHANGED req
      <3> DEFINE q == [op |-> "apply", at |-> "check", plan |-> p, aborted |-> FALSE,
                       docs |-> plans[p].docs, guards |-> plans[p].guards,
                       todo |-> DOMAIN plans[p].guards, checked |-> Empty]
      <3>1. Waits(r, q) /\ p \in DOMAIN plans
        BY <1>1, <2>2 DEF StartApply
      <3>2. DocsKnown(q)
        BY <3>1 DEF DocsKnown, Bracketed, KnownInvariant, PlansKnown
      <3>3. Checked(q, text', version')
        BY DEF Checked, Empty
      <3> HIDE DEF q
      <3>4. QED
        BY <3>1, <3>2, <3>3, KnownGoesOn
    <2>3. QED
      BY <2>1, <2>2
  <1>2. ASSUME NEW d \in Docs, CheckPrecondition(r, d) PROVE RequestsKnown'
    <2>1. CASE Ends(r)
      BY <2>1, KnownEnds
    <2>2. CASE ~Ends(r)
      <3> DEFINE rest == req[r].todo \ {d}
                 q == [req[r] EXCEPT !.todo = rest, !.checked = With(@, d, version[d]),
                                     !.at = IF rest = {} THEN "apply" ELSE "check"]
      <3>1. /\ Waits(r, q) /\ text[d] = req[r].guards[d] /\ UNCHANGED <<text, version>>
            /\ req[r].op = "apply" /\ req[r].at = "check" /\ d \in req[r].todo
        BY <1>2, <2>2 DEF CheckPrecondition, docVars
      <3>2. /\ {"at", "todo", "checked", "guards", "docs"} \subseteq DOMAIN req[r]
            /\ DOMAIN req[r].guards = req[r].todo \cup DOMAIN req[r].checked
            /\ req[r].docs \in SUBSET Docs /\ DOMAIN req[r].guards \in SUBSET Docs
            /\ \A c \in DOMAIN req[r].checked :
                /\ req[r].checked[c] \in Nat /\ req[r].checked[c] <= version[c]
                /\ text[c] = req[r].guards[c] \/ req[r].checked[c] < version[c]
        BY <1>0, <3>1 DEF Checked, DocsKnown
      <3>3. /\ DOMAIN q = DOMAIN req[r] /\ q.op = "apply" /\ q.docs = req[r].docs
            /\ q.guards = req[r].guards /\ q.todo = rest
            /\ q.checked = With(req[r].checked, d, version[d])
            /\ q.at = IF rest = {} THEN "apply" ELSE "check"
        BY <1>0, <3>1, <3>2
      <3> HIDE DEF q
      <3>4. DocsKnown(q)
        BY <3>2, <3>3 DEF DocsKnown, Bracketed
      <3>5. /\ DOMAIN q.checked = DOMAIN req[r].checked \cup {d}
            /\ q.checked[d] = version[d]
            /\ \A c \in DOMAIN req[r].checked \ {d} : q.checked[c] = req[r].checked[c]
        BY <3>3 DEF With
      <3>6. version[d] \in Nat
        BY DEF KnownInvariant, DocsTyped
      <3>7. \A c \in DOMAIN q.checked :
                /\ q.checked[c] \in Nat /\ q.checked[c] <= version[c]
                /\ text[c] = q.guards[c] \/ q.checked[c] < version[c]
        BY <3>1, <3>2, <3>3, <3>5, <3>6
      <3>8. DOMAIN q.guards = q.todo \cup DOMAIN q.checked
        BY <3>1, <3>2, <3>3, <3>5
      <3>9. q.at = "apply" => q.todo = {}
        BY <3>3
      <3>10. Checked(q, text', version')
        BY <3>1, <3>2, <3>3, <3>7, <3>8, <3>9 DEF Checked
      <3>11. QED
        BY <3>1, <3>4, <3>10, KnownGoesOn
    <2>3. QED
      BY <2>1, <2>2
  <1>3. ASSUME NEW q, Waits(r, q), DOMAIN q = DOMAIN req[r], req[r].op = "apply", q.op = "apply",
               q.at = "save", q.docs = req[r].docs, q.guards = req[r].guards
        PROVE  RequestsKnown'
    <2>1. DocsKnown(q) /\ Checked(q, text', version')
      BY <1>0, <1>3 DEF DocsKnown, Checked, Bracketed
    <2>2. QED
      BY <1>3, <2>1, KnownGoesOn
  <1>4. ASSUME NEW new, applyEdit(r, new) PROVE RequestsKnown'
    <2> DEFINE q == [req[r] EXCEPT !.at = "save", !.todo = DOMAIN req[r].guards]
    <2>1. /\ Waits(r, q) /\ DOMAIN q = DOMAIN req[r] /\ req[r].op = "apply" /\ q.op = "apply"
          /\ q.at = "save" /\ q.docs = req[r].docs /\ q.guards = req[r].guards
      BY <1>0, <1>4 DEF applyEdit
    <2> HIDE DEF q
    <2>2. QED
      BY <1>3, <2>1
  <1>5. ASSUME NEW d \in Docs, NEW new, SaveDocument(r, d, new) PROVE RequestsKnown'
    <2>1. CASE Ends(r)
      BY <2>1, KnownEnds
    <2>2. CASE ~Ends(r)
      <3> DEFINE q == [req[r] EXCEPT !.todo = @ \ {d}]
      <3>1. /\ Waits(r, q) /\ DOMAIN q = DOMAIN req[r] /\ req[r].op = "apply" /\ q.op = "apply"
            /\ q.at = "save" /\ q.docs = req[r].docs /\ q.guards = req[r].guards
        BY <1>0, <1>5, <2>2 DEF SaveDocument
      <3> HIDE DEF q
      <3>2. QED
        BY <1>3, <3>1
    <2>3. QED
      BY <2>1, <2>2
  <1>6. CASE EditRefused(r) \/ FinishApply(r)
    BY <1>6, KnownEnds DEF EditRefused, FinishApply
  <1>7. QED
    BY <1>1, <1>2, <1>4, <1>5, <1>6 DEF ApplyRequest

\* An aborted request keeps what it has.
LEMMA AbortKnows ==
    ASSUME NEW q, "op" \in DOMAIN q, q.op = "apply", DocsKnown(q), Checked(q, text, version)
    PROVE  LET a == [q EXCEPT !.aborted = TRUE]
           IN  DocsKnown(a) /\ Checked(a, text, version)
  BY DEF DocsKnown, Checked, Bracketed

\* Every step, on the requests.
LEMMA RequestsStayKnown == ASSUME KnownInvariant, RoutesNext PROVE RequestsKnown'
  <1>1. DocsMove
    BY DocumentsMove DEF KnownInvariant
  <1>2. CASE Reconnected
    <2>1. ASSUME NEW r \in Requests PROVE DocsKnown(req'[r]) /\ Checked(req'[r], text', version')
      <3>1. /\ DocsKnown(req[r]) /\ Checked(req[r], text, version) /\ "op" \in DOMAIN req[r]
            /\ UNCHANGED <<text, version>>
        BY <1>2 DEF KnownInvariant, RequestsKnown, RequestsFormed, Reconnected, docVars
      <3>2. CASE HandedOver(r)
        <4>1. req'[r] = [req[r] EXCEPT !.aborted = TRUE]
          BY <1>2, <3>2 DEF Reconnected
        <4>2. DocsKnown(req'[r]) /\ Checked(req'[r], text, version)
          BY <3>1, <3>2, <4>1, AbortKnows DEF HandedOver
        <4>3. QED
          BY <3>1, <4>2
      <3>3. CASE ~HandedOver(r)
        <4>1. req'[r] = Idle
          BY <1>2, <3>3 DEF Reconnected
        <4>2. QED
          BY <4>1 DEF DocsKnown, Checked, Idle, Bracketed, Prepares
      <3>4. QED
        BY <3>2, <3>3
    <2>2. QED
      BY <2>1 DEF RequestsKnown
  <1>3. CASE Environment /\ ~Reconnected
    <2>1. UNCHANGED req
      BY <1>3 DEF Environment, documentChanged, DiskChange, invalidateForUri,
          workspaceProjectionChanged, discardPlan
    <2>2. QED
      BY <1>1, <2>1, KnownStays
  <1>4. ASSUME NEW r \in Requests, Cancel(r) PROVE RequestsKnown'
    <2>1. CASE Ends(r)
      BY <1>1, <2>1, KnownEnds
    <2>2. CASE ~Ends(r)
      <3> DEFINE q == [req[r] EXCEPT !.aborted = TRUE]
      <3>1. Waits(r, q) /\ req[r].op = "apply" /\ UNCHANGED <<text, version>>
        BY <1>4, <2>2 DEF Cancel, HandedOver, docVars
      <3>2. DocsKnown(q) /\ Checked(q, text, version)
        BY <3>1, AbortKnows DEF KnownInvariant, RequestsKnown, RequestsFormed
      <3> HIDE DEF q
      <3>3. QED
        BY <1>1, <3>1, <3>2, KnownGoesOn
    <2>3. QED
      BY <2>1, <2>2
  <1>5. QED
    BY <1>1, <1>2, <1>3, <1>4, SymbolKnows, PrepareKnows, ApplyKnows DEF RoutesNext

\* Plans come from prepares that know their documents.
LEMMA PlansStayKnown == ASSUME KnownInvariant, RoutesNext PROVE PlansKnown'
  <1> DEFINE Fewer == \/ \E D : plans' = Uncovered(D)
                      \/ \E S : plans' = Without(plans, S)
                      \/ plans' = Empty
                      \/ plans' = plans
  <1>1. ASSUME Fewer PROVE PlansKnown'
    <2>1. \A p \in DOMAIN plans' : p \in DOMAIN plans /\ plans'[p] = plans[p]
      <3>1. ASSUME NEW D, plans' = Uncovered(D)
            PROVE  \A p \in DOMAIN plans' : p \in DOMAIN plans /\ plans'[p] = plans[p]
        BY <3>1 DEF Uncovered, Without
      <3>2. ASSUME NEW S, plans' = Without(plans, S)
            PROVE  \A p \in DOMAIN plans' : p \in DOMAIN plans /\ plans'[p] = plans[p]
        BY <3>2 DEF Without
      <3>3. QED
        BY <1>1, <3>1, <3>2 DEF Empty
    <2>2. QED
      BY <2>1 DEF KnownInvariant, PlansKnown
  <1>2. CASE Environment
    <2>1. Fewer
      BY <1>2 DEF Environment, documentChanged, Changed, DiskChange, invalidateForUri,
          workspaceProjectionChanged, Reconnected, discardPlan, planVars
    <2>2. QED
      BY <1>1, <2>1
  <1>3. ASSUME NEW r \in Requests, Cancel(r) \/ SymbolRequest(r) PROVE PlansKnown'
    <2>1. Fewer
      BY <1>3 DEF Cancel, SymbolRequest, StartBracket, SecondRead, Materialize, NoSymbol,
          StartSearch, FinishSearch, planVars
    <2>2. QED
      BY <1>1, <2>1
  <1>4. ASSUME NEW r \in Requests, ApplyRequest(r) PROVE PlansKnown'
    <2>1. Fewer
      BY <1>4 DEF ApplyRequest, StartApply, CheckPrecondition, applyEdit, Changed, EditRefused,
          SaveDocument, FinishApply, planVars
    <2>2. QED
      BY <1>1, <2>1
  <1>5. ASSUME NEW r \in Requests, PrepareRequest(r) PROVE PlansKnown'
    <2>1. CASE plans' = plans
      BY <1>1, <2>1
    <2>2. CASE plans' # plans
      <3>1. /\ req[r].op \in Prepares
            /\ plans' = With(plans, issued + 1, NewPlan(r))
        BY <1>5, <2>2 DEF PrepareRequest, StartRename, StartPrepare, ProvideEdit,
            CollectPrecondition, StorePlan, planVars
      <3>2. NewPlan(r).docs \in SUBSET Docs /\ DOMAIN NewPlan(r).guards \in SUBSET Docs
        BY <3>1 DEF NewPlan, KnownInvariant, RequestsKnown, DocsKnown
      <3>3. \A p \in DOMAIN plans' :
                plans'[p] = NewPlan(r) \/ (p \in DOMAIN plans /\ plans'[p] = plans[p])
        BY <3>1 DEF With
      <3>4. QED
        BY <3>2, <3>3 DEF KnownInvariant, PlansKnown
    <2>3. QED
      BY <2>1, <2>2
  <1>6. QED
    BY <1>2, <1>3, <1>4, <1>5 DEF RoutesNext

\* No step, no change.
LEMMA KnownStutters == ASSUME KnownInvariant, UNCHANGED vars PROVE KnownInvariant'
  BY DEF vars, docVars, planVars, KnownInvariant, RequestsFormed, DocsTyped, PlansKnown,
      RequestsKnown, DocsKnown, Checked

\* What a request knows of the documents it works on stays true, whatever others
\* change meanwhile.
THEOREM KnownInvariantAlways == RoutesSpec => []KnownInvariant
  <1>1. GrantInvariant /\ KnownInvariant /\ [RoutesNext]_vars => KnownInvariant'
    <2>1. ASSUME GrantInvariant, KnownInvariant, RoutesNext PROVE KnownInvariant'
      <3>1. RequestsFormed'
        BY <2>1, GrantNext DEF GrantInvariant
      <3>2. DocsTyped'
        BY <2>1, DocumentsMove DEF KnownInvariant, DocsMove
      <3>3. QED
        BY <2>1, <3>1, <3>2, RequestsStayKnown, PlansStayKnown DEF KnownInvariant
    <2>2. QED
      BY <2>1, KnownStutters
  <1>2. QED
    BY <1>1, KnownInitially, GrantInvariantAlways, PTL DEF RoutesSpec

\* The edit of a plan meets another text than it was checked against only where
\* the document changed after its own check and before applyEdit (#applyPlan of
\* edit-routes.ts).
THEOREM EditsMeetTheirText == RoutesSpec => StaleOnlyInWindow
  <1> DEFINE MeetsItsText(r) ==
        req[r].op = "apply" /\ applied' # applied /\ req'[r] # req[r] =>
            \A d \in DOMAIN req[r].guards :
                text[d] = req[r].guards[d] \/ version[d] # req[r].checked[d]
  <1>1. ASSUME KnownInvariant, RoutesNext, NEW r \in Requests, req[r].op = "apply",
               applied' # applied, req'[r] # req[r], NEW d \in DOMAIN req[r].guards
        PROVE  text[d] = req[r].guards[d] \/ version[d] # req[r].checked[d]
    <2>1. PICK x \in Requests : \E new : applyEdit(x, new)
      <3>1. ~Environment
        BY <1>1 DEF Environment, documentChanged, DiskChange, invalidateForUri,
            workspaceProjectionChanged, Reconnected, discardPlan, planVars
      <3>2. PICK x \in Requests :
                Cancel(x) \/ SymbolRequest(x) \/ PrepareRequest(x) \/ ApplyRequest(x)
        BY <1>1, <3>1 DEF RoutesNext
      <3>3. ~(Cancel(x) \/ SymbolRequest(x) \/ PrepareRequest(x))
        BY <1>1 DEF Cancel, SymbolRequest, StartBracket, SecondRead, Materialize, NoSymbol,
            StartSearch, FinishSearch, PrepareRequest, StartRename, StartPrepare, ProvideEdit,
            CollectPrecondition, StorePlan, planVars
      <3>4. \E new : applyEdit(x, new)
        BY <1>1, <3>2, <3>3 DEF ApplyRequest, StartApply, CheckPrecondition, EditRefused,
            SaveDocument, FinishApply, planVars
      <3>5. QED
        BY <3>4
    <2>2. x = r
      BY <1>1, <2>1 DEF applyEdit, Waits, KnownInvariant, RequestsFormed
    <2>3. req[r].at = "apply" /\ Checked(req[r], text, version) /\ DocsKnown(req[r])
      BY <1>1, <2>1, <2>2 DEF applyEdit, KnownInvariant, RequestsKnown
    <2>4. /\ d \in DOMAIN req[r].checked /\ d \in Docs
          /\ text[d] = req[r].guards[d] \/ req[r].checked[d] < version[d]
          /\ req[r].checked[d] \in Nat
      BY <1>1, <2>3 DEF Checked, DocsKnown
    <2>5. version[d] \in Nat
      BY <1>1, <2>4 DEF KnownInvariant, DocsTyped
    <2>6. QED
      BY <2>4, <2>5
  <1>2. KnownInvariant /\ RoutesNext => \A r \in Requests : MeetsItsText(r)
    BY <1>1
  <1>3. KnownInvariant /\ [RoutesNext]_vars => [\A r \in Requests : MeetsItsText(r)]_vars
    BY <1>2
  <1>4. QED
    BY <1>3, KnownInvariantAlways, PTL DEF RoutesSpec, StaleOnlyInWindow, AppliesEdit

-----------------------------------------------------------------------------
(* Handles and their documents.                                            *)

\* Every live handle, also one that resolves for nobody, is as old as its document
\* or waits for the watcher's event.
HandlesFresh ==
    \A i \in Live(handles) :
        LET d == handles.records[i].doc IN handles.records[i].minted = version[d] \/ d \in unseen

HandleInvariant == Agrees(handles) /\ HandlesBounded /\ HandlesFresh

\* What TreesSurviveMinting says of a step.
TreesKept ==
    \A d \in Docs : Live(handles') \ Live(handles) # {} =>
        \/ handles.trees[d] \subseteq Live(handles')
        \/ handles'.trees[d] # {} /\ handles'.trees[d] \cap Live(handles) = {}

\* An empty registry.
LEMMA HandlesInitially == RoutesInit => HandleInvariant
  <1>1. ASSUME RoutesInit PROVE HandleInvariant
    <2>1. handles = NoHandles
      BY <1>1 DEF RoutesInit, HandlesInit
    <2>2. HandlesBounded
      BY <2>1, NothingAgrees, FS_EmptySet, HandleConstants DEF HandlesBounded, size
    <2>3. HandlesFresh
      BY <2>1, NothingAgrees DEF HandlesFresh
    <2>4. QED
      BY <2>1, <2>2, <2>3, NothingAgrees DEF HandleInvariant
  <1>2. QED
    BY <1>1

\* A step that mints nothing, and takes away the handles of what it changes.
LEMMA HandlesShrink ==
    ASSUME HandleInvariant, Agrees(handles'), FewerHandles(handles', handles),
           Len(handles'.generations) <= Len(handles.generations),
           \A i \in Live(handles') :
                LET d == handles.records[i].doc
                IN  \/ version'[d] = version[d] /\ (d \in unseen => d \in unseen')
                    \/ d \in unseen'
    PROVE  HandleInvariant' /\ TreesKept
  <1>1. size(handles') <= size(handles) /\ size(handles') \in Nat /\ size(handles) \in Nat
    BY FewerTakeLess, HandlesFinite DEF HandleInvariant, Agrees, RegistryFormed, size
  <1>2. Len(handles'.generations) \in Nat /\ Len(handles.generations) \in Nat
    BY DEF HandleInvariant, Agrees, RegistryFormed
  <1>3. HandlesBounded'
    BY <1>1, <1>2, HandleConstants DEF HandleInvariant, HandlesBounded
  <1>4. HandlesFresh'
    BY DEF HandleInvariant, HandlesFresh, FewerHandles
  <1>5. TreesKept
    BY DEF TreesKept, FewerHandles
  <1>6. QED
    BY <1>3, <1>4, <1>5 DEF HandleInvariant

\* Neither the registry nor the documents change.
LEMMA HandlesStay ==
    ASSUME HandleInvariant, UNCHANGED <<handles, version, unseen>>
    PROVE  HandleInvariant' /\ TreesKept
  <1>1. Agrees(handles') /\ FewerHandles(handles', handles)
        /\ Len(handles.generations) \in Nat /\ handles' = handles
    BY DEF HandleInvariant, Agrees, RegistryFormed, FewerHandles
  <1>2. QED
    BY <1>1, HandlesShrink

\* invalidateAll.
LEMMA HandlesCleared ==
    ASSUME HandleInvariant, handles' = NoHandles
    PROVE  HandleInvariant' /\ TreesKept
  <1>1. Len(handles.generations) \in Nat
    BY DEF HandleInvariant, Agrees, RegistryFormed
  <1>2. Agrees(handles') /\ FewerHandles(handles', handles)
        /\ Live(handles') = {} /\ Len(handles'.generations) = 0
    BY NothingAgrees DEF FewerHandles
  <1>3. QED
    BY <1>1, <1>2, HandlesShrink

\* The handles of the documents D go; no other document changes its version, and
\* none but those of D is caught up with.
LEMMA HandlesInvalidated ==
    ASSUME HandleInvariant, NEW D \in SUBSET Docs, handles' = invalidateDocuments(handles, D),
           \A d \in Docs \ D : version'[d] = version[d] /\ (d \in unseen => d \in unseen')
    PROVE  HandleInvariant' /\ TreesKept
  <1>1. /\ Agrees(handles') /\ FewerHandles(handles', handles)
        /\ \A i \in Live(handles') : i \in Live(handles) /\ handles.records[i].doc \notin D
        /\ Len(handles'.generations) = Len(handles.generations)
    BY InvalidationAgrees DEF HandleInvariant
  <1>2. \A i \in Live(handles) : handles.records[i].doc \in Docs
    BY DEF HandleInvariant, Agrees, RegistryFormed
  <1>3. Len(handles.generations) \in Nat
    BY DEF HandleInvariant, Agrees, RegistryFormed
  <1>4. QED
    BY <1>1, <1>2, <1>3, HandlesShrink

\* The change event invalidates before any other code runs.
LEMMA ChangeInvalidates ==
    ASSUME HandleInvariant, NEW D \in SUBSET Docs, NEW new, Changed(D, new)
    PROVE  HandleInvariant' /\ TreesKept
  <1>1. \A d \in Docs \ D : version'[d] = version[d] /\ unseen' = unseen
    BY DEF Changed
  <1>2. QED
    BY <1>1, HandlesInvalidated DEF Changed

\* #createHandleId finds identifiers that are not live.
LEMMA FreshIds == ASSUME NEW n, NEW ids \in Fresh(n) PROVE ids \in SUBSET (Ids \ Live(handles))
  BY DEF Fresh

\* No change of its document separates a tree from its minting.
LEMMA TreeMinted ==
    ASSUME HandleInvariant, UNCHANGED <<version, unseen>>, NEW d \in Docs, NEW e, NEW v,
           NEW ids \in SUBSET (Ids \ Live(handles)),
           handles' = materialize(handles, d, ids, Handle("document", d, e, v))
    PROVE  HandleInvariant' /\ TreesKept
  <1> DEFINE rec == Handle("document", d, e, v)
  <1>1. rec.kind = "document" /\ rec.doc = d /\ rec.minted = version[d]
    BY DEF Handle
  <1> HIDE DEF rec
  <1>2. /\ Agrees(handles')
        /\ \A i \in Live(handles') :
                \/ i \in Live(handles) /\ handles'.records[i] = handles.records[i]
                \/ i \in ids /\ handles'.records[i] = rec
        /\ \A c \in Docs \ {d} : handles'.trees[c] = handles.trees[c]
        /\ handles'.trees[d] \in {handles.trees[d], ids}
        /\ Live(handles') \subseteq Live(handles) \/ handles'.trees[d] = ids
        /\ Len(handles'.generations) <= Len(handles.generations)
        /\ size(handles) <= MaxHandles => size(handles') <= MaxHandles
    <2>1. Agrees(handles) /\ handles' = materialize(handles, d, ids, rec)
      BY DEF HandleInvariant, rec
    <2>2. TreeOutcome(handles, materialize(handles, d, ids, rec), d, ids, rec)
      BY <1>1, <2>1, MaterializeAgrees
    <2>3. QED
      BY <2>1, <2>2 DEF TreeOutcome
  <1>3. Len(handles.generations) \in Nat /\ Len(handles'.generations) \in Nat
    BY <1>2 DEF HandleInvariant, Agrees, RegistryFormed
  <1>4. HandlesBounded'
    BY <1>2, <1>3, HandleConstants DEF HandleInvariant, HandlesBounded
  <1>5. HandlesFresh'
    BY <1>1, <1>2 DEF HandleInvariant, HandlesFresh
  <1>6. TreesKept
    <2>1. ASSUME NEW c \in Docs, NEW i \in Live(handles'), i \notin Live(handles)
          PROVE  \/ handles.trees[c] \subseteq Live(handles')
                 \/ handles'.trees[c] # {} /\ handles'.trees[c] \cap Live(handles) = {}
      <3>1. i \in ids /\ handles'.trees[d] = ids
        BY <1>2, <2>1
      <3>2. CASE c = d
        BY <3>1, <3>2
      <3>3. CASE c # d
        BY <1>2, <3>3 DEF Agrees, TreesFollow, IsOf
      <3>4. QED
        BY <3>2, <3>3
    <2>2. QED
      BY <2>1 DEF TreesKept
  <1>7. QED
    BY <1>2, <1>4, <1>5, <1>6 DEF HandleInvariant

\* So are search results.
LEMMA HitsMinted ==
    ASSUME HandleInvariant, UNCHANGED <<version, unseen>>, NEW e, NEW v,
           NEW ids \in SUBSET (Ids \ Live(handles)), NEW at \in [ids -> Docs],
           handles' = materializeTransient(handles,
                {[id |-> i, record |-> Handle("transient", at[i], e, v[i])] : i \in ids})
    PROVE  HandleInvariant' /\ TreesKept
  <1> DEFINE rec == [i \in ids |-> Handle("transient", at[i], e, v[i])]
  <1>1. \A i \in ids : /\ rec[i].kind = "transient" /\ rec[i].doc = at[i] /\ rec[i].doc \in Docs
                       /\ rec[i].minted = version[at[i]]
    BY DEF Handle
  <1>2. {[id |-> i, record |-> Handle("transient", at[i], e, v[i])] : i \in ids} = Drafts(ids, rec)
    BY DEF Drafts
  <1> HIDE DEF rec
  <1>3. /\ Agrees(handles')
        /\ \A i \in Live(handles') :
                \/ i \in Live(handles) /\ handles'.records[i] = handles.records[i]
                \/ i \in ids /\ handles'.records[i] = rec[i]
        /\ handles'.trees = handles.trees
        /\ Len(handles.generations) <= MAX_TRANSIENT_GENERATIONS
                => Len(handles'.generations) <= MAX_TRANSIENT_GENERATIONS
        /\ size(handles) <= MaxHandles => size(handles') <= MaxHandles
    <2>1. Agrees(handles) /\ handles' = materializeTransient(handles, Drafts(ids, rec))
      BY <1>2 DEF HandleInvariant
    <2>2. HitsOutcome(handles, materializeTransient(handles, Drafts(ids, rec)), ids, rec)
      BY <1>1, <2>1, TransientAgrees
    <2>3. QED
      BY <2>1, <2>2 DEF HitsOutcome
  <1>4. HandlesBounded'
    BY <1>3 DEF HandleInvariant, HandlesBounded
  <1>5. HandlesFresh'
    BY <1>1, <1>3 DEF HandleInvariant, HandlesFresh
  <1>6. TreesKept
    BY <1>3 DEF TreesKept, Agrees, TreesFollow, IsOf
  <1>7. QED
    BY <1>3, <1>4, <1>5, <1>6 DEF HandleInvariant

\* Every step of the routes on the registry.
LEMMA HandlesNext ==
    ASSUME HandleInvariant, KnownInvariant, RoutesNext
    PROVE  HandleInvariant' /\ TreesKept
  <1>1. CASE Environment
    <2>1. ASSUME NEW d \in Docs, NEW new, documentChanged(d, new)
          PROVE  HandleInvariant' /\ TreesKept
      BY <2>1, ChangeInvalidates DEF documentChanged
    <2>2. ASSUME NEW d \in Docs, NEW new, DiskChange(d, new)
          PROVE  HandleInvariant' /\ TreesKept
      <3>1. /\ handles' = handles /\ unseen' = unseen \cup {d}
            /\ \A c \in Docs \ {d} : version'[c] = version[c]
        BY <2>2 DEF DiskChange, KnownInvariant, DocsTyped
      <3>2. Agrees(handles') /\ FewerHandles(handles', handles)
            /\ Len(handles.generations) \in Nat /\ \A i \in Live(handles) : handles.records[i].doc \in Docs
        BY <3>1 DEF HandleInvariant, Agrees, RegistryFormed, FewerHandles
      <3>3. QED
        BY <3>1, <3>2, HandlesShrink
    <2>3. ASSUME NEW d \in Docs, invalidateForUri(d)
          PROVE  HandleInvariant' /\ TreesKept
      <3>1. /\ {d} \in SUBSET Docs /\ handles' = invalidateDocuments(handles, {d})
            /\ \A c \in Docs \ {d} : version'[c] = version[c] /\ (c \in unseen => c \in unseen')
        BY <2>3 DEF invalidateForUri
      <3>2. QED
        BY <3>1, HandlesInvalidated
    <2>4. CASE workspaceProjectionChanged \/ Reconnected
      BY <2>4, HandlesCleared DEF workspaceProjectionChanged, Reconnected
    <2>5. ASSUME NEW p, discardPlan(p) PROVE HandleInvariant' /\ TreesKept
      BY <2>5, HandlesStay DEF discardPlan, docVars
    <2>6. QED
      BY <1>1, <2>1, <2>2, <2>3, <2>4, <2>5 DEF Environment
  <1>2. ASSUME NEW r \in Requests, SymbolRequest(r) PROVE HandleInvariant' /\ TreesKept
    <2>1. ASSUME NEW n, NEW ids \in Fresh(n), Materialize(r, ids) PROVE HandleInvariant' /\ TreesKept
      <3>1. /\ ids \in SUBSET (Ids \ Live(handles)) /\ UNCHANGED <<version, unseen>>
            /\ req[r].op \in Bracketed /\ req[r].doc \in Docs
        BY <2>1, FreshIds DEF Materialize, docVars, KnownInvariant, RequestsKnown, DocsKnown
      <3>2. CASE req[r].op = "getSymbols"
        BY <2>1, <3>1, <3>2, TreeMinted DEF Materialize
      <3>3. CASE req[r].op # "getSymbols"
        <4> DEFINE at == [i \in ids |-> req[r].doc]
                   e == req[r].before.epoch
                   v == [i \in ids |-> req[r].before.version]
        <4>1. handles' = materializeTransient(handles,
                {[id |-> i, record |-> Handle("transient", req[r].doc, e, req[r].before.version)] : i \in ids})
          BY <2>1, <3>3 DEF Materialize
        <4>2. {[id |-> i, record |-> Handle("transient", req[r].doc, e, req[r].before.version)] : i \in ids}
                = {[id |-> i, record |-> Handle("transient", at[i], e, v[i])] : i \in ids}
          OBVIOUS
        <4>3. at \in [ids -> Docs]
          BY <3>1
        <4> HIDE DEF at, e, v
        <4>4. handles' = materializeTransient(handles,
                {[id |-> i, record |-> Handle("transient", at[i], e, v[i])] : i \in ids})
          BY <4>1, <4>2
        <4>5. QED
          BY <3>1, <4>3, <4>4, HitsMinted
      <3>4. QED
        BY <3>2, <3>3
    <2>2. ASSUME NEW n, NEW ids \in Fresh(n), NEW at \in [ids -> Docs], FinishSearch(r, at)
          PROVE  HandleInvariant' /\ TreesKept
      <3>1. ids \in SUBSET (Ids \ Live(handles)) /\ UNCHANGED <<version, unseen>>
            /\ DOMAIN at = ids
        BY <2>2, FreshIds DEF FinishSearch, docVars
      <3> DEFINE v == [i \in ids |-> version[at[i]]]
      <3>2. handles' = materializeTransient(handles,
                {[id |-> i, record |-> Handle("transient", at[i], epoch, version[at[i]])] : i \in ids})
        BY <2>2, <3>1 DEF FinishSearch
      <3>3. {[id |-> i, record |-> Handle("transient", at[i], epoch, version[at[i]])] : i \in ids}
                = {[id |-> i, record |-> Handle("transient", at[i], epoch, v[i])] : i \in ids}
        OBVIOUS
      <3> DEFINE e == epoch
      <3>4. handles' = materializeTransient(handles,
                {[id |-> i, record |-> Handle("transient", at[i], e, v[i])] : i \in ids})
        BY <3>2, <3>3
      <3>5. at \in [ids -> Docs]
        BY <2>2, <3>1
      <3> HIDE DEF v, e
      <3>6. UNCHANGED <<version, unseen>> /\ ids \in SUBSET (Ids \ Live(handles))
        BY <3>1
      <3>7. QED
        BY <3>4, <3>5, <3>6, HitsMinted
    <2>3. CASE \/ \E d \in Docs, op \in Bracketed : StartBracket(r, op, d)
               \/ SecondRead(r) \/ NoSymbol(r) \/ StartSearch(r)
      BY <2>3, HandlesStay DEF StartBracket, SecondRead, NoSymbol, StartSearch, docVars
    <2>4. QED
      BY <1>2, <2>1, <2>2, <2>3 DEF SymbolRequest
  <1>3. ASSUME NEW r \in Requests, Cancel(r) \/ PrepareRequest(r) PROVE HandleInvariant' /\ TreesKept
    BY <1>3, HandlesStay
    DEF Cancel, PrepareRequest, StartRename, StartPrepare, ProvideEdit, CollectPrecondition,
        StorePlan, docVars
  <1>4. ASSUME NEW r \in Requests, ApplyRequest(r) PROVE HandleInvariant' /\ TreesKept
    <2>1. req[r].op = "apply" => req[r].docs \in SUBSET Docs /\ DOMAIN req[r].guards \in SUBSET Docs
      BY DEF KnownInvariant, RequestsKnown, DocsKnown
    <2>2. ASSUME NEW new, applyEdit(r, new) PROVE HandleInvariant' /\ TreesKept
      BY <2>1, <2>2, ChangeInvalidates DEF applyEdit
    <2>3. ASSUME NEW d \in Docs, NEW new, SaveDocument(r, d, new)
          PROVE  HandleInvariant' /\ TreesKept
      BY <2>3, ChangeInvalidates, HandlesStay DEF SaveDocument, docVars
    <2>4. CASE FinishApply(r)
      <3>1. /\ handles' = invalidateDocuments(handles, DOMAIN req[r].guards)
            /\ DOMAIN req[r].guards \in SUBSET Docs /\ UNCHANGED <<version, unseen>>
        BY <2>1, <2>4 DEF FinishApply, docVars
      <3>2. QED
        BY <3>1, HandlesInvalidated
    <2>5. CASE \/ \E p \in PlanIds : StartApply(r, p)
               \/ \E d \in Docs : CheckPrecondition(r, d)
               \/ EditRefused(r)
      BY <2>5, HandlesStay DEF StartApply, CheckPrecondition, EditRefused, docVars
    <2>6. QED
      BY <1>4, <2>2, <2>3, <2>4, <2>5 DEF ApplyRequest
  <1>5. QED
    BY <1>1, <1>2, <1>3, <1>4 DEF RoutesNext

\* No step, no change.
LEMMA HandlesStutter ==
    ASSUME HandleInvariant, UNCHANGED vars
    PROVE  HandleInvariant'
  BY HandlesStay DEF vars, docVars

\* The registry's collections agree, it is within its bounds, and no handle that
\* resolves has seen its document change since its minting, but for changes that the
\* watcher has not reported, for any number of documents, requests and handles.
THEOREM HandleInvariantAlways == RoutesSpec => []HandleInvariant
  <1>1. HandleInvariant /\ KnownInvariant /\ [RoutesNext]_vars => HandleInvariant'
    BY HandlesNext, HandlesStutter
  <1>2. QED
    BY <1>1, HandlesInitially, KnownInvariantAlways, PTL DEF RoutesSpec

\* The four collections of VscodeSymbolHandleRegistry describe the same handles.
THEOREM HandlesAgree == RoutesSpec => []CollectionsAgree
  <1>1. HandleInvariant => CollectionsAgree
    BY AgreementImplies DEF HandleInvariant
  <1>2. QED
    BY <1>1, HandleInvariantAlways, PTL

\* The registry stays within DEFAULT_MAX_HANDLES and MAX_TRANSIENT_GENERATIONS.
THEOREM HandlesStayBounded == RoutesSpec => []HandlesBounded
  <1>1. HandleInvariant => HandlesBounded
    BY DEF HandleInvariant
  <1>2. QED
    BY <1>1, HandleInvariantAlways, PTL

\* A handle that resolves does not outlive a change of its document, except for
\* the time until the file watcher's event: only a change during the hash of the
\* second read, before the minting, leaves a handle of an older text.
THEOREM HandlesEnd == RoutesSpec => []OutdatedOnlyByHash
  <1>1. HandleInvariant => OutdatedOnlyByHash
    BY DEF HandleInvariant, HandlesFresh, OutdatedOnlyByHash
  <1>2. QED
    BY <1>1, HandleInvariantAlways, PTL

\* #reserveCapacity evicts search results and never another document's tree.
THEOREM TreesSurvive == RoutesSpec => TreesSurviveMinting
  <1>1. HandleInvariant /\ KnownInvariant /\ [RoutesNext]_vars => [TreesKept]_vars
    BY HandlesNext
  <1>2. QED
    BY <1>1, HandleInvariantAlways, KnownInvariantAlways, PTL
    DEF RoutesSpec, TreesSurviveMinting, TreesKept

=============================================================================
