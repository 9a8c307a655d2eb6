-------------------------- MODULE ApplicationRouter ---------------------------
(***************************************************************************)
(* The daemon's router (packages/bridge-daemon/src/routing/                *)
(* application-router.ts) with the registry and the edit store it drives.  *)
(*                                                                         *)
(* A handler of the router runs without interruption up to its first       *)
(* `await'; what follows the await is an action of its own:                *)
(*  - #routeRequest stores the route, then awaits adapterConnection.send:  *)
(*    `sending' is TRUE until SendDone or SendFailed;                      *)
(*  - a refused apply, discard or undo awaits the refusal's send before it *)
(*    releases the stored entry: `releasing' and `releasingUndo'.          *)
(* Adapters and consumers may send anything at any time: answers carry any *)
(* documents, epochs and identifiers, and a peer may break the protocol.   *)
(*                                                                         *)
(* `routes' keeps every route ever created, in order; state "gone" is a    *)
(* route deleted from #routes, whose record the suspended handlers still   *)
(* hold.  Broadcasts, local queries and metrics leave this state alone and *)
(* are not modelled.                                                       *)
(***************************************************************************)
EXTENDS SessionRegistry, EditStore

CONSTANTS
    RequestIds,             \* identifiers consumers number their requests with
    RequestKinds,           \* the kinds of request consumers send
    MaxRoutes,              \* bound on the routes created
    MaxInFlight,            \* maxInFlight
    MaxInFlightPerConsumer  \* maxInFlightPerConsumer

\* "read": document, symbol and diagnostics requests, whose result is checked;
\* "list": searchTodos and listBookmarks, whose result is not.
ASSUME RouterConstants ==
    /\ RequestKinds \subseteq {"read", "list", "prepare", "apply", "discard", "undo"}
    /\ MaxRoutes \in Nat
    /\ MaxInFlight \in Nat \ {0}
    /\ MaxInFlightPerConsumer \in 1 .. MaxInFlight

VARIABLES
    routes,             \* RouteRecords in order of creation: #routes and removed ones
    consumerRequests,   \* <<consumer, request id>> -> route, 0 when absent
    releasing,          \* StoredPlans a suspended handler will release
    releasingUndo,      \* StoredUndoTokens a suspended handler will release
    doomed,             \* open adapter sessions whose socket is closing
    exposed             \* adapters' own undo tokens sent to a consumer

routingVars == <<routes, consumerRequests>>
routerVars == <<routes, consumerRequests, releasing, releasingUndo, doomed, exposed>>
vars == <<registryVars, storeVars, routerVars>>

RouteIds == 1 .. MaxRoutes
Codes == {"result", "error", "PROVIDER_FAILED", "TIMEOUT", "ADAPTER_DISCONNECTED"}

RouteRecord ==
    [kind : RequestKinds, id : RequestIds, consumer : ConsumerSessions,
     adapter : AdapterSessions, workspace : WorkspaceIds,
     state : {"active", "cancelled", "gone"}, sending : BOOLEAN,
     plan : StoredPlan \cup {None}, token : StoredUndoToken \cup {None},
     answers : Seq(Codes)]

RouterTypeOK ==
    /\ RegistryTypeOK
    /\ StoreTypeOK
    /\ routes \in Seq(RouteRecord) /\ Len(routes) <= MaxRoutes
    /\ consumerRequests \in [ConsumerSessions \X RequestIds -> 0 .. MaxRoutes]
    /\ releasing \subseteq StoredPlan
    /\ releasingUndo \subseteq StoredUndoToken
    /\ doomed \subseteq AdapterSessions
    /\ exposed \subseteq AdapterSessions \X AdapterTokenIds

RouterInit ==
    /\ RegistryInit
    /\ StoreInit
    /\ routes = << >>
    /\ consumerRequests = [k \in ConsumerSessions \X RequestIds |-> 0]
    /\ releasing = {}
    /\ releasingUndo = {}
    /\ doomed = {}
    /\ exposed = {}

-----------------------------------------------------------------------------
(* Routes.                                                                 *)

PresentRoutes == {r \in DOMAIN routes : routes[r].state # "gone"}
ActiveRoutes(c) == {r \in PresentRoutes : routes[r].consumer = c /\ routes[r].state = "active"}

\* requestKey
RequestKey(r) == <<routes[r].consumer, routes[r].id>>

PlansOf(rs) == {routes[r].plan : r \in rs} \ {None}
TokensOf(rs) == {routes[r].token : r \in rs} \ {None}

Unindexed(rs) ==
    [k \in ConsumerSessions \X RequestIds |->
        IF \E r \in rs : RequestKey(r) = k THEN 0 ELSE consumerRequests[k]]

\* #removeRoute without its releases, and the response sent with it, if any.
RemoveRoute(r, answer) ==
    /\ routes' = [routes EXCEPT ![r].state = "gone", ![r].answers = @ \o answer]
    /\ consumerRequests' = Unindexed({r})

\* Mistake: #removeRoute does not give the stored entry back.
ReleaseRouteForgotten(r) == UNCHANGED storeVars

\* The releases #removeRoute makes.
ReleaseRoute(r) == Release(PlansOf({r}), TokensOf({r}))

\* Mistake: the requests of a consumer that leaves stay active.
DropSessionRoutesServedOnly(served, asked) ==
    /\ routes' = [r \in DOMAIN routes |->
            IF r \in served
            THEN [routes[r] EXCEPT !.state = "gone",
                    !.answers = IF routes[r].state = "active"
                                THEN Append(@, "ADAPTER_DISCONNECTED") ELSE @]
            ELSE routes[r]]
    /\ consumerRequests' = Unindexed(served \cup asked)

\* The routes of a session that goes away: those it served are removed and, if
\* active, answered; those it asked for are cancelled.
DropSessionRoutes(served, asked) ==
    /\ routes' = [r \in DOMAIN routes |->
            IF r \in served
            THEN [routes[r] EXCEPT !.state = "gone",
                    !.answers = IF routes[r].state = "active"
                                THEN Append(@, "ADAPTER_DISCONNECTED") ELSE @]
            ELSE IF r \in asked THEN [routes[r] EXCEPT !.state = "cancelled"]
            ELSE routes[r]]
    /\ consumerRequests' = Unindexed(served \cup asked)

ServedBy(s) == {r \in PresentRoutes : routes[r].adapter = s}

Doom(ss) == doomed' = doomed \cup {s \in ss : IsOpen(s)}

-----------------------------------------------------------------------------
(* Sessions, registration and notifications.                               *)

SessionOpened(s) ==
    /\ OpenSession(s)
    /\ UNCHANGED <<storeVars, routerVars>>

\* sessionClosed
SessionClosed(s) ==
    /\ CloseSession(s)
    /\ InvalidateSession(s, PlansOf(ServedBy(s)), TokensOf(ServedBy(s)))
    /\ DropSessionRoutes(ServedBy(s), ActiveRoutes(s))
    /\ doomed' = doomed \ {s}
    /\ UNCHANGED <<releasing, releasingUndo, exposed>>

\* A message that makes the daemon close the adapter that sent it: an unknown or
\* malformed response, an invalid or unauthorized notification.  A consumer is
\* closed in the same way; nothing here depends on its socket before SessionClosed.
ProtocolViolation(s) ==
    /\ IsOpen(s)
    /\ Doom({s})
    /\ UNCHANGED <<registryVars, storeVars, routingVars, releasing, releasingUndo, exposed>>

\* ide/register
Register(s, a, ws, docs, e, t, offer) ==
    /\ RegisterAdapter(s, a, ws, docs, e, t, offer)
    /\ UNCHANGED <<storeVars, routerVars>>

\* ide/unregister
Unregister(s, a) ==
    /\ UnregisterAdapter(s, a)
    /\ InvalidateSession(s, PlansOf(ServedBy(s)), TokensOf(ServedBy(s)))
    /\ DropSessionRoutes(ServedBy(s), {})
    /\ UNCHANGED <<releasing, releasingUndo, doomed, exposed>>

CapabilitiesChanged(s, a, c) ==
    /\ UpdateCapabilities(s, a, c)
    /\ UNCHANGED <<storeVars, routerVars>>

WorkspaceOpened(s, w, a, docs, e, t) ==
    /\ OpenWorkspace(s, w, a, docs, e, t)
    /\ UNCHANGED <<storeVars, routerVars>>

\* workspace/closed drops the entries of the workspace before it finds out
\* whether the sender owns it.
WorkspaceClosed(s, w, a) ==
    /\ IsOpen(s)
    /\ InvalidateWorkspace(w)
    /\ \/ CloseWorkspace(s, w, a) /\ UNCHANGED routerVars
       \/ /\ NamedWorkspaceRefusal(s, w, a) # "ok"
          /\ Doom({s})
          /\ UNCHANGED <<registryVars, routingVars, releasing, releasingUndo, exposed>>

\* workspace/rootsChanged, likewise.
RootsChanged(s, w, a, docs, e) ==
    /\ IsOpen(s)
    /\ InvalidateWorkspace(w)
    /\ \/ UpdateWorkspaceRoots(s, w, a, docs, e) /\ UNCHANGED routerVars
       \/ /\ UpdateRootsRefusal(s, w, a, e) # "ok"
          /\ Doom({s})
          /\ UNCHANGED <<registryVars, routingVars, releasing, releasingUndo, exposed>>

ReadinessChanged(s, w, st) ==
    /\ UpdateWorkspaceStatus(s, w, st)
    /\ UNCHANGED <<storeVars, routerVars>>

TrustChanged(s, w, a, t) ==
    /\ UpdateWorkspaceTrust(s, w, a, t)
    /\ UNCHANGED <<storeVars, routerVars>>

\* document/changed carries a revision of the current epoch; document/deleted
\* and document/renamed (the old and the new URI) invalidate without a reason.
\* The other document and diagnostics notifications change nothing.
DocumentsTouched(s, w, ds, withRevision) ==
    /\ WorkspaceOwnership(s, w) = "ok"
    /\ ds # {} /\ ds \subseteq workspaces[w].roots
    /\ withRevision => Cardinality(ds) = 1
    /\ InvalidateDocuments(w, ds, withRevision)
    /\ UNCHANGED <<registryVars, routerVars>>

-----------------------------------------------------------------------------
(* Requests.                                                               *)

\* A symbol handle that is not the owner's, or outlived its epoch.
HandleStale(w, h) ==
    h # None /\ (h.session # OwnerSession(w) \/ h.epoch < workspaces[w].epoch)

\* Why #routeRequest answers with an error instead of forwarding.
RouteRefusal(c, id, kind, w, h) ==
    IF \/ consumerRequests[<<c, id>>] # 0
       \/ Cardinality(PresentRoutes) >= MaxInFlight
       \/ Cardinality(ActiveRoutes(c)) >= MaxInFlightPerConsumer
    THEN "PRECONDITION_FAILED"
    ELSE IF WorkspaceConnectionRefusal(w) # "ok" THEN WorkspaceConnectionRefusal(w)
    ELSE IF kind \in {"read", "list", "prepare"} /\ ~capable[workspaces[w].adapter]
    THEN "CAPABILITY_UNAVAILABLE"
    ELSE IF HandleStale(w, h) THEN "STALE_SYMBOL"
    ELSE "ok"

AddRoute(c, id, kind, w, plan, token) ==
    /\ routes' = Append(routes,
            [kind |-> kind, id |-> id, consumer |-> c, adapter |-> OwnerSession(w),
             workspace |-> w, state |-> "active", sending |-> TRUE,
             plan |-> plan, token |-> token, answers |-> << >>])
    /\ consumerRequests' = [consumerRequests EXCEPT ![<<c, id>>] = Len(routes) + 1]

\* A consumer may send this request: its session is open, and the identifier is
\* new, as every client of the repository draws it (#createRequestId).
MaySend(c, id, kind) ==
    /\ IsOpen(c)
    /\ kind \in RequestKinds
    /\ Len(routes) < MaxRoutes
    /\ \A r \in DOMAIN routes : RequestKey(r) # <<c, id>>

\* #routeRequest for the read methods and for prepare.
RouteRequest(c, id, kind, w, h) ==
    /\ MaySend(c, id, kind)
    /\ RouteRefusal(c, id, kind, w, h) = "ok"
    /\ AddRoute(c, id, kind, w, None, None)
    /\ UNCHANGED <<registryVars, storeVars, releasing, releasingUndo, doomed, exposed>>

\* Mistake: any connected owner of the workspace will do.
StoredAdapterGoneAnyOwner(s, w) == ~(WorkspaceConnectionRefusal(w) = "ok")

\* #assertStoredAdapter throws
StoredAdapterGone(s, w) == ~(WorkspaceConnectionRefusal(w) = "ok" /\ OwnerSession(w) = s)

\* A plan taken from the store is forwarded, or dropped with its reservation
\* when its adapter no longer owns the workspace, or kept reserved until the
\* refusal #routeRequest answers with is sent.
ForwardPlan(c, id, kind, p, w) ==
    /\ \/ /\ StoredAdapterGone(plans[p].adapter, w)
          /\ DropExpired(p)
          /\ UNCHANGED <<routingVars, releasing>>
       \/ /\ ~StoredAdapterGone(plans[p].adapter, w)
          /\ CheckOut(p)
          /\ \/ /\ RouteRefusal(c, id, kind, w, None) = "ok"
                /\ AddRoute(c, id, kind, w, plans[p], None)
                /\ UNCHANGED releasing
             \/ /\ RouteRefusal(c, id, kind, w, None) # "ok"
                /\ releasing' = releasing \cup {plans[p]}
                /\ UNCHANGED routingVars
    /\ UNCHANGED <<planSeq, tokenSeq, now>>
    /\ UNCHANGED <<registryVars, releasingUndo, doomed, exposed>>

\* workspace/applyPlan
ApplyPlan(c, id, p, w) ==
    /\ MaySend(c, id, "apply")
    /\ workspaces[w] # None
    /\ workspaces[w].trusted
    /\ LET refusal == ConsumePlanRefusal(p, c, w, workspaces[w].epoch)
       IN  \/ refusal = "ok" /\ ForwardPlan(c, id, "apply", p, w)
           \/ /\ refusal # "ok"
              /\ ConsumePlan(p, c, w, workspaces[w].epoch)
              /\ UNCHANGED <<registryVars, routerVars>>

\* workspace/discardPlan
DiscardPlanRequest(c, id, p, w) ==
    /\ MaySend(c, id, "discard")
    /\ LET refusal == DiscardPlanRefusal(p, c, w)
       IN  \/ refusal = "ok" /\ ForwardPlan(c, id, "discard", p, w)
           \/ /\ refusal # "ok"
              /\ DiscardPlan(p, c, w)
              /\ UNCHANGED <<registryVars, routerVars>>

\* workspace/undo
Undo(c, id, t, w) ==
    /\ MaySend(c, id, "undo")
    /\ workspaces[w] # None
    /\ workspaces[w].trusted
    /\ \/ /\ ConsumeUndoRefusal(t, c, w) = "ok"
          /\ StoredAdapterGone(undoTokens[t].adapter, w)
          /\ Retire({}, {t}, {}, {})
          /\ UNCHANGED <<reasons, planSeq, tokenSeq, now, routingVars, releasingUndo>>
       \/ /\ ConsumeUndoRefusal(t, c, w) = "ok"
          /\ ~StoredAdapterGone(undoTokens[t].adapter, w)
          /\ ConsumeUndoToken(t, c, w)
          /\ \/ /\ RouteRefusal(c, id, "undo", w, None) = "ok"
                /\ AddRoute(c, id, "undo", w, None, undoTokens[t])
                /\ UNCHANGED releasingUndo
             \/ /\ RouteRefusal(c, id, "undo", w, None) # "ok"
                /\ releasingUndo' = releasingUndo \cup {undoTokens[t]}
                /\ UNCHANGED routingVars
       \/ /\ ConsumeUndoRefusal(t, c, w) # "ok"
          /\ ConsumeUndoToken(t, c, w)
          /\ UNCHANGED <<routingVars, releasingUndo>>
    /\ UNCHANGED <<registryVars, releasing, doomed, exposed>>

\* The refusal is sent (or its send failed): `if (!routed) releasePlan(stored)'.
FinishRefusedPlan(x) ==
    /\ x \in releasing
    /\ releasing' = releasing \ {x}
    /\ Release({x}, {})
    /\ UNCHANGED <<registryVars, routingVars, releasingUndo, doomed, exposed>>

FinishRefusedUndo(x) ==
    /\ x \in releasingUndo
    /\ releasingUndo' = releasingUndo \ {x}
    /\ Release({}, {x})
    /\ UNCHANGED <<registryVars, routingVars, releasing, doomed, exposed>>

SendDone(r) ==
    /\ r \in DOMAIN routes
    /\ routes[r].sending
    /\ routes' = [routes EXCEPT ![r].sending = FALSE]
    /\ UNCHANGED <<registryVars, storeVars, consumerRequests, releasing, releasingUndo, doomed, exposed>>

\* The forwarded request could not be sent, which only happens on a socket that
\* is closing.  The route is removed whatever became of it meanwhile, the
\* consumer answered, and the stored entry released again after that answer.
SendFailed(r) ==
    /\ r \in DOMAIN routes
    /\ routes[r].sending
    /\ routes' = [routes EXCEPT ![r].sending = FALSE, ![r].state = "gone",
                                ![r].answers = Append(@, "ADAPTER_DISCONNECTED")]
    /\ consumerRequests' = Unindexed({r})
    /\ ReleaseRoute(r)
    /\ releasing' = releasing \cup PlansOf({r})
    /\ releasingUndo' = releasingUndo \cup TokensOf({r})
    /\ Doom({routes[r].adapter})
    /\ UNCHANGED <<registryVars, exposed>>

-----------------------------------------------------------------------------
(* Cancellation and timers.                                                *)

\* $/cancelRequest
CancelRequest(c, id) ==
    LET r == consumerRequests[<<c, id>>]
    IN  /\ IsOpen(c)
        /\ r # 0
        /\ routes[r].state = "active"
        /\ routes' = [routes EXCEPT ![r].state = "cancelled"]
        /\ consumerRequests' = Unindexed({r})
        /\ UNCHANGED <<registryVars, storeVars, releasing, releasingUndo, doomed, exposed>>

RouteTimeout(r) ==
    /\ r \in DOMAIN routes
    /\ routes[r].state = "active"
    /\ routes' = [routes EXCEPT ![r].state = "cancelled", ![r].answers = Append(@, "TIMEOUT")]
    /\ consumerRequests' = Unindexed({r})
    /\ UNCHANGED <<registryVars, storeVars, releasing, releasingUndo, doomed, exposed>>

\* Mistake: the removal is only scheduled for routes of consumers that left.
GraceExpiredOrphansOnly(r) ==
    /\ r \in DOMAIN routes
    /\ routes[r].state = "cancelled" /\ ~IsOpen(routes[r].consumer)
    /\ RemoveRoute(r, << >>)
    /\ ReleaseRoute(r)
    /\ UNCHANGED <<registryVars, releasing, releasingUndo, doomed, exposed>>

\* #scheduleRouteRemoval fires
GraceExpired(r) ==
    /\ r \in DOMAIN routes
    /\ routes[r].state = "cancelled"
    /\ RemoveRoute(r, << >>)
    /\ ReleaseRoute(r)
    /\ UNCHANGED <<registryVars, releasing, releasingUndo, doomed, exposed>>

SweepTimer ==
    /\ Sweep
    /\ UNCHANGED <<registryVars, routerVars>>

Clock ==
    /\ Tick
    /\ UNCHANGED <<registryVars, routerVars>>

-----------------------------------------------------------------------------
(* Responses of adapters.                                                  *)

\* The result names documents ds at epoch e that #assertWorkspaceDocument
\* refuses for workspace w.
DocumentsRefused(w, ds, e) ==
    /\ ds # {}
    /\ ~(/\ workspaces[w] # None
         /\ e = workspaces[w].epoch
         /\ ds \subseteq workspaces[w].roots)

\* #assertRoutedDocumentResult throws, or the result exceeds a bound.  `sound'
\* stands for the checks on the rest of the payload.
ResultRefused(r, ds, e, sound) ==
    /\ routes[r].kind = "read"
    /\ ~(/\ sound
         /\ workspaces[routes[r].workspace] # None
         /\ ~DocumentsRefused(routes[r].workspace, ds, e))

\* The route a response of adapter session s names.
Answers(s, r) == IsOpen(s) /\ r \in PresentRoutes /\ routes[r].adapter = s

\* The consumer gets PROVIDER_FAILED and the adapter is closed.
FailProvider(s, r) ==
    /\ RemoveRoute(r, <<"PROVIDER_FAILED">>)
    /\ Doom({s})
    /\ UNCHANGED <<registryVars, releasing, releasingUndo, exposed>>

Deliver(r, code) ==
    /\ RemoveRoute(r, <<code>>)
    /\ UNCHANGED <<registryVars, releasing, releasingUndo, doomed>>

\* The result of a read is refused before the route's state is looked at.
RejectResult(s, r, ds, e, sound) ==
    /\ Answers(s, r)
    /\ ResultRefused(r, ds, e, sound)
    /\ FailProvider(s, r)
    /\ ReleaseRoute(r)

\* A response to a cancelled or timed out route is dropped.
AbsorbLate(s, r, ds, e, sound) ==
    /\ Answers(s, r)
    /\ routes[r].state = "cancelled"
    /\ ~ResultRefused(r, ds, e, sound)
    /\ RemoveRoute(r, << >>)
    /\ ReleaseRoute(r)
    /\ UNCHANGED <<registryVars, releasing, releasingUndo, doomed, exposed>>

\* Mistake: the state of the route is not looked at.
AnswersAnyState(s, r, kinds) == Answers(s, r) /\ routes[r].kind \in kinds

AnswersActive(s, r, kinds) ==
    Answers(s, r) /\ routes[r].state = "active" /\ routes[r].kind \in kinds

ReadResult(s, r, ds, e, sound) ==
    /\ AnswersActive(s, r, {"read", "list"})
    /\ ~ResultRefused(r, ds, e, sound)
    /\ Deliver(r, "result")
    /\ UNCHANGED <<storeVars, exposed>>

\* Mistake: the error path returns before the stored entry is released.
ErrorResponseKeepsEntry(s, r, sound) ==
    /\ AnswersActive(s, r, RequestKinds)
    /\ \/ /\ sound \/ routes[r].kind \in {"read", "list"}
          /\ Deliver(r, "error") /\ UNCHANGED exposed
       \/ /\ ~sound /\ routes[r].kind \notin {"read", "list"}
          /\ FailProvider(s, r)
    /\ UNCHANGED storeVars

\* An error response; #transformEditErrorResponse throws when the error of an
\* edit is not `sound'.
ErrorResponse(s, r, sound) ==
    /\ AnswersActive(s, r, RequestKinds)
    /\ ReleaseRoute(r)
    /\ \/ /\ sound \/ routes[r].kind \in {"read", "list"}
          /\ Deliver(r, "error") /\ UNCHANGED exposed
       \/ /\ ~sound /\ routes[r].kind \notin {"read", "list"}
          /\ FailProvider(s, r)

\* The plan of a prepare, which names adapter a as its author: createPlan, in the
\* context of the registry as it is now.
PlanPrepared(s, r, a, key, expires, pre, changes, foreign) ==
    LET w == routes[r].workspace
        plan == [id |-> 1, consumer |-> routes[r].consumer, adapter |-> s, author |-> a,
                 workspace |-> w, epoch |-> workspaces[w].epoch, key |-> key,
                 expires |-> expires, pre |-> pre, changes |-> changes]
        refusal == CreatePlanRefusal(plan, workspaces[w].adapter, foreign, workspaces[w].roots)
    IN  /\ AnswersActive(s, r, {"prepare"})
        /\ \/ workspaces[w] = None /\ FailProvider(s, r) /\ UNCHANGED storeVars
           \/ workspaces[w] # None /\ refusal # "ok" /\ FailProvider(s, r) /\ Sweep
           \/ /\ workspaces[w] # None /\ refusal = "ok"
              /\ Deliver(r, "result") /\ CreatePlan(plan) /\ UNCHANGED exposed

PlanDiscarded(s, r, sound) ==
    /\ AnswersActive(s, r, {"discard"})
    /\ ReleaseRoute(r)
    /\ \/ sound /\ Deliver(r, "result") /\ UNCHANGED exposed
       \/ ~sound /\ FailProvider(s, r)

\* #assertModifiedDocuments throws: an apply must report exactly the plan's
\* changes.
ModificationRefused(r, ds, e, sound) ==
    \/ ~sound
    \/ routes[r].kind = "apply" /\ ds # routes[r].plan.changes
    \/ DocumentsRefused(routes[r].workspace, ds, e)

\* The ModificationResult of an apply or an undo that carries no undo token.
Modified(s, r, ds, e, sound) ==
    /\ AnswersActive(s, r, {"apply", "undo"})
    /\ ReleaseRoute(r)
    /\ \/ ModificationRefused(r, ds, e, sound) /\ FailProvider(s, r)
       \/ ~ModificationRefused(r, ds, e, sound) /\ Deliver(r, "result") /\ UNCHANGED exposed

\* One that carries the undo token `key'.  With the store full the result is
\* the adapter's own, its undoToken included.
ModifiedWithUndo(s, r, ds, e, a, key, expires, foreign) ==
    LET w == routes[r].workspace
        token == [id |-> 1, consumer |-> routes[r].consumer, adapter |-> s, author |-> a,
                  workspace |-> w, key |-> key, expires |-> expires]
        refusal == CreateUndoTokenRefusal(token, workspaces[w].adapter, foreign, TokensOf({r}))
        SweepAndRelease ==
            /\ Retire(SweptPlans, SweptTokens, PlansOf({r}), TokensOf({r}))
            /\ UNCHANGED <<reasons, planSeq, tokenSeq, now>>
    IN  /\ AnswersActive(s, r, {"apply", "undo"})
        /\ ~ModificationRefused(r, ds, e, TRUE)
        /\ \/ workspaces[w] = None /\ FailProvider(s, r) /\ ReleaseRoute(r)
           \/ /\ workspaces[w] # None /\ refusal = "PROVIDER_FAILED"
              /\ FailProvider(s, r) /\ SweepAndRelease
           \/ /\ workspaces[w] # None /\ refusal = "PRECONDITION_FAILED"
              /\ Deliver(r, "result") /\ SweepAndRelease
              /\ exposed' = exposed \cup {Key(token)}
           \/ /\ workspaces[w] # None /\ refusal = "ok"
              /\ Deliver(r, "result")
              /\ CreateUndoToken(token, PlansOf({r}), TokensOf({r}))
              /\ UNCHANGED exposed

-----------------------------------------------------------------------------

SessionSteps ==
    \/ \E s \in SessionIds : SessionOpened(s) \/ SessionClosed(s)
    \/ \E s \in AdapterSessions : ProtocolViolation(s)
    \/ \E s \in AdapterSessions, a \in AdapterIds, ws \in SUBSET WorkspaceIds,
          docs \in RootSets, e \in Epochs, t \in TrustLevels, offer \in Offers :
            Register(s, a, ws, docs, e, t, offer)
    \/ \E s \in AdapterSessions, a \in AdapterIds : Unregister(s, a)

NotificationSteps ==
    \E s \in AdapterSessions :
        \/ \E a \in AdapterIds, c \in Offers : CapabilitiesChanged(s, a, c)
        \/ \E w \in WorkspaceIds, a \in AdapterIds, docs \in RootSets, e \in Epochs,
              t \in TrustLevels : WorkspaceOpened(s, w, a, docs, e, t)
        \/ \E w \in WorkspaceIds, a \in AdapterIds : WorkspaceClosed(s, w, a)
        \/ \E w \in WorkspaceIds, a \in AdapterIds, docs \in RootSets, e \in Epochs :
              RootsChanged(s, w, a, docs, e)
        \/ \E w \in WorkspaceIds, st \in ReadinessStates : ReadinessChanged(s, w, st)
        \/ \E w \in WorkspaceIds, a \in AdapterIds, t \in TrustLevels : TrustChanged(s, w, a, t)
        \/ \E w \in WorkspaceIds, ds \in SUBSET Docs, rev \in BOOLEAN :
              DocumentsTouched(s, w, ds, rev)

Handles == [session : AdapterSessions, epoch : Epochs] \cup {None}

RequestSteps ==
    \E c \in ConsumerSessions, id \in RequestIds :
        \/ CancelRequest(c, id)
        \/ \E w \in WorkspaceIds :
            \/ \E kind \in {"read", "list", "prepare"}, h \in Handles :
                    RouteRequest(c, id, kind, w, h)
            \/ \E p \in PlanIds : ApplyPlan(c, id, p, w) \/ DiscardPlanRequest(c, id, p, w)
            \/ \E t \in TokenIds : Undo(c, id, t, w)

ResponseSteps ==
    \E s \in AdapterSessions, r \in RouteIds :
        \/ \E ds \in SUBSET Docs, e \in Epochs, sound \in BOOLEAN :
            \/ RejectResult(s, r, ds, e, sound)
            \/ AbsorbLate(s, r, ds, e, sound)
            \/ ReadResult(s, r, ds, e, sound)
            \/ Modified(s, r, ds, e, sound)
            \/ \E a \in AdapterIds, key \in AdapterTokenIds, x \in Deadlines :
                    ModifiedWithUndo(s, r, ds, e, a, key, x, ~sound)
        \/ \E sound \in BOOLEAN : ErrorResponse(s, r, sound) \/ PlanDiscarded(s, r, sound)
        \/ \E a \in AdapterIds, key \in AdapterPlanIds, x \in Deadlines, pre \in SUBSET Docs,
              changes \in SUBSET Docs, foreign \in BOOLEAN :
                PlanPrepared(s, r, a, key, x, pre, changes, foreign)

TimerSteps ==
    \/ \E r \in RouteIds : RouteTimeout(r) \/ GraceExpired(r)
    \/ SweepTimer
    \/ Clock

ContinuationSteps ==
    \/ \E r \in RouteIds : SendDone(r) \/ SendFailed(r)
    \/ \E x \in releasing : FinishRefusedPlan(x)
    \/ \E x \in releasingUndo : FinishRefusedUndo(x)

RouterNext ==
    \/ SessionSteps
    \/ NotificationSteps
    \/ RequestSteps
    \/ ResponseSteps
    \/ TimerSteps
    \/ ContinuationSteps

RouterSpec == RouterInit /\ [][RouterNext]_vars

\* Node fires the timers it armed, settles every send (the socket flushes or
\* dies), resumes every settled await, and the WebSocket library reports the
\* close of a closing socket.
RouterFairness ==
    /\ \A r \in RouteIds :
        /\ WF_vars(RouteTimeout(r))
        /\ WF_vars(GraceExpired(r))
        /\ WF_vars(SendDone(r) \/ SendFailed(r))
    /\ WF_vars(\E x \in releasing : FinishRefusedPlan(x))
    /\ WF_vars(\E x \in releasingUndo : FinishRefusedUndo(x))
    /\ \A s \in AdapterSessions : WF_vars(s \in doomed /\ SessionClosed(s))

FairRouterSpec == RouterSpec /\ RouterFairness

-----------------------------------------------------------------------------
(* Properties.                                                             *)

\* The stored plans and tokens out with the router are those of the routes in
\* #routes and of the refusals being sent: no path (answer, late answer, refusal,
\* timeout, grace, disconnect, unregister) forgets one, and with
\* ReservationsExact no adapter identifier stays reserved for ever.
HeldByRoutes ==
    /\ held \subseteq PlansOf(PresentRoutes) \cup releasing
    /\ PlansOf(PresentRoutes) \subseteq held
    /\ heldUndo \subseteq TokensOf(PresentRoutes) \cup releasingUndo
    /\ TokensOf(PresentRoutes) \subseteq heldUndo

\* A session whose socket is closing, or closed.
Closing(s) == s \in doomed \/ sessions[s] = "closed"

\* An adapter identifier stays reserved while a plan (or token) with it is stored
\* or in flight, on every connection that is not closing (ADR-0007, "retaining
\* the adapter identity reservation until the routed request settles").  On a
\* closing one the second release of SendFailed may free an identifier taken
\* again in between.
ReservedWhileInFlight ==
    /\ \A x \in OutstandingPlans : ~Closing(x.adapter) => Key(x) \in internalPlans
    /\ \A x \in OutstandingTokens : ~Closing(x.adapter) => Key(x) \in internalUndo
    /\ internalPlans \subseteq {Key(x) : x \in OutstandingPlans}
    /\ internalUndo \subseteq {Key(x) : x \in OutstandingTokens}

\* On a connection that is not closing, an adapter's identifier means one plan (or
\* token) among those stored, in flight or about to be released: the second
\* release of SendFailed frees no identifier another plan needs.
OneMeaningWhileServing ==
    /\ \A x, y \in OutstandingPlans : ~Closing(x.adapter) /\ Key(x) = Key(y) => x = y
    /\ \A x, y \in OutstandingTokens : ~Closing(x.adapter) /\ Key(x) = Key(y) => x = y

\* The adapter session of a stored entry registered the adapter it names.
AuthorRegistered(x) == adapterBySession[x.adapter] = x.author

\* A stored plan belongs to two sessions that are open, and can still be applied:
\* its adapter owns its workspace, in the epoch of the plan, also when sessions,
\* owners or epochs changed while the prepare was in flight (ADR-0007, "Epoch
\* changes expire all plans for that workspace").  The exception is an adapter
\* that answered in the name of another one, which had taken its workspace over:
\* createPlan compares the name with the owner of the workspace, not of the
\* session, and only #assertStoredAdapter stops the plan.
PlanOwnersAlive ==
    /\ \A p \in LivePlans :
        /\ IsOpen(plans[p].consumer) /\ IsOpen(plans[p].adapter)
        /\ AuthorRegistered(plans[p])
            => /\ ~StoredAdapterGone(plans[p].adapter, plans[p].workspace)
               /\ workspaces[plans[p].workspace].epoch = plans[p].epoch
    /\ \A t \in LiveTokens :
        /\ IsOpen(undoTokens[t].consumer) /\ IsOpen(undoTokens[t].adapter)
        /\ AuthorRegistered(undoTokens[t])
            => ~StoredAdapterGone(undoTokens[t].adapter, undoTokens[t].workspace)

\* An apply, discard or undo is forwarded for the consumer that prepared, to the
\* adapter session that holds the plan, in its workspace.
ForwardedToItsAdapter ==
    \A r \in DOMAIN routes :
        LET x == IF routes[r].plan # None THEN routes[r].plan ELSE routes[r].token
        IN  x # None => /\ x.consumer = routes[r].consumer
                        /\ x.adapter = routes[r].adapter
                        /\ x.workspace = routes[r].workspace

\* A public plan or token is forwarded at most once for the life of the daemon,
\* whatever became of the request (ADR-0007, "the plan is never made reusable").
ForwardedOnce ==
    \A q, r \in DOMAIN routes :
        /\ routes[q].plan # None /\ routes[r].plan # None /\ routes[q].plan.id = routes[r].plan.id
            => q = r
        /\ routes[q].token # None /\ routes[r].token # None /\ routes[q].token.id = routes[r].token.id
            => q = r

\* The limits on routes in flight, tombstones of cancelled routes included.
InFlightBounds ==
    /\ Cardinality(PresentRoutes) <= MaxInFlight
    /\ \A c \in ConsumerSessions : Cardinality(ActiveRoutes(c)) <= MaxInFlightPerConsumer

\* Every active route can be cancelled by its consumer, and the index names
\* nothing else.
IndexNamesActiveRoutes ==
    /\ \A c \in ConsumerSessions : \A r \in ActiveRoutes(c) : consumerRequests[RequestKey(r)] = r
    /\ \A k \in DOMAIN consumerRequests :
        consumerRequests[k] # 0 => /\ routes[consumerRequests[k]].state = "active"
                                  /\ RequestKey(consumerRequests[k]) = k

\* An active route belongs to an open consumer and an open adapter: no request
\* waits for a session that is gone.
ActiveRoutesConnected ==
    \A r \in PresentRoutes :
        /\ IsOpen(routes[r].adapter)
        /\ routes[r].state = "active" => IsOpen(routes[r].consumer)

\* A result reaches the consumer first or not at all: never after a TIMEOUT,
\* an error or another result.
ResultOnlyFirst ==
    \A r \in DOMAIN routes : \A i \in DOMAIN routes[r].answers :
        routes[r].answers[i] = "result" => i = 1

\* Every forwarded request is settled and leaves #routes, so that the in-flight
\* limits cannot fill up for good.
RoutesDrain ==
    \A r \in RouteIds :
        (r \in PresentRoutes) ~> (r \in DOMAIN routes /\ routes[r].state = "gone")

\* An adapter identifier out with the router is given back.
HeldDrains ==
    \A k \in AdapterSessions \X AdapterPlanIds :
        (\E x \in held : Key(x) = k) ~> (\A x \in held : Key(x) # k)

\* ADR-0006: after cancellation or timeout the route remains to absorb one late
\* response without forwarding it.  So a cancelled route of a consumer that is
\* still connected is never answered.
LateResponseAbsorbed ==
    [][\A r \in DOMAIN routes :
        routes[r].state = "cancelled" /\ IsOpen(routes[r].consumer)
            => routes'[r].answers = routes[r].answers]_vars

\* ADR-0007: consumers never receive the adapter's internal authorization
\* handle, also when the store has no slot for an undo token.
AdapterTokensPrivate == exposed = {}

=============================================================================
