----------------------- MODULE ApplicationRouterProofs ------------------------
(***************************************************************************)
(* Proofs about the router with the registry and the edit store it drives, *)
(* for all sessions, adapters, requests, limits and bounds.                *)
(*                                                                         *)
(* The argument is in four layers, each using the ones before it:          *)
(*  - the router calls the registry as RegistryNext allows, so what is     *)
(*    proved of the registry holds under the router;                       *)
(*  - a route keeps its request, and only moves forward;                   *)
(*  - the books: what is stored, out, carried by a route or waiting to be  *)
(*    released, with the identifiers reserved for it;                      *)
(*  - who owns a stored entry, and what is remembered of one gone stale.   *)
(* The exact reservations of the store alone (DaemonStateProofs) do not    *)
(* survive in the router: SendFailed releases an entry twice.  The books   *)
(* say what remains true.                                                  *)
(***************************************************************************)
EXTENDS ApplicationRouter, DaemonStateProofs, FiniteSetTheorems, SequenceTheorems

-----------------------------------------------------------------------------
(* The invariants.                                                         *)

\* A route of a request carries the entry its kind calls for.
Carried(rec) ==
    /\ rec.kind \in {"read", "list", "prepare", "undo"} => rec.plan = None
    /\ rec.kind # "undo" => rec.token = None

\* The answers of a route: none while it is active, a result only first.
Answered(rec) ==
    /\ rec.state = "active" => rec.answers = << >>
    /\ \A i \in DOMAIN rec.answers : rec.answers[i] = "result" => i = 1

\* The entry a route carries is its consumer's, its adapter's and its workspace's.
Matches(rec, x) ==
    x # None => /\ x.consumer = rec.consumer
                /\ x.adapter = rec.adapter
                /\ x.workspace = rec.workspace

\* A route in #routes has a registered adapter, and an open consumer while active;
\* no route was created for a session that never was.
Connected(rec) ==
    /\ sessions[rec.adapter] # "fresh"
    /\ rec.state # "gone" => IsOpen(rec.adapter) /\ adapterBySession[rec.adapter] # None
    /\ rec.state = "active" => IsOpen(rec.consumer)

RouteInvariant ==
    /\ routes \in Seq(RouteRecord) /\ Len(routes) <= MaxRoutes
    /\ \A r \in DOMAIN routes :
        /\ Carried(routes[r])
        /\ Answered(routes[r])
        /\ Matches(routes[r], routes[r].plan)
        /\ Matches(routes[r], routes[r].token)
        /\ Connected(routes[r])

\* The books of plans, or of undo tokens: e the stored entries by identifier, k the
\* reserved keys, h the entries out, n the last identifier given, closing the
\* sessions that are closing, carried the entry of each route, present the routes
\* in #routes, and waiting the entries a suspended handler will release.
Live(ids, e) == {p \in ids : e[p] # None}
Out(ids, e, h) == {e[p] : p \in Live(ids, e)} \cup h

Keys(ids, e, k, h, closing) ==
    /\ k \subseteq {Key(x) : x \in Out(ids, e, h)}
    /\ \A x \in Out(ids, e, h) : x.adapter \notin closing => Key(x) \in k
    /\ \A x, y \in Out(ids, e, h) : x.adapter \notin closing /\ Key(x) = Key(y) => x = y

Identities(ids, entry, e, h, n) ==
    /\ e \in [ids -> entry \cup {None}]
    /\ h \subseteq entry
    /\ n \in Nat
    /\ \A p \in ids : e[p] # None => e[p].id = p /\ p <= n
    /\ \A x \in h : e[x.id] = None /\ x.id <= n

Carriers(entry, e, h, n, closing, carried, present, waiting) ==
    /\ waiting \subseteq entry
    /\ \A r \in DOMAIN carried : carried[r] # None =>
        carried[r] \in entry /\ e[carried[r].id] = None /\ carried[r].id <= n
    /\ \A q, r \in DOMAIN carried :
        carried[q] # None /\ carried[r] # None /\ carried[q].id = carried[r].id => q = r
    /\ \A x \in waiting : e[x.id] = None /\ x.id <= n
    /\ \A x \in waiting, r \in present : carried[r] # x
    /\ \A r \in present : carried[r] # None => carried[r] \in h
    /\ \A x \in h : x \in waiting \/ \E r \in present : carried[r] = x
    /\ \A x \in waiting : x \in h \/ x.adapter \in closing

Books(ids, entry, e, k, h, n, closing, carried, present, waiting) ==
    /\ Identities(ids, entry, e, h, n)
    /\ Keys(ids, e, k, h, closing)
    /\ Carriers(entry, e, h, n, closing, carried, present, waiting)

ClosingSessions == {s \in AdapterSessions : Closing(s)}
CarriedPlans == [r \in DOMAIN routes |-> routes[r].plan]
CarriedTokens == [r \in DOMAIN routes |-> routes[r].token]

PlanBooks ==
    Books(PlanIds, StoredPlan, plans, internalPlans, held, planSeq,
          ClosingSessions, CarriedPlans, PresentRoutes, releasing)

TokenBooks ==
    Books(TokenIds, StoredUndoToken, undoTokens, internalUndo, heldUndo, tokenSeq,
          ClosingSessions, CarriedTokens, PresentRoutes, releasingUndo)

\* A stored entry has two open sessions, one of them with a registered adapter;
\* when that is the adapter the entry names, it owns the workspace.
Owned(x) ==
    /\ IsOpen(x.consumer) /\ IsOpen(x.adapter)
    /\ adapterBySession[x.adapter] # None
    /\ AuthorRegistered(x) => workspaces[x.workspace] # None /\ workspaces[x.workspace].adapter = x.author

OwnersInvariant ==
    /\ \A p \in LivePlans : /\ Owned(plans[p])
                            /\ AuthorRegistered(plans[p])
                                => workspaces[plans[p].workspace].epoch = plans[p].epoch
    /\ \A t \in LiveTokens : Owned(undoTokens[t])

-----------------------------------------------------------------------------
(* The shapes of the router's steps.                                       *)

SameRequest(new, old) ==
    /\ new.kind = old.kind /\ new.id = old.id /\ new.consumer = old.consumer
    /\ new.adapter = old.adapter /\ new.workspace = old.workspace
    /\ new.plan = old.plan /\ new.token = old.token

\* Every route keeps its request and moves forward, and the routes `gone' are
\* removed; a result is only sent on an active route.
Advance(gone) ==
    /\ routes' \in Seq(RouteRecord)
    /\ DOMAIN routes' = DOMAIN routes
    /\ \A r \in DOMAIN routes :
        /\ SameRequest(routes'[r], routes[r])
        /\ routes'[r].state = "gone" <=> routes[r].state = "gone" \/ r \in gone
        /\ routes'[r].state = "active"
            => routes[r].state = "active" /\ routes'[r].answers = routes[r].answers
        /\ \/ routes'[r].answers = routes[r].answers
           \/ \E code \in Codes :
                /\ routes'[r].answers = Append(routes[r].answers, code)
                /\ code = "result" => routes[r].state = "active"

\* The routes are left alone.
LEMMA AdvanceNone ==
    ASSUME routes \in Seq(RouteRecord), routes' = routes
    PROVE  Advance({})
  BY DEF Advance, SameRequest

\* A route gets another state, and possibly an answer.
LEMMA AdvanceOne ==
    ASSUME routes \in Seq(RouteRecord), NEW r \in DOMAIN routes,
           NEW rec, rec \in RouteRecord, SameRequest(rec, routes[r]),
           rec.state = "active" => routes[r].state = "active" /\ rec.answers = routes[r].answers,
           routes[r].state = "gone" => rec.state = "gone",
           \/ rec.answers = routes[r].answers
           \/ \E code \in Codes :
                /\ rec.answers = Append(routes[r].answers, code)
                /\ code = "result" => routes[r].state = "active",
           routes' = [routes EXCEPT ![r] = rec]
    PROVE  Advance(IF rec.state = "gone" THEN {r} ELSE {})
PROOF
  <1>1. routes' \in Seq(RouteRecord) /\ DOMAIN routes' = DOMAIN routes
    OBVIOUS
  <1>2. \A q \in DOMAIN routes : routes'[q] = IF q = r THEN rec ELSE routes[q]
    OBVIOUS
  <1>3. \A q \in DOMAIN routes : SameRequest(routes[q], routes[q])
    BY DEF SameRequest
  <1> QED BY <1>1, <1>2, <1>3 DEF Advance

\* The fields a step may change in a route.
Updated(rec, st, ans) == [rec EXCEPT !.state = st, !.answers = ans]

\* The other fields are kept.
LEMMA RouteUpdated ==
    ASSUME NEW rec \in RouteRecord, NEW st \in {"active", "cancelled", "gone"},
           NEW ans \in Seq(Codes)
    PROVE  /\ Updated(rec, st, ans) \in RouteRecord
           /\ Updated(rec, st, ans).state = st
           /\ Updated(rec, st, ans).answers = ans
           /\ SameRequest(Updated(rec, st, ans), rec)
PROOF
  <1>1. Updated(rec, st, ans) \in RouteRecord
    BY DEF RouteRecord, Updated
  <1>2. Updated(rec, st, ans).state = st /\ Updated(rec, st, ans).answers = ans
    BY DEF RouteRecord, Updated
  <1>3. SameRequest(Updated(rec, st, ans), rec)
    BY DEF RouteRecord, SameRequest, Updated
  <1> QED BY <1>1, <1>2, <1>3

\* What the type of a route says of those fields.
LEMMA RouteFields ==
    ASSUME NEW rec \in RouteRecord
    PROVE  /\ rec.state \in {"active", "cancelled", "gone"}
           /\ rec.sending \in BOOLEAN
           /\ rec.answers \in Seq(Codes)
  BY DEF RouteRecord

\* One more answer, or none.
LEMMA OneMoreAnswer ==
    ASSUME NEW ans \in Seq(Codes), NEW code \in Codes
    PROVE  /\ Append(ans, code) \in Seq(Codes)
           /\ ans \o <<code>> = Append(ans, code)
           /\ ans \o << >> = ans
  OBVIOUS

\* #removeRoute, with the response sent with it.
LEMMA AdvanceRemoved ==
    ASSUME routes \in Seq(RouteRecord), NEW r \in DOMAIN routes, NEW answer,
           \/ answer = << >>
           \/ \E code \in Codes : answer = <<code>> /\ (code = "result" => routes[r].state = "active"),
           RemoveRoute(r, answer)
    PROVE  Advance({r})
PROOF
  <1> DEFINE ans == routes[r].answers \o answer
             rec == Updated(routes[r], "gone", ans)
  <1>1. routes[r] \in RouteRecord
    OBVIOUS
  <1>2. /\ ans \in Seq(Codes)
        /\ \/ ans = routes[r].answers
           \/ \E code \in Codes :
                /\ ans = Append(routes[r].answers, code)
                /\ code = "result" => routes[r].state = "active"
    <2>1. routes[r].answers \in Seq(Codes)
      BY <1>1, RouteFields
    <2>2. CASE answer = << >>
      BY <2>1, <2>2
    <2>3. ASSUME NEW code \in Codes, answer = <<code>>, code = "result" => routes[r].state = "active"
          PROVE  /\ ans \in Seq(Codes)
                 /\ ans = Append(routes[r].answers, code)
      BY <2>1, <2>3, OneMoreAnswer
    <2> QED BY <2>2, <2>3
  <1>3. routes' = [routes EXCEPT ![r] = rec]
    <2>1. [routes[r] EXCEPT !.state = "gone", !.answers = @ \o answer] = rec
      BY <1>1 DEF RouteRecord, Updated
    <2> QED BY <2>1 DEF RemoveRoute
  <1> HIDE DEF ans
  <1>4. rec \in RouteRecord /\ rec.state = "gone" /\ rec.answers = ans /\ SameRequest(rec, routes[r])
    BY <1>1, <1>2, RouteFields, RouteUpdated
  <1> HIDE DEF rec
  <1> QED BY <1>2, <1>3, <1>4, AdvanceOne

\* The routes of a session that goes away.
LEMMA AdvanceSession ==
    ASSUME routes \in Seq(RouteRecord), NEW served \in SUBSET PresentRoutes, NEW asked,
           \A r \in asked : r \in DOMAIN routes /\ routes[r].state = "active",
           DropSessionRoutes(served, asked)
    PROVE  Advance(served)
PROOF
  <1>1. routes' = [r \in DOMAIN routes |->
            IF r \in served
            THEN [routes[r] EXCEPT !.state = "gone",
                    !.answers = IF routes[r].state = "active"
                                THEN Append(@, "ADAPTER_DISCONNECTED") ELSE @]
            ELSE IF r \in asked THEN [routes[r] EXCEPT !.state = "cancelled"]
            ELSE routes[r]]
    BY DEF DropSessionRoutes
  <1>2. ASSUME NEW r \in DOMAIN routes
        PROVE  /\ routes'[r] \in RouteRecord
               /\ SameRequest(routes'[r], routes[r])
               /\ routes'[r].state = "gone" <=> routes[r].state = "gone" \/ r \in served
               /\ routes'[r].state = "active"
                   => routes[r].state = "active" /\ routes'[r].answers = routes[r].answers
               /\ \/ routes'[r].answers = routes[r].answers
                  \/ routes'[r].answers = Append(routes[r].answers, "ADAPTER_DISCONNECTED")
    <2>1. /\ routes[r] \in RouteRecord
          /\ routes[r].answers \in Seq(Codes)
          /\ routes[r].sending \in BOOLEAN
      BY RouteFields
    <2>2. "ADAPTER_DISCONNECTED" \in Codes
      BY DEF Codes
    <2>3. CASE r \in served
      <3> DEFINE ans == IF routes[r].state = "active"
                        THEN Append(routes[r].answers, "ADAPTER_DISCONNECTED") ELSE routes[r].answers
      <3>1. routes'[r] = [routes[r] EXCEPT !.state = "gone", !.answers = ans]
        BY <1>1, <2>3
      <3>2. routes'[r] = Updated(routes[r], "gone", ans)
        BY <2>1, <3>1 DEF RouteRecord, Updated
      <3>3. ans \in Seq(Codes)
        BY <2>1, <2>2
      <3>4. /\ routes'[r] \in RouteRecord
            /\ routes'[r].state = "gone" /\ routes'[r].answers = ans
            /\ SameRequest(routes'[r], routes[r])
        <4> HIDE DEF ans
        <4> QED BY <2>1, <3>2, <3>3, RouteUpdated
      <3> QED BY <2>3, <3>4
    <2>4. CASE r \notin served /\ r \in asked
      <3>1. routes'[r] = [routes[r] EXCEPT !.state = "cancelled"]
        BY <1>1, <2>4
      <3>2. routes'[r] = Updated(routes[r], "cancelled", routes[r].answers)
        BY <2>1, <3>1 DEF RouteRecord, Updated
      <3>3. routes'[r] \in RouteRecord /\ routes'[r].state = "cancelled"
            /\ routes'[r].answers = routes[r].answers /\ SameRequest(routes'[r], routes[r])
        BY <2>1, <3>2, RouteUpdated
      <3> QED BY <2>4, <3>3
    <2>5. CASE r \notin served /\ r \notin asked
      <3>1. routes'[r] = routes[r]
        BY <1>1, <2>5
      <3> QED BY <2>1, <2>5, <3>1 DEF SameRequest
    <2> QED BY <2>3, <2>4, <2>5
  <1>3. DOMAIN routes' = DOMAIN routes /\ routes' \in Seq(RouteRecord)
    <2>1. DOMAIN routes = 1 .. Len(routes) /\ Len(routes) \in Nat
      OBVIOUS
    <2>2. routes' \in [1 .. Len(routes) -> RouteRecord]
      BY <1>1, <1>2, <2>1
    <2> QED BY <2>1, <2>2
  <1>4. "ADAPTER_DISCONNECTED" \in Codes /\ "ADAPTER_DISCONNECTED" # "result"
    BY DEF Codes
  <1> QED BY <1>2, <1>3, <1>4 DEF Advance

StoreTypes ==
    /\ plans \in [PlanIds -> StoredPlan \cup {None}]
    /\ undoTokens \in [TokenIds -> StoredUndoToken \cup {None}]
    /\ planSeq \in Nat /\ tokenSeq \in Nat

\* Routes are removed, their entries released and other entries dropped.
DropStep ==
    \E gone \in SUBSET PresentRoutes, ps \in SUBSET LivePlans, ts \in SUBSET LiveTokens :
        /\ Advance(gone)
        /\ Retire(ps, ts, PlansOf(gone), TokensOf(gone))
        /\ UNCHANGED <<planSeq, tokenSeq, releasing, releasingUndo>>

\* A read or prepare is forwarded.
AskStep(c, id, kind, w) ==
    /\ MaySend(c, id, kind) /\ kind \in {"read", "list", "prepare"}
    /\ WorkspaceConnectionRefusal(w) = "ok"
    /\ AddRoute(c, id, kind, w, None, None)
    /\ UNCHANGED <<registryVars, storeVars, releasing, releasingUndo, doomed>>

\* A plan leaves the store, with a route or to be released.
TakePlan(c, id, kind, p, w) ==
    /\ MaySend(c, id, kind) /\ kind \in {"apply", "discard"}
    /\ Owns(c, p, w) /\ ~StoredAdapterGone(plans[p].adapter, w)
    /\ CheckOut(p)
    /\ \/ AddRoute(c, id, kind, w, plans[p], None) /\ UNCHANGED releasing
       \/ releasing' = releasing \cup {plans[p]} /\ UNCHANGED routes
    /\ UNCHANGED <<registryVars, planSeq, tokenSeq, releasingUndo, doomed>>

\* The same for an undo token.
TakeToken(c, id, t, w) ==
    /\ MaySend(c, id, "undo")
    /\ undoTokens[t] # None /\ undoTokens[t].consumer = c /\ undoTokens[t].workspace = w
    /\ ~StoredAdapterGone(undoTokens[t].adapter, w)
    /\ undoTokens' = [undoTokens EXCEPT ![t] = None]
    /\ heldUndo' = heldUndo \cup {undoTokens[t]}
    /\ UNCHANGED <<plans, internalPlans, held, internalUndo>>
    /\ \/ AddRoute(c, id, "undo", w, None, undoTokens[t]) /\ UNCHANGED releasingUndo
       \/ releasingUndo' = releasingUndo \cup {undoTokens[t]} /\ UNCHANGED routes
    /\ UNCHANGED <<registryVars, planSeq, tokenSeq, releasing, doomed>>

\* An answer brings an entry x for the workspace of its route.
Brought(s, r, x) ==
    /\ x.adapter = s
    /\ x.consumer = routes[r].consumer
    /\ x.workspace = routes[r].workspace
    /\ workspaces[x.workspace] # None
    /\ x.author = workspaces[x.workspace].adapter

StorePlan(s, r, plan) ==
    /\ AnswersActive(s, r, {"prepare"})
    /\ Brought(s, r, plan) /\ plan.epoch = workspaces[plan.workspace].epoch
    /\ Key(plan) \notin PlanKeysWithout(SweptPlans, {})
    /\ CreatePlan(plan)
    /\ Deliver(r, "result")

StoreToken(s, r, token) ==
    /\ AnswersActive(s, r, {"apply", "undo"})
    /\ Brought(s, r, token)
    /\ Key(token) \notin UndoKeysWithout(SweptTokens, TokensOf({r}))
    /\ CreateUndoToken(token, PlansOf({r}), TokensOf({r}))
    /\ Deliver(r, "result")

\* The shapes a step of the router can have.
Shape ==
    \/ DropStep
    \/ \E r \in DOMAIN routes : SendFailed(r)
    \/ \E x \in releasing : FinishRefusedPlan(x)
    \/ \E x \in releasingUndo : FinishRefusedUndo(x)
    \/ \E c \in ConsumerSessions, id \in RequestIds, kind \in RequestKinds, w \in WorkspaceIds :
            AskStep(c, id, kind, w)
    \/ \E c \in ConsumerSessions, id \in RequestIds, kind \in RequestKinds, p \in PlanIds,
          w \in WorkspaceIds : TakePlan(c, id, kind, p, w)
    \/ \E c \in ConsumerSessions, id \in RequestIds, t \in TokenIds, w \in WorkspaceIds :
            TakeToken(c, id, t, w)
    \/ \E s \in AdapterSessions, r \in DOMAIN routes, plan \in StoredPlan : StorePlan(s, r, plan)
    \/ \E s \in AdapterSessions, r \in DOMAIN routes, token \in StoredUndoToken :
            StoreToken(s, r, token)

\* Nothing is retired.
LEMMA RetireNothing ==
    ASSUME StoreTypes, UNCHANGED entryVars
    PROVE  Retire({}, {}, {}, {})
  BY DEF StoreTypes, entryVars, Retire, PlanKeysWithout, UndoKeysWithout

\* The entries of no route, and of a route without one.
LEMMA EntriesOf ==
    /\ PlansOf({}) = {} /\ TokensOf({}) = {}
    /\ \A r : routes[r].plan = None => PlansOf({r}) = {}
    /\ \A r : routes[r].token = None => TokensOf({r}) = {}
    /\ \A r : routes[r].plan # None => PlansOf({r}) = {routes[r].plan}
    /\ \A r : routes[r].token # None => TokensOf({r}) = {routes[r].token}
  BY DEF PlansOf, TokensOf

\* Entries are dropped and no route is removed.
LEMMA DropsOnly ==
    ASSUME StoreTypes, Advance({}),
           NEW ps \in SUBSET LivePlans, NEW ts \in SUBSET LiveTokens,
           Retire(ps, ts, {}, {}),
           UNCHANGED <<planSeq, tokenSeq, releasing, releasingUndo>>
    PROVE  DropStep
PROOF
  <1>1. Retire(ps, ts, PlansOf({}), TokensOf({}))
    BY EntriesOf
  <1>2. {} \in SUBSET PresentRoutes
    OBVIOUS
  <1> QED BY <1>1, <1>2 DEF DropStep

\* The entries stay, and no route is removed.
LEMMA DropsNothing ==
    ASSUME StoreTypes, Advance({}), UNCHANGED <<storeVars, releasing, releasingUndo>>
    PROVE  DropStep
PROOF
  <1>1. Retire({}, {}, {}, {})
    BY RetireNothing DEF storeVars
  <1>2. UNCHANGED <<planSeq, tokenSeq, releasing, releasingUndo>>
    BY DEF storeVars
  <1>3. {} \in SUBSET LivePlans /\ {} \in SUBSET LiveTokens
    OBVIOUS
  <1> QED BY <1>1, <1>2, <1>3, DropsOnly

\* One route is removed, its entry released and other entries dropped.
LEMMA DropsRoute ==
    ASSUME NEW r \in PresentRoutes, Advance({r}),
           NEW ps \in SUBSET LivePlans, NEW ts \in SUBSET LiveTokens,
           Retire(ps, ts, PlansOf({r}), TokensOf({r})),
           UNCHANGED <<planSeq, tokenSeq, releasing, releasingUndo>>
    PROVE  DropStep
PROOF
  <1>1. {r} \in SUBSET PresentRoutes
    OBVIOUS
  <1> QED BY <1>1 DEF DropStep

\* A response that removes its route and releases the entry of it.
LEMMA RemovalDrops ==
    ASSUME RouteInvariant, StoreTypes, NEW r \in PresentRoutes, NEW answer,
           \/ answer = << >>
           \/ \E code \in Codes : answer = <<code>> /\ (code = "result" => routes[r].state = "active"),
           RemoveRoute(r, answer),
           NEW ps \in SUBSET LivePlans, NEW ts \in SUBSET LiveTokens,
           Retire(ps, ts, PlansOf({r}), TokensOf({r})),
           UNCHANGED <<planSeq, tokenSeq, releasing, releasingUndo>>
    PROVE  DropStep
PROOF
  <1>1. r \in DOMAIN routes /\ routes \in Seq(RouteRecord)
    BY DEF PresentRoutes, RouteInvariant
  <1>2. Advance({r})
    BY <1>1, AdvanceRemoved
  <1> QED BY <1>2, DropsRoute

\* The notifications and requests of sessions.
LEMMA SessionShapes ==
    ASSUME RouteInvariant, StoreTypes, SessionSteps
    PROVE  DropStep
PROOF
  <1>0. /\ routes \in Seq(RouteRecord)
        /\ \A s : ServedBy(s) \in SUBSET PresentRoutes
        /\ \A s : \A r \in ActiveRoutes(s) : r \in DOMAIN routes /\ routes[r].state = "active"
    BY DEF RouteInvariant, ServedBy, ActiveRoutes, PresentRoutes
  <1>1. ASSUME UNCHANGED <<storeVars, routerVars>> PROVE DropStep
    BY <1>0, <1>1, AdvanceNone, DropsNothing DEF routerVars
  <1>2. ASSUME NEW s \in SessionIds, SessionClosed(s) PROVE DropStep
    <2> DEFINE gone == ServedBy(s)
               ps == {p \in LivePlans : Involves(plans[p], s)}
               ts == {t \in LiveTokens : Involves(undoTokens[t], s)}
    <2>1. Advance(gone)
      BY <1>0, <1>2, AdvanceSession DEF SessionClosed
    <2>2. Retire(ps, ts, PlansOf(gone), TokensOf(gone)) /\ UNCHANGED <<planSeq, tokenSeq>>
      BY <1>2 DEF SessionClosed, InvalidateSession
    <2>3. UNCHANGED <<releasing, releasingUndo>>
      BY <1>2 DEF SessionClosed
    <2>4. ps \in SUBSET LivePlans /\ ts \in SUBSET LiveTokens /\ gone \in SUBSET PresentRoutes
      BY <1>0
    <2> HIDE DEF ps, ts, gone
    <2> QED BY <2>1, <2>2, <2>3, <2>4 DEF DropStep
  <1>3. ASSUME NEW s \in AdapterSessions, NEW a \in AdapterIds, Unregister(s, a) PROVE DropStep
    <2> DEFINE gone == ServedBy(s)
               ps == {p \in LivePlans : Involves(plans[p], s)}
               ts == {t \in LiveTokens : Involves(undoTokens[t], s)}
    <2>1. Advance(gone)
      BY <1>0, <1>3, AdvanceSession DEF Unregister
    <2>2. Retire(ps, ts, PlansOf(gone), TokensOf(gone)) /\ UNCHANGED <<planSeq, tokenSeq>>
      BY <1>3 DEF Unregister, InvalidateSession
    <2>3. UNCHANGED <<releasing, releasingUndo>>
      BY <1>3 DEF Unregister
    <2>4. ps \in SUBSET LivePlans /\ ts \in SUBSET LiveTokens /\ gone \in SUBSET PresentRoutes
      BY <1>0
    <2> HIDE DEF ps, ts, gone
    <2> QED BY <2>1, <2>2, <2>3, <2>4 DEF DropStep
  <1>4. ASSUME NEW s \in AdapterSessions, ProtocolViolation(s) PROVE DropStep
    BY <1>0, <1>4, AdvanceNone, DropsNothing DEF ProtocolViolation, routingVars
  <1>5. ASSUME NEW s \in SessionIds, SessionOpened(s) PROVE DropStep
    BY <1>1, <1>5 DEF SessionOpened
  <1>6. ASSUME NEW s \in AdapterSessions, NEW a \in AdapterIds, NEW ws \in SUBSET WorkspaceIds,
               NEW docs \in RootSets, NEW e \in Epochs, NEW t \in TrustLevels,
               NEW offer \in Offers, Register(s, a, ws, docs, e, t, offer)
        PROVE  DropStep
    BY <1>1, <1>6 DEF Register
  <1> QED BY <1>2, <1>3, <1>4, <1>5, <1>6 DEF SessionSteps

\* Notifications drop entries and leave the routes alone.
LEMMA NotificationShapes ==
    ASSUME RouteInvariant, StoreTypes, NotificationSteps
    PROVE  DropStep
PROOF
  <1>0. Advance({}) \/ routes' # routes
    BY AdvanceNone DEF RouteInvariant
  <1>1. ASSUME UNCHANGED <<storeVars, routerVars>> PROVE DropStep
    BY <1>0, <1>1, DropsNothing DEF routerVars
  <1>2. ASSUME NEW ps \in SUBSET LivePlans, NEW ts \in SUBSET LiveTokens, Retire(ps, ts, {}, {}),
               UNCHANGED <<planSeq, tokenSeq, routes, releasing, releasingUndo>>
        PROVE  DropStep
    BY <1>0, <1>2, DropsOnly
  <1>3. ASSUME NEW w, InvalidateWorkspace(w), UNCHANGED <<routes, releasing, releasingUndo>>
        PROVE  DropStep
    <2> DEFINE ps == {p \in LivePlans : plans[p].workspace = w}
               ts == {t \in LiveTokens : undoTokens[t].workspace = w}
    <2>1. ps \in SUBSET LivePlans /\ ts \in SUBSET LiveTokens
      OBVIOUS
    <2>2. Retire(ps, ts, {}, {}) /\ UNCHANGED <<planSeq, tokenSeq>>
      BY <1>3 DEF InvalidateWorkspace
    <2> HIDE DEF ps, ts
    <2> QED BY <1>2, <1>3, <2>1, <2>2
  <1>4. ASSUME NEW s, NEW w, NEW a, WorkspaceClosed(s, w, a) PROVE DropStep
    BY <1>3, <1>4 DEF WorkspaceClosed, routerVars, routingVars
  <1>5. ASSUME NEW s, NEW w, NEW a, NEW docs, NEW e, RootsChanged(s, w, a, docs, e) PROVE DropStep
    BY <1>3, <1>5 DEF RootsChanged, routerVars, routingVars
  <1>6. ASSUME NEW s, NEW w, NEW ds, NEW rev, DocumentsTouched(s, w, ds, rev) PROVE DropStep
    <2>1. PlansOn(w, ds) \in SUBSET LivePlans /\ {} \in SUBSET LiveTokens
      BY DEF PlansOn
    <2>2. Retire(PlansOn(w, ds), {}, {}, {}) /\ UNCHANGED <<planSeq, tokenSeq>>
      BY <1>6 DEF DocumentsTouched, InvalidateDocuments
    <2>3. UNCHANGED <<routes, releasing, releasingUndo>>
      BY <1>6 DEF DocumentsTouched, routerVars
    <2> QED BY <1>2, <2>1, <2>2, <2>3
  <1>7. ASSUME NEW s, NEW a, NEW c, CapabilitiesChanged(s, a, c) PROVE DropStep
    BY <1>1, <1>7 DEF CapabilitiesChanged
  <1>8. ASSUME NEW s, NEW w, NEW a, NEW docs, NEW e, NEW t, WorkspaceOpened(s, w, a, docs, e, t)
        PROVE  DropStep
    BY <1>1, <1>8 DEF WorkspaceOpened
  <1>9. ASSUME NEW s, NEW w, NEW st, ReadinessChanged(s, w, st) PROVE DropStep
    BY <1>1, <1>9 DEF ReadinessChanged
  <1>10. ASSUME NEW s, NEW w, NEW a, NEW t, TrustChanged(s, w, a, t) PROVE DropStep
    BY <1>1, <1>10 DEF TrustChanged
  <1> QED BY <1>4, <1>5, <1>6, <1>7, <1>8, <1>9, <1>10 DEF NotificationSteps

\* Requests forward, take an entry out of the store, or drop one.
LEMMA RequestShapes ==
    ASSUME RouteInvariant, StoreTypes, RequestSteps
    PROVE  Shape
PROOF
  <1>0. /\ routes \in Seq(RouteRecord)
        /\ Advance({}) \/ routes' # routes
        /\ {} \in SUBSET LivePlans /\ {} \in SUBSET LiveTokens
    BY AdvanceNone DEF RouteInvariant
  <1>1. ASSUME NEW ps \in SUBSET LivePlans, NEW ts \in SUBSET LiveTokens, Retire(ps, ts, {}, {}),
               UNCHANGED <<planSeq, tokenSeq, routes, releasing, releasingUndo>>
        PROVE  DropStep
    BY <1>0, <1>1, DropsOnly
  <1>2. ASSUME UNCHANGED <<entryVars, planSeq, tokenSeq, routes, releasing, releasingUndo>>
        PROVE  DropStep
    BY <1>0, <1>1, <1>2, RetireNothing
  <1>3. ASSUME NEW c \in ConsumerSessions, NEW id \in RequestIds, CancelRequest(c, id)
        PROVE  DropStep
    <2> DEFINE r == consumerRequests[<<c, id>>]
               rec == Updated(routes[r], "cancelled", routes[r].answers)
    <2>1. /\ routes[r].state = "active"
          /\ routes' = [routes EXCEPT ![r].state = "cancelled"]
          /\ UNCHANGED <<storeVars, releasing, releasingUndo>>
      BY <1>3 DEF CancelRequest
    <2>2. CASE r \in DOMAIN routes
      <3>1. routes[r] \in RouteRecord /\ routes[r].answers \in Seq(Codes)
        BY <1>0, <2>2, RouteFields
      <3>2. routes' = [routes EXCEPT ![r] = rec]
        BY <2>1, <2>2, <3>1 DEF Updated, RouteRecord
      <3>3. /\ rec \in RouteRecord /\ rec.state = "cancelled"
            /\ rec.answers = routes[r].answers /\ SameRequest(rec, routes[r])
        BY <3>1, RouteUpdated
      <3> HIDE DEF rec
      <3>4. Advance({})
        BY <1>0, <2>1, <2>2, <3>2, <3>3, AdvanceOne
      <3> QED BY <2>1, <3>4, DropsNothing
    <2>3. CASE r \notin DOMAIN routes
      <3>1. routes' = routes
        BY <1>0, <2>1, <2>3
      <3> QED BY <1>0, <2>1, <3>1, DropsNothing
    <2> QED BY <2>2, <2>3
  <1>4. ASSUME NEW c \in ConsumerSessions, NEW id \in RequestIds, NEW w \in WorkspaceIds,
               NEW kind \in {"read", "list", "prepare"}, NEW h, RouteRequest(c, id, kind, w, h)
        PROVE  Shape
    <2>1. WorkspaceConnectionRefusal(w) = "ok"
      BY <1>4 DEF RouteRequest, RouteRefusal
    <2>2. AskStep(c, id, kind, w) /\ kind \in RequestKinds
      BY <1>4, <2>1 DEF RouteRequest, AskStep, MaySend
    <2> QED BY <2>2 DEF Shape
  <1>5. ASSUME NEW c \in ConsumerSessions, NEW id \in RequestIds, NEW p \in PlanIds,
               NEW w \in WorkspaceIds, NEW kind \in {"apply", "discard"},
               MaySend(c, id, kind), Owns(c, p, w), ForwardPlan(c, id, kind, p, w)
        PROVE  Shape
    <2>0. /\ p \in LivePlans /\ kind \in RequestKinds
          /\ UNCHANGED <<planSeq, tokenSeq, registryVars, releasingUndo, doomed>>
      BY <1>5 DEF Owns, LivePlans, MaySend, ForwardPlan
    <2>1. CASE DropExpired(p) /\ UNCHANGED <<routingVars, releasing>>
      <3>1. Retire({p}, {}, {}, {}) /\ {p} \in SUBSET LivePlans
        BY <2>0, <2>1 DEF DropExpired
      <3> QED BY <1>0, <1>1, <2>0, <2>1, <3>1 DEF routingVars, Shape
    <2>2. CASE ~StoredAdapterGone(plans[p].adapter, w) /\ CheckOut(p)
      <3>1. TakePlan(c, id, kind, p, w)
        BY <1>5, <2>0, <2>2 DEF ForwardPlan, TakePlan, routingVars
      <3> QED BY <2>0, <3>1 DEF Shape
    <2> QED BY <1>5, <2>1, <2>2 DEF ForwardPlan
  <1>6. ASSUME NEW c \in ConsumerSessions, NEW id \in RequestIds, NEW p \in PlanIds,
               NEW w \in WorkspaceIds, ApplyPlan(c, id, p, w)
        PROVE  Shape
    <2> DEFINE refusal == ConsumePlanRefusal(p, c, w, workspaces[w].epoch)
    <2>0. refusal \in {"ok", "PLAN_EXPIRED"} => Owns(c, p, w)
      BY DEF ConsumePlanRefusal
    <2>1. CASE refusal = "ok" /\ ForwardPlan(c, id, "apply", p, w)
      BY <1>5, <1>6, <2>0, <2>1 DEF ApplyPlan
    <2>2. CASE refusal # "ok" /\ ConsumePlan(p, c, w, workspaces[w].epoch) /\ UNCHANGED routerVars
      <3>0. UNCHANGED <<planSeq, tokenSeq, routes, releasing, releasingUndo>>
        BY <2>2 DEF ConsumePlan, routerVars
      <3>1. CASE refusal = "PLAN_EXPIRED" /\ DropExpired(p)
        <4>1. Retire({p}, {}, {}, {}) /\ {p} \in SUBSET LivePlans
          BY <2>0, <3>1 DEF DropExpired, Owns, LivePlans
        <4> QED BY <1>0, <1>1, <3>0, <4>1 DEF Shape
      <3>2. CASE UNCHANGED entryVars
        BY <1>2, <3>0, <3>2 DEF Shape
      <3> QED BY <2>2, <3>1, <3>2 DEF ConsumePlan, TakeReason
    <2> QED BY <1>6, <2>1, <2>2 DEF ApplyPlan
  <1>7. ASSUME NEW c \in ConsumerSessions, NEW id \in RequestIds, NEW p \in PlanIds,
               NEW w \in WorkspaceIds, DiscardPlanRequest(c, id, p, w)
        PROVE  Shape
    <2> DEFINE refusal == DiscardPlanRefusal(p, c, w)
    <2>0. refusal \in {"ok", "PLAN_EXPIRED"} => Owns(c, p, w)
      BY DEF DiscardPlanRefusal
    <2>1. CASE refusal = "ok" /\ ForwardPlan(c, id, "discard", p, w)
      BY <1>5, <1>7, <2>0, <2>1 DEF DiscardPlanRequest
    <2>2. CASE refusal # "ok" /\ DiscardPlan(p, c, w) /\ UNCHANGED routerVars
      <3>0. UNCHANGED <<planSeq, tokenSeq, routes, releasing, releasingUndo>>
        BY <2>2 DEF DiscardPlan, routerVars
      <3>1. CASE refusal = "PLAN_EXPIRED" /\ DropExpired(p)
        <4>1. Retire({p}, {}, {}, {}) /\ {p} \in SUBSET LivePlans
          BY <2>0, <3>1 DEF DropExpired, Owns, LivePlans
        <4> QED BY <1>0, <1>1, <3>0, <4>1 DEF Shape
      <3>2. CASE UNCHANGED entryVars
        BY <1>2, <3>0, <3>2 DEF Shape
      <3> QED BY <2>2, <3>1, <3>2 DEF DiscardPlan
    <2> QED BY <1>7, <2>1, <2>2 DEF DiscardPlanRequest
  <1>8. ASSUME NEW c \in ConsumerSessions, NEW id \in RequestIds, NEW t \in TokenIds,
               NEW w \in WorkspaceIds, Undo(c, id, t, w)
        PROVE  Shape
    <2> DEFINE refusal == ConsumeUndoRefusal(t, c, w)
    <2>0. /\ refusal \in {"ok", "PLAN_EXPIRED"}
              => undoTokens[t] # None /\ undoTokens[t].consumer = c /\ undoTokens[t].workspace = w
          /\ UNCHANGED <<planSeq, tokenSeq, registryVars, releasing, doomed>>
          /\ MaySend(c, id, "undo")
      BY <1>8 DEF ConsumeUndoRefusal, Undo, ConsumeUndoToken
    <2>1. CASE refusal = "ok" /\ Retire({}, {t}, {}, {}) /\ UNCHANGED <<routingVars, releasingUndo>>
      <3>1. {t} \in SUBSET LiveTokens
        BY <2>0, <2>1 DEF LiveTokens
      <3> QED BY <1>0, <1>1, <2>0, <2>1, <3>1 DEF routingVars, Shape
    <2>2. CASE /\ refusal = "ok" /\ ~StoredAdapterGone(undoTokens[t].adapter, w)
               /\ ConsumeUndoToken(t, c, w)
               /\ \/ AddRoute(c, id, "undo", w, None, undoTokens[t]) /\ UNCHANGED releasingUndo
                  \/ releasingUndo' = releasingUndo \cup {undoTokens[t]} /\ UNCHANGED routes
      <3>1. /\ undoTokens' = [undoTokens EXCEPT ![t] = None]
            /\ heldUndo' = heldUndo \cup {undoTokens[t]}
            /\ UNCHANGED <<plans, internalPlans, held, internalUndo>>
        BY <2>2 DEF ConsumeUndoToken
      <3>2. TakeToken(c, id, t, w)
        BY <2>0, <2>2, <3>1 DEF TakeToken
      <3> QED BY <3>2 DEF Shape
    <2>3. CASE refusal # "ok" /\ ConsumeUndoToken(t, c, w) /\ UNCHANGED <<routingVars, releasingUndo>>
      <3>0. UNCHANGED <<planSeq, tokenSeq, routes, releasing, releasingUndo>>
        BY <2>0, <2>3 DEF routingVars
      <3>1. CASE refusal = "PLAN_EXPIRED" /\ Retire({}, {t}, {}, {})
        <4>1. {t} \in SUBSET LiveTokens
          BY <2>0, <3>1 DEF LiveTokens
        <4> QED BY <1>0, <1>1, <3>0, <3>1, <4>1 DEF Shape
      <3>2. CASE UNCHANGED entryVars
        BY <1>2, <3>0, <3>2 DEF Shape
      <3> QED BY <2>3, <3>1, <3>2 DEF ConsumeUndoToken
    <2> QED BY <1>8, <2>1, <2>2, <2>3 DEF Undo, routingVars
  <1>9. PICK c \in ConsumerSessions, id \in RequestIds :
          \/ CancelRequest(c, id)
          \/ \E w \in WorkspaceIds :
              \/ \E kind \in {"read", "list", "prepare"}, h \in Handles :
                      RouteRequest(c, id, kind, w, h)
              \/ \E p \in PlanIds : ApplyPlan(c, id, p, w) \/ DiscardPlanRequest(c, id, p, w)
              \/ \E t \in TokenIds : Undo(c, id, t, w)
    BY DEF RequestSteps
  <1>10. CASE CancelRequest(c, id)
    BY <1>3, <1>10 DEF Shape
  <1> QED BY <1>4, <1>6, <1>7, <1>8, <1>9, <1>10

\* A response removes its route, drops what it must and may bring an entry.
LEMMA ResponseShapes ==
    ASSUME RegistryTypeOK, RouteInvariant, StoreTypes, ResponseSteps
    PROVE  Shape
PROOF
  <1>0. /\ {} \in SUBSET LivePlans /\ {} \in SUBSET LiveTokens
        /\ SweptPlans \in SUBSET LivePlans /\ SweptTokens \in SUBSET LiveTokens
        /\ {"result", "error", "PROVIDER_FAILED"} \subseteq Codes
    BY DEF SweptPlans, SweptTokens, Codes
  <1>1. ASSUME NEW r \in PresentRoutes, ReleaseRoute(r)
        PROVE  Retire({}, {}, PlansOf({r}), TokensOf({r})) /\ UNCHANGED <<planSeq, tokenSeq>>
    BY <1>1 DEF ReleaseRoute, Release
  <1>2. ASSUME NEW s, NEW r \in PresentRoutes, FailProvider(s, r),
               NEW ps \in SUBSET LivePlans, NEW ts \in SUBSET LiveTokens,
               Retire(ps, ts, PlansOf({r}), TokensOf({r})), UNCHANGED <<planSeq, tokenSeq>>
        PROVE  Shape
    <2>1. RemoveRoute(r, <<"PROVIDER_FAILED">>) /\ UNCHANGED <<releasing, releasingUndo>>
      BY <1>2 DEF FailProvider
    <2>2. "PROVIDER_FAILED" # "result"
      OBVIOUS
    <2> QED BY <1>0, <1>2, <2>1, <2>2, RemovalDrops DEF Shape
  <1>3. ASSUME NEW r \in PresentRoutes, NEW code \in Codes, Deliver(r, code),
               routes[r].state = "active",
               NEW ps \in SUBSET LivePlans, NEW ts \in SUBSET LiveTokens,
               Retire(ps, ts, PlansOf({r}), TokensOf({r})), UNCHANGED <<planSeq, tokenSeq>>
        PROVE  Shape
    <2>1. RemoveRoute(r, <<code>>) /\ UNCHANGED <<releasing, releasingUndo>>
      BY <1>3 DEF Deliver
    <2> QED BY <1>3, <2>1, RemovalDrops DEF Shape
  <1>4. ASSUME NEW r \in PresentRoutes, routes[r].kind \in {"read", "list", "prepare"}
        PROVE  PlansOf({r}) = {} /\ TokensOf({r}) = {}
    BY <1>4, EntriesOf DEF RouteInvariant, PresentRoutes, Carried
  <1>5. ASSUME NEW s, NEW r, Answers(s, r) PROVE r \in PresentRoutes
    BY <1>5 DEF Answers
  <1>6. ASSUME NEW s, NEW r, NEW ds, NEW e, NEW sound, RejectResult(s, r, ds, e, sound)
        PROVE  Shape
    BY <1>0, <1>1, <1>2, <1>5, <1>6 DEF RejectResult
  <1>7. ASSUME NEW s, NEW r, NEW ds, NEW e, NEW sound, AbsorbLate(s, r, ds, e, sound)
        PROVE  Shape
    <2>1. /\ r \in PresentRoutes /\ RemoveRoute(r, << >>)
          /\ ReleaseRoute(r) /\ UNCHANGED <<releasing, releasingUndo>>
      BY <1>5, <1>7 DEF AbsorbLate
    <2> QED BY <1>0, <1>1, <2>1, RemovalDrops DEF Shape
  <1>8. ASSUME NEW s, NEW r, NEW ds, NEW e, NEW sound, ReadResult(s, r, ds, e, sound)
        PROVE  Shape
    <2>1. /\ r \in PresentRoutes /\ routes[r].state = "active" /\ Deliver(r, "result")
          /\ routes[r].kind \in {"read", "list", "prepare"} /\ UNCHANGED storeVars
      BY <1>5, <1>8 DEF ReadResult, AnswersActive
    <2>2. Retire({}, {}, PlansOf({r}), TokensOf({r})) /\ UNCHANGED <<planSeq, tokenSeq>>
      BY <1>4, <2>1, RetireNothing DEF storeVars
    <2> QED BY <1>0, <1>3, <2>1, <2>2
  <1>9. ASSUME NEW s, NEW r, NEW ds, NEW e, NEW sound, Modified(s, r, ds, e, sound)
        PROVE  Shape
    <2>1. /\ r \in PresentRoutes /\ routes[r].state = "active" /\ ReleaseRoute(r)
          /\ FailProvider(s, r) \/ Deliver(r, "result")
      BY <1>5, <1>9 DEF Modified, AnswersActive
    <2> QED BY <1>0, <1>1, <1>2, <1>3, <2>1
  <1>10. ASSUME NEW s, NEW r, NEW sound, ErrorResponse(s, r, sound)
         PROVE  Shape
    <2>1. /\ r \in PresentRoutes /\ routes[r].state = "active" /\ ReleaseRoute(r)
          /\ FailProvider(s, r) \/ Deliver(r, "error")
      BY <1>5, <1>10 DEF ErrorResponse, AnswersActive
    <2> QED BY <1>0, <1>1, <1>2, <1>3, <2>1
  <1>11. ASSUME NEW s, NEW r, NEW sound, PlanDiscarded(s, r, sound)
         PROVE  Shape
    <2>1. /\ r \in PresentRoutes /\ routes[r].state = "active" /\ ReleaseRoute(r)
          /\ FailProvider(s, r) \/ Deliver(r, "result")
      BY <1>5, <1>11 DEF PlanDiscarded, AnswersActive
    <2> QED BY <1>0, <1>1, <1>2, <1>3, <2>1
  <1>12. ASSUME NEW s \in AdapterSessions, NEW r \in RouteIds, NEW a \in AdapterIds,
                NEW key \in AdapterPlanIds, NEW x \in Deadlines, NEW pre \in SUBSET Docs,
                NEW changes \in SUBSET Docs, NEW foreign \in BOOLEAN,
                PlanPrepared(s, r, a, key, x, pre, changes, foreign)
         PROVE  Shape
    <2> DEFINE w == routes[r].workspace
               plan == [id |-> 1, consumer |-> routes[r].consumer, adapter |-> s, author |-> a,
                        workspace |-> w, epoch |-> workspaces[w].epoch, key |-> key,
                        expires |-> x, pre |-> pre, changes |-> changes]
               refusal == CreatePlanRefusal(plan, workspaces[w].adapter, foreign, workspaces[w].roots)
    <2>1. /\ AnswersActive(s, r, {"prepare"}) /\ r \in PresentRoutes /\ r \in DOMAIN routes
          /\ PlansOf({r}) = {} /\ TokensOf({r}) = {}
      BY <1>4, <1>5, <1>12 DEF PlanPrepared, AnswersActive, PresentRoutes
    <2>2. CASE FailProvider(s, r) /\ UNCHANGED storeVars
      <3>1. Retire({}, {}, PlansOf({r}), TokensOf({r})) /\ UNCHANGED <<planSeq, tokenSeq>>
        BY <2>1, <2>2, RetireNothing DEF storeVars
      <3> QED BY <1>0, <1>2, <2>1, <2>2, <3>1
    <2>3. CASE FailProvider(s, r) /\ Sweep
      <3>1. Retire(SweptPlans, SweptTokens, PlansOf({r}), TokensOf({r})) /\ UNCHANGED <<planSeq, tokenSeq>>
        BY <2>1, <2>3 DEF Sweep
      <3> QED BY <1>0, <1>2, <2>1, <2>3, <3>1
    <2>4. CASE workspaces[w] # None /\ refusal = "ok" /\ Deliver(r, "result") /\ CreatePlan(plan)
      <3>1. Key(plan) \notin PlanKeysWithout(SweptPlans, {}) /\ plan.author = workspaces[w].adapter
        BY <2>4 DEF CreatePlanRefusal
      <3>2. routes[r] \in RouteRecord
        BY <2>1 DEF RouteInvariant
      <3>3. routes[r].consumer \in ConsumerSessions /\ w \in WorkspaceIds
        BY <3>2 DEF RouteRecord
      <3>4. workspaces[w].epoch \in Epochs
        BY <2>4, <3>3 DEF RegistryTypeOK, Workspace
      <3>5. 1 \in PlanIds
        <4>1. planSeq < MaxPlans /\ planSeq \in Nat /\ MaxPlans \in Nat
          BY <2>4, StoreConstants DEF CreatePlan, StoreTypes
        <4> QED BY <4>1 DEF PlanIds
      <3>6. plan \in StoredPlan
        BY <3>3, <3>4, <3>5 DEF StoredPlan
      <3>7. Brought(s, r, plan) /\ plan.epoch = workspaces[plan.workspace].epoch
        BY <2>4, <3>1 DEF Brought
      <3>8. StorePlan(s, r, plan)
        BY <2>1, <2>4, <3>1, <3>7 DEF StorePlan
      <3> QED BY <2>1, <3>6, <3>8 DEF Shape
    <2> QED BY <1>12, <2>2, <2>3, <2>4 DEF PlanPrepared
  <1>13. ASSUME NEW s \in AdapterSessions, NEW r \in RouteIds, NEW ds, NEW e, NEW a \in AdapterIds,
                NEW key \in AdapterTokenIds, NEW x \in Deadlines, NEW foreign \in BOOLEAN,
                ModifiedWithUndo(s, r, ds, e, a, key, x, foreign)
         PROVE  Shape
    <2> DEFINE w == routes[r].workspace
               token == [id |-> 1, consumer |-> routes[r].consumer, adapter |-> s, author |-> a,
                         workspace |-> w, key |-> key, expires |-> x]
               refusal == CreateUndoTokenRefusal(token, workspaces[w].adapter, foreign, TokensOf({r}))
    <2>1. /\ AnswersActive(s, r, {"apply", "undo"}) /\ r \in PresentRoutes /\ r \in DOMAIN routes
          /\ routes[r].state = "active"
      BY <1>5, <1>13 DEF ModifiedWithUndo, AnswersActive, PresentRoutes
    <2>2. CASE FailProvider(s, r) /\ ReleaseRoute(r)
      BY <1>0, <1>1, <1>2, <2>1, <2>2
    <2>3. CASE /\ FailProvider(s, r) \/ Deliver(r, "result")
               /\ Retire(SweptPlans, SweptTokens, PlansOf({r}), TokensOf({r}))
               /\ UNCHANGED <<planSeq, tokenSeq>>
      BY <1>0, <1>2, <1>3, <2>1, <2>3
    <2>4. CASE /\ workspaces[w] # None /\ refusal = "ok" /\ Deliver(r, "result")
               /\ CreateUndoToken(token, PlansOf({r}), TokensOf({r}))
      <3>1. Key(token) \notin UndoKeysWithout(SweptTokens, TokensOf({r})) /\ token.author = workspaces[w].adapter
        BY <2>4 DEF CreateUndoTokenRefusal
      <3>2. routes[r] \in RouteRecord
        BY <2>1 DEF RouteInvariant
      <3>3. routes[r].consumer \in ConsumerSessions /\ w \in WorkspaceIds
        BY <3>2 DEF RouteRecord
      <3>4. 1 \in TokenIds
        <4>1. tokenSeq < MaxTokens /\ tokenSeq \in Nat /\ MaxTokens \in Nat
          BY <2>4, StoreConstants DEF CreateUndoToken, StoreTypes
        <4> QED BY <4>1 DEF TokenIds
      <3>5. token \in StoredUndoToken
        BY <3>3, <3>4 DEF StoredUndoToken
      <3>6. Brought(s, r, token)
        BY <2>4, <3>1 DEF Brought
      <3>7. StoreToken(s, r, token)
        BY <2>1, <2>4, <3>1, <3>6 DEF StoreToken
      <3> QED BY <2>1, <3>5, <3>7 DEF Shape
    <2> QED BY <1>13, <2>2, <2>3, <2>4 DEF ModifiedWithUndo
  <1>14. PICK s \in AdapterSessions, r \in RouteIds :
        \/ \E ds \in SUBSET Docs, e \in Epochs, sound \in BOOLEAN :
            \/ RejectResult(s, r, ds, e, sound)
            \/ AbsorbLate(s, r, ds, e, sound)
            \/ ReadResult(s, r, ds, e, sound)
            \/ Modified(s, r, ds, e, sound)
            \/ \E a \in AdapterIds, key \in AdapterTokenIds, x \in Deadlines :
                    ModifiedWithUndo(s, r, ds, e, a, key, x, ~sound)
        \/ \E sound \in BOOLEAN : ErrorResponse(s, r, sound) \/ PlanDiscarded(s, r, sound)
        \/ \E a \in AdapterIds, key \in AdapterPlanIds, x \in Deadlines, pre \in SUBSET Docs,
              changes \in SUBSET Docs, foreign \in BOOLEAN :
                PlanPrepared(s, r, a, key, x, pre, changes, foreign)
    BY DEF ResponseSteps
  <1> QED BY <1>6, <1>7, <1>8, <1>9, <1>10, <1>11, <1>12, <1>13, <1>14

\* Timers and the continuations of handlers.
LEMMA ContinuationShapes ==
    ASSUME RouteInvariant, StoreTypes, TimerSteps \/ ContinuationSteps
    PROVE  Shape
PROOF
  <1>0. /\ routes \in Seq(RouteRecord)
        /\ Advance({}) \/ routes' # routes
        /\ {} \in SUBSET LivePlans /\ {} \in SUBSET LiveTokens
        /\ SweptPlans \in SUBSET LivePlans /\ SweptTokens \in SUBSET LiveTokens
        /\ "TIMEOUT" \in Codes /\ "TIMEOUT" # "result"
    BY AdvanceNone DEF RouteInvariant, SweptPlans, SweptTokens, Codes
  <1>1. ASSUME NEW r, RouteTimeout(r) PROVE Shape
    <2> DEFINE ans == Append(routes[r].answers, "TIMEOUT")
               rec == Updated(routes[r], "cancelled", ans)
    <2>1. /\ r \in DOMAIN routes /\ routes[r].state = "active"
          /\ routes' = [routes EXCEPT ![r].state = "cancelled", ![r].answers = ans]
          /\ UNCHANGED <<storeVars, releasing, releasingUndo>>
      BY <1>1 DEF RouteTimeout
    <2>2. routes[r] \in RouteRecord /\ routes[r].answers \in Seq(Codes)
      BY <1>0, <2>1, RouteFields
    <2>3. ans \in Seq(Codes)
      BY <1>0, <2>2
    <2>4. routes' = [routes EXCEPT ![r] = rec]
      BY <2>1, <2>2 DEF Updated, RouteRecord
    <2>5. /\ rec \in RouteRecord /\ rec.state = "cancelled"
          /\ rec.answers = ans /\ SameRequest(rec, routes[r])
      <3> HIDE DEF ans
      <3>1. "cancelled" \in {"active", "cancelled", "gone"}
        OBVIOUS
      <3>2. /\ Updated(routes[r], "cancelled", ans) \in RouteRecord
            /\ Updated(routes[r], "cancelled", ans).state = "cancelled"
            /\ Updated(routes[r], "cancelled", ans).answers = ans
            /\ SameRequest(Updated(routes[r], "cancelled", ans), routes[r])
        <4> HIDE DEF rec
        <4> QED BY <2>2, <2>3, <3>1, RouteUpdated, Zenon
      <3> QED BY <3>2
    <2> HIDE DEF rec
    <2>6. Advance({})
      BY <1>0, <2>1, <2>4, <2>5, AdvanceOne
    <2> QED BY <2>1, <2>6, DropsNothing DEF Shape
  <1>2. ASSUME NEW r, GraceExpired(r) PROVE Shape
    <2>1. /\ r \in PresentRoutes /\ RemoveRoute(r, << >>) /\ UNCHANGED <<releasing, releasingUndo>>
          /\ Retire({}, {}, PlansOf({r}), TokensOf({r})) /\ UNCHANGED <<planSeq, tokenSeq>>
      BY <1>2 DEF GraceExpired, PresentRoutes, ReleaseRoute, Release
    <2> QED BY <1>0, <2>1, RemovalDrops DEF Shape
  <1>3. ASSUME SweepTimer PROVE Shape
    BY <1>0, <1>3, DropsOnly DEF SweepTimer, Sweep, routerVars, Shape
  <1>4. ASSUME Clock PROVE Shape
    <2>1. Retire({}, {}, {}, {})
      BY <1>4, RetireNothing DEF Clock, Tick
    <2> QED BY <1>0, <1>4, <2>1, DropsOnly DEF Clock, Tick, routerVars, Shape
  <1>5. ASSUME NEW r, SendDone(r) PROVE Shape
    <2> DEFINE rec == [routes[r] EXCEPT !.sending = FALSE]
    <2>1. /\ r \in DOMAIN routes
          /\ routes' = [routes EXCEPT ![r].sending = FALSE]
          /\ UNCHANGED <<storeVars, releasing, releasingUndo>>
      BY <1>5 DEF SendDone
    <2>2. routes[r] \in RouteRecord
      BY <1>0, <2>1
    <2>3. routes' = [routes EXCEPT ![r] = rec]
      BY <2>1
    <2>4. rec \in RouteRecord
      BY <2>2 DEF RouteRecord
    <2>5. rec.state = routes[r].state /\ rec.answers = routes[r].answers /\ SameRequest(rec, routes[r])
      BY <2>2 DEF RouteRecord, SameRequest
    <2> HIDE DEF rec
    <2>6. Advance(IF rec.state = "gone" THEN {r} ELSE {})
      BY <1>0, <2>1, <2>3, <2>4, <2>5, AdvanceOne
    <2>7. Advance({})
      BY <2>5, <2>6 DEF Advance
    <2> QED BY <2>1, <2>7, DropsNothing DEF Shape
  <1>6. ASSUME NEW r, SendFailed(r) PROVE Shape
    BY <1>6 DEF SendFailed, Shape
  <1> QED BY <1>1, <1>2, <1>3, <1>4, <1>5, <1>6 DEF TimerSteps, ContinuationSteps, Shape

\* Every step of the router has one of the shapes.
LEMMA StepShapes ==
    ASSUME RegistryTypeOK, RouteInvariant, StoreTypes, [RouterNext]_vars
    PROVE  Shape
PROOF
  <1>1. CASE UNCHANGED vars
    BY <1>1, AdvanceNone, DropsNothing DEF vars, routerVars, RouteInvariant, Shape
  <1> QED
    BY <1>1, SessionShapes, NotificationShapes, RequestShapes, ResponseShapes, ContinuationShapes
       DEF RouterNext, Shape

-----------------------------------------------------------------------------
(* The registry under the router.                                          *)

\* Requests, responses, timers and continuations do not touch the registry.
LEMMA OthersKeepRegistry ==
    ASSUME RequestSteps \/ ResponseSteps \/ TimerSteps \/ ContinuationSteps
    PROVE  UNCHANGED registryVars
PROOF
  <1>1. CASE RequestSteps
    <2>1. ASSUME NEW c, NEW id, CancelRequest(c, id) PROVE UNCHANGED registryVars
      BY <2>1 DEF CancelRequest
    <2>2. ASSUME NEW c, NEW id, NEW w, NEW kind, NEW h, RouteRequest(c, id, kind, w, h)
          PROVE  UNCHANGED registryVars
      BY <2>2 DEF RouteRequest
    <2>3. ASSUME NEW c, NEW id, NEW kind, NEW p, NEW w, ForwardPlan(c, id, kind, p, w)
          PROVE  UNCHANGED registryVars
      BY <2>3 DEF ForwardPlan
    <2>4. ASSUME NEW c, NEW id, NEW p, NEW w, ApplyPlan(c, id, p, w)
          PROVE  UNCHANGED registryVars
      BY <2>3, <2>4 DEF ApplyPlan
    <2>5. ASSUME NEW c, NEW id, NEW p, NEW w, DiscardPlanRequest(c, id, p, w)
          PROVE  UNCHANGED registryVars
      BY <2>3, <2>5 DEF DiscardPlanRequest
    <2>6. ASSUME NEW c, NEW id, NEW t, NEW w, Undo(c, id, t, w)
          PROVE  UNCHANGED registryVars
      BY <2>6 DEF Undo
    <2> QED BY <1>1, <2>1, <2>2, <2>4, <2>5, <2>6 DEF RequestSteps
  <1>2. CASE ResponseSteps
    <2>1. ASSUME NEW s, NEW r, FailProvider(s, r) PROVE UNCHANGED registryVars
      BY <2>1 DEF FailProvider
    <2>2. ASSUME NEW r, NEW code, Deliver(r, code) PROVE UNCHANGED registryVars
      BY <2>2 DEF Deliver
    <2>3. ASSUME NEW s, NEW r, NEW ds, NEW e, NEW sound,
                 \/ RejectResult(s, r, ds, e, sound)
                 \/ AbsorbLate(s, r, ds, e, sound)
                 \/ ReadResult(s, r, ds, e, sound)
                 \/ Modified(s, r, ds, e, sound)
          PROVE  UNCHANGED registryVars
      BY <2>1, <2>2, <2>3 DEF RejectResult, AbsorbLate, ReadResult, Modified
    <2>4. ASSUME NEW s, NEW r, NEW ds, NEW e, NEW a, NEW key, NEW x, NEW foreign,
                 ModifiedWithUndo(s, r, ds, e, a, key, x, foreign)
          PROVE  UNCHANGED registryVars
      BY <2>1, <2>2, <2>4 DEF ModifiedWithUndo
    <2>5. ASSUME NEW s, NEW r, NEW sound, ErrorResponse(s, r, sound) \/ PlanDiscarded(s, r, sound)
          PROVE  UNCHANGED registryVars
      BY <2>1, <2>2, <2>5 DEF ErrorResponse, PlanDiscarded
    <2>6. ASSUME NEW s, NEW r, NEW a, NEW key, NEW x, NEW pre, NEW changes, NEW foreign,
                 PlanPrepared(s, r, a, key, x, pre, changes, foreign)
          PROVE  UNCHANGED registryVars
      BY <2>1, <2>2, <2>6 DEF PlanPrepared
    <2> QED BY <1>2, <2>3, <2>4, <2>5, <2>6 DEF ResponseSteps
  <1>3. CASE TimerSteps
    BY <1>3 DEF TimerSteps, RouteTimeout, GraceExpired, SweepTimer, Clock
  <1>4. CASE ContinuationSteps
    BY <1>4 DEF ContinuationSteps, SendDone, SendFailed, FinishRefusedPlan, FinishRefusedUndo
  <1> QED BY <1>1, <1>2, <1>3, <1>4

\* Each step of the router is a call of one method of the registry, or leaves it
\* alone.
LEMMA RouterCallsRegistry ==
    ASSUME [RouterNext]_vars
    PROVE  [RegistryNext]_registryVars
PROOF
  <1>0. AdapterSessions \subseteq SessionIds
    BY DEF SessionIds
  <1>1. CASE SessionSteps
    <2>1. ASSUME NEW s \in SessionIds, SessionOpened(s) \/ SessionClosed(s)
          PROVE  RegistryNext
      BY <2>1 DEF SessionOpened, SessionClosed, RegistryNext
    <2>2. ASSUME NEW s \in AdapterSessions, ProtocolViolation(s)
          PROVE  UNCHANGED registryVars
      BY <2>2 DEF ProtocolViolation
    <2>3. ASSUME NEW s \in AdapterSessions, NEW a \in AdapterIds, NEW ws \in SUBSET WorkspaceIds,
                 NEW docs \in RootSets, NEW e \in Epochs, NEW t \in TrustLevels,
                 NEW offer \in Offers, Register(s, a, ws, docs, e, t, offer)
          PROVE  RegistryNext
      BY <1>0, <2>3 DEF Register, RegistryNext
    <2>4. ASSUME NEW s \in AdapterSessions, NEW a \in AdapterIds, Unregister(s, a)
          PROVE  RegistryNext
      BY <1>0, <2>4 DEF Unregister, RegistryNext
    <2> QED BY <1>1, <2>1, <2>2, <2>3, <2>4 DEF SessionSteps
  <1>2. CASE NotificationSteps
    <2>0. PICK s \in AdapterSessions :
            \/ \E a \in AdapterIds, c \in Offers : CapabilitiesChanged(s, a, c)
            \/ \E w \in WorkspaceIds, a \in AdapterIds, docs \in RootSets, e \in Epochs,
                  t \in TrustLevels : WorkspaceOpened(s, w, a, docs, e, t)
            \/ \E w \in WorkspaceIds, a \in AdapterIds : WorkspaceClosed(s, w, a)
            \/ \E w \in WorkspaceIds, a \in AdapterIds, docs \in RootSets, e \in Epochs :
                  RootsChanged(s, w, a, docs, e)
            \/ \E w \in WorkspaceIds, st \in ReadinessStates : ReadinessChanged(s, w, st)
            \/ \E w \in WorkspaceIds, a \in AdapterIds, t \in TrustLevels : TrustChanged(s, w, a, t)
            \/ \E w \in WorkspaceIds, ds \in SUBSET Docs, rev \in BOOLEAN :
                  DocumentsTouched(s, w, ds, rev)
      BY <1>2 DEF NotificationSteps
    <2>1. ASSUME NEW a \in AdapterIds, NEW c \in Offers, CapabilitiesChanged(s, a, c)
          PROVE  RegistryNext
      BY <1>0, <2>1 DEF CapabilitiesChanged, RegistryNext
    <2>2. ASSUME NEW w \in WorkspaceIds, NEW a \in AdapterIds, NEW docs \in RootSets,
                 NEW e \in Epochs, NEW t \in TrustLevels, WorkspaceOpened(s, w, a, docs, e, t)
          PROVE  RegistryNext
      BY <1>0, <2>2 DEF WorkspaceOpened, RegistryNext
    <2>3. ASSUME NEW w \in WorkspaceIds, NEW a \in AdapterIds, WorkspaceClosed(s, w, a)
          PROVE  RegistryNext \/ UNCHANGED registryVars
      BY <1>0, <2>3 DEF WorkspaceClosed, RegistryNext
    <2>4. ASSUME NEW w \in WorkspaceIds, NEW a \in AdapterIds, NEW docs \in RootSets,
                 NEW e \in Epochs, RootsChanged(s, w, a, docs, e)
          PROVE  RegistryNext \/ UNCHANGED registryVars
      BY <1>0, <2>4 DEF RootsChanged, RegistryNext
    <2>5. ASSUME NEW w \in WorkspaceIds, NEW st \in ReadinessStates, ReadinessChanged(s, w, st)
          PROVE  RegistryNext
      BY <1>0, <2>5 DEF ReadinessChanged, RegistryNext
    <2>6. ASSUME NEW w \in WorkspaceIds, NEW a \in AdapterIds, NEW t \in TrustLevels,
                 TrustChanged(s, w, a, t)
          PROVE  RegistryNext
      BY <1>0, <2>6 DEF TrustChanged, RegistryNext
    <2>7. ASSUME NEW w \in WorkspaceIds, NEW ds \in SUBSET Docs, NEW rev \in BOOLEAN,
                 DocumentsTouched(s, w, ds, rev)
          PROVE  UNCHANGED registryVars
      BY <2>7 DEF DocumentsTouched
    <2> QED BY <2>0, <2>1, <2>2, <2>3, <2>4, <2>5, <2>6, <2>7
  <1>3. CASE UNCHANGED vars
    BY <1>3 DEF vars
  <1> QED BY <1>1, <1>2, <1>3, OthersKeepRegistry DEF RouterNext

\* The router drives the registry through its methods only: every behaviour of the
\* router is one of the registry, with everything proved of it.
THEOREM RouterDrivesRegistry == RouterSpec => RegistrySpec
PROOF
  <1>1. RouterInit => RegistryInit
    BY DEF RouterInit
  <1> QED BY <1>1, RouterCallsRegistry, PTL DEF RouterSpec, RegistrySpec

\* What is proved of the registry holds under the router.
THEOREM RouterRegistry == RouterSpec => []RegistryInvariant
  BY RouterDrivesRegistry, RegistryInvariantAlways, PTL

\* Under the router a listed workspace always has a registered adapter and an open
\* connection.
THEOREM RouterReachability == RouterSpec => []WorkspacesReachable
  BY RouterDrivesRegistry, RegistryReachability, PTL

\* A session moves from fresh to open to closed; only its end, or ide/unregister,
\* takes its adapter away.
Gentle ==
    \A s \in SessionIds :
        /\ IsOpen(s) => sessions'[s] = "open"
        /\ sessions[s] # "fresh" => sessions'[s] # "fresh"
        /\ adapterBySession[s] # None => adapterBySession'[s] # None

\* The two steps that are not gentle are sessionClosed and ide/unregister.
LEMMA GentleSteps ==
    ASSUME RegistryTypeOK, [RouterNext]_vars
    PROVE  \/ \E s \in SessionIds : SessionClosed(s)
           \/ \E s \in AdapterSessions, a \in AdapterIds : Unregister(s, a)
           \/ Gentle
PROOF
  <1>0. ASSUME UNCHANGED <<sessions, adapterBySession>> PROVE Gentle
    BY <1>0 DEF Gentle, IsOpen
  <1>1. ASSUME UNCHANGED registryVars PROVE Gentle
    BY <1>0, <1>1 DEF registryVars
  <1>2. CASE SessionSteps
    <2>1. ASSUME NEW s \in SessionIds, SessionOpened(s) PROVE Gentle
      BY <2>1 DEF SessionOpened, OpenSession, Gentle, IsOpen, RegistryTypeOK
    <2>2. ASSUME NEW s \in AdapterSessions, NEW a \in AdapterIds, NEW ws, NEW docs, NEW e,
                 NEW t, NEW offer, Register(s, a, ws, docs, e, t, offer)
          PROVE  Gentle
      <3>1. adapterBySession' = [adapterBySession EXCEPT ![s] = a] /\ UNCHANGED sessions
        BY <2>2 DEF Register, RegisterAdapter
      <3>2. a # None
        BY BaseConstants
      <3> QED BY <3>1, <3>2 DEF Gentle, IsOpen, RegistryTypeOK
    <2>3. ASSUME NEW s, ProtocolViolation(s) PROVE Gentle
      BY <1>1, <2>3 DEF ProtocolViolation
    <2> QED BY <1>2, <2>1, <2>2, <2>3 DEF SessionSteps
  <1>3. CASE NotificationSteps
    <2>1. ASSUME NEW s, NEW a, NEW c, CapabilitiesChanged(s, a, c) PROVE Gentle
      BY <1>0, <2>1 DEF CapabilitiesChanged, UpdateCapabilities
    <2>2. ASSUME NEW s, NEW w, NEW a, NEW docs, NEW e, NEW t, WorkspaceOpened(s, w, a, docs, e, t)
          PROVE  Gentle
      BY <1>0, <2>2 DEF WorkspaceOpened, OpenWorkspace
    <2>3. ASSUME NEW s, NEW w, NEW a, WorkspaceClosed(s, w, a) PROVE Gentle
      BY <1>0, <1>1, <2>3 DEF WorkspaceClosed, CloseWorkspace
    <2>4. ASSUME NEW s, NEW w, NEW a, NEW docs, NEW e, RootsChanged(s, w, a, docs, e) PROVE Gentle
      BY <1>0, <1>1, <2>4 DEF RootsChanged, UpdateWorkspaceRoots
    <2>5. ASSUME NEW s, NEW w, NEW st, ReadinessChanged(s, w, st) PROVE Gentle
      BY <1>0, <2>5 DEF ReadinessChanged, UpdateWorkspaceStatus
    <2>6. ASSUME NEW s, NEW w, NEW a, NEW t, TrustChanged(s, w, a, t) PROVE Gentle
      BY <1>0, <2>6 DEF TrustChanged, UpdateWorkspaceTrust
    <2>7. ASSUME NEW s, NEW w, NEW ds, NEW rev, DocumentsTouched(s, w, ds, rev) PROVE Gentle
      BY <1>1, <2>7 DEF DocumentsTouched
    <2> QED BY <1>3, <2>1, <2>2, <2>3, <2>4, <2>5, <2>6, <2>7 DEF NotificationSteps
  <1> QED BY <1>1, <1>2, <1>3, OthersKeepRegistry DEF RouterNext, vars

\* Only the end of a session takes one out of doomed.
LEMMA DoomGrows ==
    ASSUME [RouterNext]_vars
    PROVE  doomed \subseteq doomed' \/ \E s \in SessionIds : SessionClosed(s)
PROOF
  <1>0. ASSUME UNCHANGED routerVars PROVE doomed \subseteq doomed'
    BY <1>0 DEF routerVars
  <1>1. ASSUME NEW ss, Doom(ss) PROVE doomed \subseteq doomed'
    BY <1>1 DEF Doom
  <1>2. CASE SessionSteps
    BY <1>0, <1>1, <1>2 DEF SessionSteps, SessionOpened, ProtocolViolation, Register, Unregister
  <1>3. CASE NotificationSteps
    BY <1>0, <1>1, <1>3 DEF NotificationSteps, CapabilitiesChanged, WorkspaceOpened, WorkspaceClosed,
         RootsChanged, ReadinessChanged, TrustChanged, DocumentsTouched
  <1>4. CASE RequestSteps
    <2>1. ASSUME NEW c, NEW id, NEW kind, NEW p, NEW w, ForwardPlan(c, id, kind, p, w)
          PROVE  UNCHANGED doomed
      BY <2>1 DEF ForwardPlan
    <2>2. ASSUME NEW c, NEW id, NEW p, NEW w, ApplyPlan(c, id, p, w) \/ DiscardPlanRequest(c, id, p, w)
          PROVE  UNCHANGED doomed
      BY <2>1, <2>2 DEF ApplyPlan, DiscardPlanRequest, routerVars
    <2>3. ASSUME NEW c, NEW id, NEW t, NEW w, Undo(c, id, t, w)
          PROVE  UNCHANGED doomed
      BY <2>3 DEF Undo
    <2>4. ASSUME NEW c, NEW id, NEW w, NEW kind, NEW h, RouteRequest(c, id, kind, w, h)
          PROVE  UNCHANGED doomed
      BY <2>4 DEF RouteRequest
    <2>5. ASSUME NEW c, NEW id, CancelRequest(c, id) PROVE UNCHANGED doomed
      BY <2>5 DEF CancelRequest
    <2> QED BY <1>4, <2>2, <2>3, <2>4, <2>5 DEF RequestSteps
  <1>5. CASE ResponseSteps
    <2>1. ASSUME NEW s, NEW r, FailProvider(s, r) PROVE doomed \subseteq doomed'
      BY <1>1, <2>1 DEF FailProvider
    <2>2. ASSUME NEW r, NEW code, Deliver(r, code) PROVE doomed \subseteq doomed'
      BY <2>2 DEF Deliver
    <2>3. ASSUME NEW s, NEW r, NEW ds, NEW e, NEW sound,
                 \/ RejectResult(s, r, ds, e, sound)
                 \/ AbsorbLate(s, r, ds, e, sound)
                 \/ ReadResult(s, r, ds, e, sound)
                 \/ Modified(s, r, ds, e, sound)
          PROVE  doomed \subseteq doomed'
      BY <2>1, <2>2, <2>3 DEF RejectResult, AbsorbLate, ReadResult, Modified
    <2>4. ASSUME NEW s, NEW r, NEW ds, NEW e, NEW a, NEW key, NEW x, NEW foreign,
                 ModifiedWithUndo(s, r, ds, e, a, key, x, foreign)
          PROVE  doomed \subseteq doomed'
      BY <2>1, <2>2, <2>4 DEF ModifiedWithUndo
    <2>5. ASSUME NEW s, NEW r, NEW sound, ErrorResponse(s, r, sound) \/ PlanDiscarded(s, r, sound)
          PROVE  doomed \subseteq doomed'
      BY <2>1, <2>2, <2>5 DEF ErrorResponse, PlanDiscarded
    <2>6. ASSUME NEW s, NEW r, NEW a, NEW key, NEW x, NEW pre, NEW changes, NEW foreign,
                 PlanPrepared(s, r, a, key, x, pre, changes, foreign)
          PROVE  doomed \subseteq doomed'
      BY <2>1, <2>2, <2>6, SMTT(40) DEF PlanPrepared
    <2> QED BY <1>5, <2>3, <2>4, <2>5, <2>6, SMTT(40) DEF ResponseSteps
  <1>6. CASE TimerSteps \/ ContinuationSteps
    BY <1>0, <1>1, <1>6 DEF TimerSteps, RouteTimeout, GraceExpired, SweepTimer, Clock,
         ContinuationSteps, SendDone, SendFailed, FinishRefusedPlan, FinishRefusedUndo
  <1> QED BY <1>0, <1>2, <1>3, <1>4, <1>5, <1>6 DEF RouterNext, vars

\* A session that is closing stays so: its identifier is never issued again.
LEMMA ClosingGrows ==
    ASSUME RegistryTypeOK, [RouterNext]_vars
    PROVE  ClosingSessions \subseteq ClosingSessions'
PROOF
  <1>0. AdapterSessions \subseteq SessionIds
    BY DEF SessionIds
  <1>1. \A s \in SessionIds : sessions[s] = "closed" => sessions'[s] = "closed"
    <2>1. [RegistryNext]_registryVars
      BY RouterCallsRegistry
    <2> QED BY <2>1 DEF RegistryNext, registryVars, RegistryTypeOK, OpenSession, CloseSession, RegisterAdapter,
           UnregisterAdapter, UpdateCapabilities, OpenWorkspace, CloseWorkspace,
           UpdateWorkspaceRoots, UpdateWorkspaceStatus, UpdateWorkspaceTrust
  <1>2. CASE doomed \subseteq doomed'
    BY <1>0, <1>1, <1>2 DEF ClosingSessions, Closing
  <1>3. ASSUME NEW s \in SessionIds, SessionClosed(s)
        PROVE  ClosingSessions \subseteq ClosingSessions'
    <2>1. doomed' = doomed \ {s} /\ sessions'[s] = "closed"
      BY <1>3 DEF SessionClosed, CloseSession, RegistryTypeOK
    <2> QED BY <1>0, <1>1, <2>1 DEF ClosingSessions, Closing
  <1> QED BY <1>2, <1>3, DoomGrows

-----------------------------------------------------------------------------
(* Routes at all times.                                                    *)

\* A request that names workspace w gets a route, with the entry x (a plan) or y
\* (an undo token) taken from the store for it, if any.
NewRoute(c, id, kind, w, x, y) ==
    /\ Len(routes) < MaxRoutes
    /\ IsOpen(c) /\ WorkspaceConnectionRefusal(w) = "ok"
    /\ kind \in {"read", "list", "prepare", "undo"} => x = None
    /\ kind # "undo" => y = None
    /\ \A z \in {x, y} : z # None =>
            z.consumer = c /\ z.workspace = w /\ z.adapter = OwnerSession(w)
    /\ AddRoute(c, id, kind, w, x, y)
    /\ UNCHANGED registryVars

\* The send of a forwarded request fails: its route is removed.
LEMMA AdvanceFailed ==
    ASSUME routes \in Seq(RouteRecord), NEW r \in DOMAIN routes, SendFailed(r)
    PROVE  Advance({r})
PROOF
  <1> DEFINE ans == Append(routes[r].answers, "ADAPTER_DISCONNECTED")
             idle == [routes[r] EXCEPT !.sending = FALSE]
             rec == Updated(idle, "gone", ans)
  <1>1. routes[r] \in RouteRecord /\ routes[r].answers \in Seq(Codes)
    BY RouteFields
  <1>2. "ADAPTER_DISCONNECTED" \in Codes /\ "ADAPTER_DISCONNECTED" # "result"
    BY DEF Codes
  <1>3. ans \in Seq(Codes)
    BY <1>1, <1>2
  <1>4. idle \in RouteRecord /\ idle.state = routes[r].state /\ SameRequest(idle, routes[r])
    <2>1. idle \in RouteRecord
      BY <1>1 DEF RouteRecord
    <2>2. idle.state = routes[r].state /\ SameRequest(idle, routes[r])
      BY <1>1 DEF RouteRecord, SameRequest
    <2> QED BY <2>1, <2>2
  <1>5. routes' = [routes EXCEPT ![r] = rec]
    <2>1. [routes[r] EXCEPT !.sending = FALSE, !.state = "gone",
                            !.answers = Append(@, "ADAPTER_DISCONNECTED")] = rec
      BY <1>1 DEF RouteRecord, Updated
    <2> QED BY <2>1 DEF SendFailed
  <1> HIDE DEF ans, idle
  <1>6. rec \in RouteRecord /\ rec.state = "gone" /\ rec.answers = ans /\ SameRequest(rec, idle)
    BY <1>3, <1>4, RouteUpdated
  <1> HIDE DEF rec
  <1>7. SameRequest(rec, routes[r])
    BY <1>4, <1>6 DEF SameRequest
  <1>8. rec.answers = Append(routes[r].answers, "ADAPTER_DISCONNECTED")
    BY <1>6 DEF ans
  <1> QED BY <1>2, <1>5, <1>6, <1>7, <1>8, AdvanceOne

\* A step adds a route or moves the routes forward.
LEMMA RouteSteps ==
    ASSUME RouteInvariant, StoreTypes, Shape
    PROVE  \/ \E gone : Advance(gone)
           \/ \E c \in ConsumerSessions, id \in RequestIds, kind \in RequestKinds, w \in WorkspaceIds,
                 x \in StoredPlan \cup {None}, y \in StoredUndoToken \cup {None} :
                    NewRoute(c, id, kind, w, x, y)
PROOF
  <1>0. routes \in Seq(RouteRecord)
    BY DEF RouteInvariant
  <1>1. CASE DropStep
    BY <1>1 DEF DropStep
  <1>2. ASSUME NEW r \in DOMAIN routes, SendFailed(r) PROVE Advance({r})
    BY <1>0, <1>2, AdvanceFailed
  <1>3. ASSUME UNCHANGED routes PROVE Advance({})
    BY <1>0, <1>3, AdvanceNone
  <1>4. ASSUME NEW x, FinishRefusedPlan(x) \/ FinishRefusedUndo(x) PROVE Advance({})
    BY <1>3, <1>4 DEF FinishRefusedPlan, FinishRefusedUndo, routingVars
  <1>5. ASSUME NEW c \in ConsumerSessions, NEW id \in RequestIds, NEW kind \in RequestKinds,
               NEW w \in WorkspaceIds, AskStep(c, id, kind, w)
        PROVE  NewRoute(c, id, kind, w, None, None)
    BY <1>5 DEF AskStep, NewRoute, MaySend
  <1>6. ASSUME NEW c \in ConsumerSessions, NEW id \in RequestIds, NEW kind \in RequestKinds,
               NEW p \in PlanIds, NEW w \in WorkspaceIds, TakePlan(c, id, kind, p, w)
        PROVE  NewRoute(c, id, kind, w, plans[p], None) \/ Advance({})
    <2>1. CASE AddRoute(c, id, kind, w, plans[p], None)
      BY <1>6, <2>1 DEF TakePlan, NewRoute, MaySend, StoredAdapterGone, Owns
    <2> QED BY <1>3, <1>6, <2>1 DEF TakePlan
  <1>7. ASSUME NEW c \in ConsumerSessions, NEW id \in RequestIds, NEW t \in TokenIds,
               NEW w \in WorkspaceIds, TakeToken(c, id, t, w)
        PROVE  "undo" \in RequestKinds /\ (NewRoute(c, id, "undo", w, None, undoTokens[t]) \/ Advance({}))
    <2>1. CASE AddRoute(c, id, "undo", w, None, undoTokens[t])
      BY <1>7, <2>1 DEF TakeToken, NewRoute, MaySend, StoredAdapterGone
    <2>2. "undo" \in RequestKinds
      BY <1>7 DEF TakeToken, MaySend
    <2> QED BY <1>3, <1>7, <2>1, <2>2 DEF TakeToken
  <1>8. ASSUME NEW r \in DOMAIN routes, routes[r].state = "active", Deliver(r, "result")
        PROVE  Advance({r})
    <2>1. RemoveRoute(r, <<"result">>) /\ "result" \in Codes
      BY <1>8 DEF Deliver, Codes
    <2> QED BY <1>0, <1>8, <2>1, AdvanceRemoved
  <1>9. ASSUME NEW s, NEW r \in DOMAIN routes, NEW x, StorePlan(s, r, x) \/ StoreToken(s, r, x)
        PROVE  Advance({r})
    BY <1>8, <1>9 DEF StorePlan, StoreToken, AnswersActive
  <1>10. /\ None \in StoredPlan \cup {None} /\ None \in StoredUndoToken \cup {None}
         /\ \A p \in PlanIds : plans[p] \in StoredPlan \cup {None}
         /\ \A t \in TokenIds : undoTokens[t] \in StoredUndoToken \cup {None}
    BY DEF StoreTypes
  <1> QED BY <1>1, <1>2, <1>4, <1>5, <1>6, <1>7, <1>9, <1>10 DEF Shape

\* What a route carries and was answered, but for its connection.
Sound(rec) ==
    /\ Carried(rec)
    /\ Answered(rec)
    /\ Matches(rec, rec.plan)
    /\ Matches(rec, rec.token)

\* Moving forward keeps that.
LEMMA AdvanceKeeps ==
    ASSUME RouteInvariant, NEW gone, Advance(gone)
    PROVE  /\ routes' \in Seq(RouteRecord) /\ Len(routes') <= MaxRoutes
           /\ \A r \in DOMAIN routes' : Sound(routes'[r])
PROOF
  <1>1. routes' \in Seq(RouteRecord) /\ DOMAIN routes' = DOMAIN routes
    BY DEF Advance
  <1>2. routes \in Seq(RouteRecord) /\ Len(routes) <= MaxRoutes
    BY DEF RouteInvariant
  <1>3. Len(routes') = Len(routes)
    BY <1>1, <1>2
  <1>4. ASSUME NEW r \in DOMAIN routes PROVE Sound(routes'[r])
    <2>1. /\ Carried(routes[r]) /\ Answered(routes[r])
          /\ Matches(routes[r], routes[r].plan) /\ Matches(routes[r], routes[r].token)
      BY DEF RouteInvariant
    <2>2. SameRequest(routes'[r], routes[r])
      BY DEF Advance
    <2>3. Carried(routes'[r]) /\ Matches(routes'[r], routes'[r].plan) /\ Matches(routes'[r], routes'[r].token)
      BY <2>1, <2>2 DEF SameRequest, Carried, Matches
    <2>4. Answered(routes'[r])
      <3>1. routes'[r].state = "active" => routes'[r].answers = << >>
        BY <2>1 DEF Advance, Answered
      <3>2. CASE routes'[r].answers = routes[r].answers
        BY <2>1, <3>1, <3>2 DEF Answered
      <3>3. ASSUME NEW code \in Codes, routes'[r].answers = Append(routes[r].answers, code),
                   code = "result" => routes[r].state = "active"
            PROVE  \A i \in DOMAIN routes'[r].answers : routes'[r].answers[i] = "result" => i = 1
        <4>1. routes[r].answers \in Seq(Codes)
          BY <1>2, RouteFields
        <4>2. routes[r].state = "active" => routes[r].answers = << >>
          BY <2>1 DEF Answered
        <4>3. \A i \in DOMAIN routes[r].answers : routes[r].answers[i] = "result" => i = 1
          BY <2>1 DEF Answered
        <4> QED BY <3>3, <4>1, <4>2, <4>3
      <3> QED BY <3>1, <3>2, <3>3 DEF Advance, Answered
    <2> QED BY <2>3, <2>4 DEF Sound
  <1> QED BY <1>1, <1>2, <1>3, <1>4

\* Moving forward keeps the routes connected, also when a session goes away.
LEMMA AdvanceConnected ==
    ASSUME RegistryInvariant, RouteInvariant, [RouterNext]_vars, NEW gone, Advance(gone)
    PROVE  \A r \in DOMAIN routes' : Connected(routes[r])'
PROOF
  <1>0. DOMAIN routes' = DOMAIN routes /\ routes \in Seq(RouteRecord)
    BY DEF Advance, RouteInvariant
  <1> SUFFICES ASSUME NEW r \in DOMAIN routes PROVE Connected(routes[r])'
    BY <1>0
  <1>1. /\ routes'[r].adapter = routes[r].adapter /\ routes'[r].consumer = routes[r].consumer
        /\ routes[r].state = "gone" => routes'[r].state = "gone"
        /\ routes'[r].state = "active" => routes[r].state = "active"
    BY DEF Advance, SameRequest
  <1>2. routes[r] \in RouteRecord /\ Connected(routes[r])
    BY <1>0 DEF RouteInvariant
  <1>3. routes[r].adapter \in AdapterSessions /\ routes[r].consumer \in ConsumerSessions
        /\ routes[r].adapter \in SessionIds /\ routes[r].consumer \in SessionIds
    BY <1>2 DEF RouteRecord, SessionIds
  <1>4. RegistryTypeOK
    BY DEF RegistryInvariant
  <1>5. CASE Gentle
    BY <1>1, <1>2, <1>3, <1>5 DEF Gentle, Connected, IsOpen
  <1>6. ASSUME NEW s \in SessionIds, SessionClosed(s) PROVE Connected(routes[r])'
    <2>1. /\ r \in ServedBy(s) => routes'[r].state = "gone"
          /\ r \notin ServedBy(s) /\ r \in ActiveRoutes(s) => routes'[r].state = "cancelled"
      <3>1. routes' = [q \in DOMAIN routes |->
            IF q \in ServedBy(s)
            THEN [routes[q] EXCEPT !.state = "gone",
                    !.answers = IF routes[q].state = "active"
                                THEN Append(@, "ADAPTER_DISCONNECTED") ELSE @]
            ELSE IF q \in ActiveRoutes(s) THEN [routes[q] EXCEPT !.state = "cancelled"]
            ELSE routes[q]]
        BY <1>6 DEF SessionClosed, DropSessionRoutes
      <3> QED BY <1>2, <3>1 DEF RouteRecord
    <2>2. /\ sessions' = [sessions EXCEPT ![s] = "closed"]
          /\ \A q \in SessionIds : q # s => adapterBySession'[q] = adapterBySession[q]
      <3>1. CloseSession(s)
        BY <1>6 DEF SessionClosed
      <3>2. adapterBySession[s] # None => adapters[adapterBySession[s]] = s
        BY DEF RegistryInvariant, IndexesAgree
      <3> QED BY <1>4, <3>1, <3>2 DEF CloseSession, RemoveAdapter, RegistryTypeOK
    <2>3. sessions'[routes[r].adapter] # "fresh"
      BY <1>2, <1>3, <1>4, <2>2 DEF Connected, RegistryTypeOK
    <2>4. ASSUME routes'[r].state # "gone"
          PROVE  sessions'[routes[r].adapter] = "open" /\ adapterBySession'[routes[r].adapter] # None
      <3>1. routes[r].adapter # s
        BY <1>1, <2>1, <2>4 DEF ServedBy, PresentRoutes
      <3> QED BY <1>1, <1>2, <1>3, <1>4, <2>2, <2>4, <3>1 DEF Connected, IsOpen, RegistryTypeOK
    <2>5. ASSUME routes'[r].state = "active"
          PROVE  sessions'[routes[r].consumer] = "open"
      <3>1. routes[r].consumer # s
        BY <1>1, <2>1, <2>5 DEF ActiveRoutes, PresentRoutes
      <3> QED BY <1>1, <1>2, <1>3, <1>4, <2>2, <2>5, <3>1 DEF Connected, IsOpen, RegistryTypeOK
    <2> QED BY <1>1, <2>3, <2>4, <2>5 DEF Connected, IsOpen
  <1>7. ASSUME NEW s \in AdapterSessions, NEW a \in AdapterIds, Unregister(s, a)
        PROVE  Connected(routes[r])'
    <2>1. r \in ServedBy(s) => routes'[r].state = "gone"
      <3>1. routes' = [q \in DOMAIN routes |->
            IF q \in ServedBy(s)
            THEN [routes[q] EXCEPT !.state = "gone",
                    !.answers = IF routes[q].state = "active"
                                THEN Append(@, "ADAPTER_DISCONNECTED") ELSE @]
            ELSE IF q \in {} THEN [routes[q] EXCEPT !.state = "cancelled"]
            ELSE routes[q]]
        BY <1>7 DEF Unregister, DropSessionRoutes
      <3> QED BY <1>2, <3>1 DEF RouteRecord
    <2>2. /\ sessions' = sessions
          /\ \A q \in SessionIds : q # s => adapterBySession'[q] = adapterBySession[q]
      <3>1. UnregisterAdapter(s, a)
        BY <1>7 DEF Unregister
      <3>2. adapters[a] = s
        BY <3>1, BaseConstants, OwnershipMeansRegistered DEF UnregisterAdapter, SessionIds
      <3> QED BY <1>4, <3>1, <3>2 DEF UnregisterAdapter, RemoveAdapter, RegistryTypeOK
    <2>3. ASSUME routes'[r].state # "gone" PROVE routes[r].adapter # s
      BY <1>1, <2>1, <2>3 DEF ServedBy, PresentRoutes
    <2> QED BY <1>1, <1>2, <1>3, <2>2, <2>3 DEF Connected, IsOpen
  <1> QED BY <1>4, <1>5, <1>6, <1>7, GentleSteps

\* The route of a new request is connected and carries its own entry.
LEMMA NewRouteKeeps ==
    ASSUME RegistryInvariant, RouteInvariant,
           NEW c \in ConsumerSessions, NEW id \in RequestIds, NEW kind \in RequestKinds,
           NEW w \in WorkspaceIds, NEW x \in StoredPlan \cup {None},
           NEW y \in StoredUndoToken \cup {None}, NewRoute(c, id, kind, w, x, y)
    PROVE  RouteInvariant'
PROOF
  <1> DEFINE rec == [kind |-> kind, id |-> id, consumer |-> c, adapter |-> OwnerSession(w),
                     workspace |-> w, state |-> "active", sending |-> TRUE,
                     plan |-> x, token |-> y, answers |-> << >>]
  <1>0. routes \in Seq(RouteRecord) /\ Len(routes) < MaxRoutes /\ MaxRoutes \in Nat
    BY RouterConstants DEF RouteInvariant, NewRoute
  <1>1. workspaces[w] # None /\ OwnerSession(w) # None /\ IsOpen(OwnerSession(w))
    BY DEF NewRoute, WorkspaceConnectionRefusal, OwnerSession
  <1>2. workspaces[w].adapter \in AdapterIds
    BY <1>1 DEF RegistryInvariant, RegistryTypeOK, Workspace
  <1>3. /\ OwnerSession(w) \in AdapterSessions
        /\ adapterBySession[OwnerSession(w)] # None
    BY <1>1, <1>2, BaseConstants DEF RegistryInvariant, AdaptersConnected, IndexesAgree, OwnerSession
  <1>4. rec \in RouteRecord
    BY <1>3 DEF RouteRecord
  <1>5. routes' = Append(routes, rec)
    BY DEF NewRoute, AddRoute
  <1>6. Carried(rec) /\ Answered(rec) /\ Matches(rec, rec.plan) /\ Matches(rec, rec.token)
    BY DEF NewRoute, Carried, Answered, Matches
  <1>7. Connected(rec)
    BY <1>1, <1>3 DEF Connected, NewRoute, IsOpen
  <1> HIDE DEF rec
  <1>8. /\ routes' \in Seq(RouteRecord) /\ Len(routes') <= MaxRoutes
        /\ \A r \in DOMAIN routes' : routes'[r] = rec \/ (r \in DOMAIN routes /\ routes'[r] = routes[r])
    BY <1>0, <1>4, <1>5
  <1>9. ASSUME NEW r \in DOMAIN routes'
         PROVE  /\ Carried(routes'[r]) /\ Answered(routes'[r])
                /\ Matches(routes'[r], routes'[r].plan) /\ Matches(routes'[r], routes'[r].token)
                /\ Connected(routes'[r])
    BY <1>6, <1>7, <1>8 DEF RouteInvariant
  <1>10. \A r \in DOMAIN routes' : Connected(routes[r])'
    <2> SUFFICES ASSUME NEW r \in DOMAIN routes' PROVE Connected(routes[r])'
      OBVIOUS
    <2>1. UNCHANGED <<sessions, adapterBySession>>
      BY DEF NewRoute, registryVars
    <2> QED BY <1>9, <2>1 DEF Connected, IsOpen
  <1> QED BY <1>8, <1>9, <1>10 DEF RouteInvariant

\* Every step keeps the routes' invariant.
LEMMA RouteInvariantKept ==
    ASSUME RegistryInvariant, RouteInvariant, StoreTypes, [RouterNext]_vars
    PROVE  RouteInvariant'
PROOF
  <1>1. Shape
    BY StepShapes DEF RegistryInvariant
  <1>2. ASSUME NEW gone, Advance(gone) PROVE RouteInvariant'
    <2>1. /\ routes' \in Seq(RouteRecord) /\ Len(routes') <= MaxRoutes
          /\ \A r \in DOMAIN routes' : Sound(routes'[r])
      BY <1>2, AdvanceKeeps
    <2>2. \A r \in DOMAIN routes' : Connected(routes[r])'
      BY <1>2, AdvanceConnected
    <2> QED BY <2>1, <2>2 DEF RouteInvariant, Sound
  <1> QED BY <1>1, <1>2, RouteSteps, NewRouteKeeps

-----------------------------------------------------------------------------
(* The books, for plans and for undo tokens alike.                         *)

\* The entries left when ps are dropped, and the keys when rel are released too.
Dropped(ids, e, ps) == [p \in ids |-> IF p \in ps THEN None ELSE e[p]]
KeysLeft(k, e, ps, rel) == k \ ({Key(e[p]) : p \in ps} \cup {Key(x) : x \in rel})

\* The entries once x is stored under identifier i.
Added(ids, e, i, x) == [p \in ids |-> IF p = i THEN x ELSE e[p]]

\* What is left of the books' first two parts when the entries ps are dropped and
\* rel released: released entries are out, or of a closing session.
LEMMA DropKeepsKeys ==
    ASSUME NEW ids, NEW entry, None \notin entry, \A x \in entry : x.id \in ids,
           NEW e, NEW k, NEW h, NEW n, NEW closing, NEW closing2,
           Identities(ids, entry, e, h, n), Keys(ids, e, k, h, closing),
           closing \subseteq closing2,
           NEW ps, ps \subseteq Live(ids, e), NEW rel,
           \A x \in rel : x \in h \/ x.adapter \in closing2,
           NEW e2, e2 = Dropped(ids, e, ps), NEW k2, k2 = KeysLeft(k, e, ps, rel)
    PROVE  /\ Identities(ids, entry, e2, h \ rel, n)
           /\ Keys(ids, e2, k2, h \ rel, closing2)
PROOF
  <1>1. /\ \A p \in ids : e2[p] # None => e2[p] = e[p] /\ p \notin ps
        /\ \A p \in ids : e[p] = None => e2[p] = None
        /\ \A p \in ids : p \notin ps => e2[p] = e[p]
    BY DEF Dropped
  <1>2. Identities(ids, entry, e2, h \ rel, n)
    <2>1. e2 \in [ids -> entry \cup {None}]
      BY DEF Dropped, Identities
    <2> QED BY <1>1, <2>1 DEF Identities
  <1>3. Out(ids, e2, h \ rel) \subseteq Out(ids, e, h)
    BY <1>1 DEF Out, Live
  <1>4. ASSUME NEW x \in Out(ids, e2, h \ rel)
        PROVE  x \notin rel \/ x \notin h
    BY <1>1, <1>4 DEF Out, Live, Identities
  <1>5. ASSUME NEW x \in Out(ids, e2, h \ rel), NEW p \in ps
        PROVE  x # e[p]
    <2>1. p \in ids /\ e[p] # None /\ e[p].id = p
      BY DEF Live, Identities
    <2>2. CASE x \in h \ rel
      BY <2>1, <2>2 DEF Identities
    <2>3. ASSUME NEW q \in ids, e2[q] # None, x = e2[q] PROVE x # e[p]
      BY <1>1, <2>1, <2>3 DEF Identities
    <2> QED BY <2>2, <2>3 DEF Out, Live
  <1>6. k2 \subseteq {Key(x) : x \in Out(ids, e2, h \ rel)}
    <2> SUFFICES ASSUME NEW j \in k2 PROVE \E x \in Out(ids, e2, h \ rel) : j = Key(x)
      OBVIOUS
    <2>1. PICK x \in Out(ids, e, h) : j = Key(x)
      BY DEF Keys, KeysLeft
    <2>2. x \notin rel /\ \A p \in ps : x # e[p]
      BY <2>1 DEF KeysLeft
    <2>3. x \in Out(ids, e2, h \ rel)
      BY <1>1, <2>2 DEF Out, Live
    <2> QED BY <2>1, <2>3
  <1>7. ASSUME NEW x \in Out(ids, e2, h \ rel), x.adapter \notin closing2 PROVE Key(x) \in k2
    <2>1. Key(x) \in k /\ x \in Out(ids, e, h) /\ x.adapter \notin closing
      BY <1>3, <1>7 DEF Keys
    <2>2. ASSUME NEW p \in ps PROVE Key(x) # Key(e[p])
      <3>1. e[p] \in Out(ids, e, h)
        BY DEF Out, Live
      <3> QED BY <1>5, <2>1, <3>1 DEF Keys
    <2>3. ASSUME NEW y \in rel PROVE Key(x) # Key(y)
      <3>1. CASE y \in h
        <4>1. y \in Out(ids, e, h)
          BY <3>1 DEF Out
        <4> QED BY <1>4, <2>1, <3>1, <4>1 DEF Keys
      <3>2. CASE y.adapter \in closing2
        BY <1>7, <3>2 DEF Key
      <3> QED BY <3>1, <3>2
    <2> QED BY <2>1, <2>2, <2>3 DEF KeysLeft
  <1>8. Keys(ids, e2, k2, h \ rel, closing2)
    BY <1>3, <1>6, <1>7 DEF Keys
  <1> QED BY <1>2, <1>8

\* The books when entries are dropped and released, routes removed and entries
\* left waiting for a second release.
LEMMA BooksDrop ==
    ASSUME NEW ids, NEW entry, None \notin entry, \A x \in entry : x.id \in ids,
           NEW e, NEW k, NEW h, NEW n, NEW closing, NEW closing2,
           NEW carried, NEW present, NEW present2, NEW waiting, NEW waiting2,
           Books(ids, entry, e, k, h, n, closing, carried, present, waiting),
           closing \subseteq closing2,
           NEW ps, ps \subseteq Live(ids, e), NEW rel,
           \A x \in rel : x \in h \/ x.adapter \in closing2,
           present2 \subseteq present,
           \A r \in present2 : carried[r] # None => carried[r] \notin rel,
           \A x \in waiting2 : x \in waiting \/ \E r \in DOMAIN carried : carried[r] = x /\ x # None,
           \A x \in waiting2, r \in present2 : carried[r] # x,
           \A x \in waiting2 : x \in h \ rel \/ x.adapter \in closing2,
           \A x \in h \ rel : x \in waiting2 \/ \E r \in present2 : carried[r] = x,
           NEW e2, e2 = Dropped(ids, e, ps), NEW k2, k2 = KeysLeft(k, e, ps, rel)
    PROVE  Books(ids, entry, e2, k2, h \ rel, n, closing2, carried, present2, waiting2)
PROOF
  <1>1. /\ Identities(ids, entry, e, h, n) /\ Keys(ids, e, k, h, closing)
        /\ Carriers(entry, e, h, n, closing, carried, present, waiting)
    BY DEF Books
  <1>2. Identities(ids, entry, e2, h \ rel, n) /\ Keys(ids, e2, k2, h \ rel, closing2)
    BY <1>1, DropKeepsKeys
  <1>3. \A p \in ids : e[p] = None => e2[p] = None
    BY DEF Dropped
  <1>4. \A x \in waiting2 : x \in entry /\ e2[x.id] = None /\ x.id <= n
    BY <1>1, <1>3 DEF Carriers
  <1>5. \A r \in DOMAIN carried : carried[r] # None =>
            carried[r] \in entry /\ e2[carried[r].id] = None /\ carried[r].id <= n
    BY <1>1, <1>3 DEF Carriers
  <1>6. \A q, r \in DOMAIN carried :
            carried[q] # None /\ carried[r] # None /\ carried[q].id = carried[r].id => q = r
    BY <1>1 DEF Carriers
  <1>7. \A r \in present2 : carried[r] # None => carried[r] \in h \ rel
    BY <1>1 DEF Carriers
  <1>8. Carriers(entry, e2, h \ rel, n, closing2, carried, present2, waiting2)
    BY <1>4, <1>5, <1>6, <1>7 DEF Carriers
  <1> QED BY <1>2, <1>8 DEF Books

\* An entry leaves the store and is out.
LEMMA TakeKeepsKeys ==
    ASSUME NEW ids, NEW entry, None \notin entry, \A x \in entry : x.id \in ids,
           NEW e, NEW k, NEW h, NEW n, NEW closing,
           Identities(ids, entry, e, h, n), Keys(ids, e, k, h, closing),
           NEW p \in ids, e[p] # None,
           NEW e2, e2 = Dropped(ids, e, {p})
    PROVE  /\ Identities(ids, entry, e2, h \cup {e[p]}, n)
           /\ Keys(ids, e2, k, h \cup {e[p]}, closing)
PROOF
  <1>1. e \in [ids -> entry \cup {None}] /\ e[p] \in entry /\ e[p].id = p /\ p <= n
    BY DEF Identities
  <1>2. e2 \in [ids -> entry \cup {None}] /\ \A q \in ids : e2[q] = IF q = p THEN None ELSE e[q]
    BY <1>1 DEF Dropped
  <1>3. Identities(ids, entry, e2, h \cup {e[p]}, n)
    BY <1>1, <1>2 DEF Identities
  <1>4. Out(ids, e2, h \cup {e[p]}) = Out(ids, e, h)
    BY <1>2 DEF Out, Live
  <1> QED BY <1>3, <1>4 DEF Keys

\* A new route that carries nothing.
LEMMA BooksAsk ==
    ASSUME NEW ids, NEW entry, NEW e, NEW k, NEW h, NEW n, NEW closing,
           NEW carried, NEW present, NEW waiting,
           Books(ids, entry, e, k, h, n, closing, carried, present, waiting),
           present \subseteq DOMAIN carried,
           NEW new, new \notin DOMAIN carried,
           NEW carried2, DOMAIN carried2 = DOMAIN carried \cup {new},
           \A r \in DOMAIN carried : carried2[r] = carried[r],
           carried2[new] = None, None \notin entry
    PROVE  Books(ids, entry, e, k, h, n, closing, carried2, present \cup {new}, waiting)
PROOF
  <1>1. \A x \in h \cup waiting : x # None
    BY DEF Books, Identities, Carriers
  <1>2. Carriers(entry, e, h, n, closing, carried2, present \cup {new}, waiting)
    BY <1>1 DEF Books, Carriers
  <1> QED BY <1>2 DEF Books

\* A new route that carries an entry taken from the store.
LEMMA BooksTake ==
    ASSUME NEW ids, NEW entry, None \notin entry, \A x \in entry : x.id \in ids,
           NEW e, NEW k, NEW h, NEW n, NEW closing,
           NEW carried, NEW present, NEW waiting,
           Books(ids, entry, e, k, h, n, closing, carried, present, waiting),
           present \subseteq DOMAIN carried,
           NEW p \in ids, e[p] # None,
           NEW e2, e2 = Dropped(ids, e, {p}),
           NEW new, new \notin DOMAIN carried,
           NEW carried2, DOMAIN carried2 = DOMAIN carried \cup {new},
           \A r \in DOMAIN carried : carried2[r] = carried[r],
           carried2[new] = e[p]
    PROVE  Books(ids, entry, e2, k, h \cup {e[p]}, n, closing, carried2, present \cup {new}, waiting)
PROOF
  <1>1. /\ Identities(ids, entry, e, h, n) /\ Keys(ids, e, k, h, closing)
        /\ Carriers(entry, e, h, n, closing, carried, present, waiting)
    BY DEF Books
  <1>2. e \in [ids -> entry \cup {None}] /\ e[p] \in entry /\ e[p].id = p /\ p <= n
    BY <1>1 DEF Identities
  <1>3. \A q \in ids : e2[q] = IF q = p THEN None ELSE e[q]
    BY <1>2 DEF Dropped
  <1>4. ASSUME NEW r \in DOMAIN carried2, carried2[r] # None
        PROVE  carried2[r] \in entry /\ e2[carried2[r].id] = None /\ carried2[r].id <= n
    <2>1. CASE r = new
      BY <1>2, <1>3, <2>1
    <2>2. CASE r \in DOMAIN carried
      <3>1. carried[r] \in entry /\ e[carried[r].id] = None /\ carried[r].id <= n /\ carried2[r] = carried[r]
        BY <1>1, <1>4, <2>2 DEF Carriers
      <3> QED BY <1>3, <3>1
    <2> QED BY <2>1, <2>2
  <1>5. ASSUME NEW q \in DOMAIN carried, carried[q] # None PROVE carried[q].id # p
    BY <1>1, <1>5 DEF Carriers
  <1>6. \A q, r \in DOMAIN carried2 :
            carried2[q] # None /\ carried2[r] # None /\ carried2[q].id = carried2[r].id => q = r
    <2>1. \A q, r \in DOMAIN carried :
              carried[q] # None /\ carried[r] # None /\ carried[q].id = carried[r].id => q = r
      BY <1>1 DEF Carriers
    <2> QED BY <1>2, <1>5, <2>1, ZenonT(60)
  <1>7. \A x \in waiting : x \in entry /\ x.id # p /\ e2[x.id] = None /\ x.id <= n
    <2>1. \A x \in waiting : x \in entry /\ e[x.id] = None /\ x.id <= n
      BY <1>1 DEF Carriers
    <2>2. \A x \in waiting : x.id \in ids
      BY <2>1
    <2> QED BY <1>3, <2>1, <2>2
  <1>8. Carriers(entry, e2, h \cup {e[p]}, n, closing, carried2, present \cup {new}, waiting)
    <2>1. \A x \in waiting, r \in present \cup {new} : carried2[r] # x
      BY <1>1, <1>2, <1>7 DEF Carriers
    <2>2. \A r \in present \cup {new} : carried2[r] # None => carried2[r] \in h \cup {e[p]}
      BY <1>1 DEF Carriers
    <2>3. \A x \in h \cup {e[p]} : x \in waiting \/ \E r \in present \cup {new} : carried2[r] = x
      BY <1>1 DEF Carriers
    <2>4. \A x \in waiting : x \in h \cup {e[p]} \/ x.adapter \in closing
      BY <1>1 DEF Carriers
    <2> QED BY <1>4, <1>6, <1>7, <2>1, <2>2, <2>3, <2>4 DEF Carriers
  <1> QED BY <1>1, <1>8, TakeKeepsKeys DEF Books

\* An entry taken from the store waits for its release.
LEMMA BooksRefuse ==
    ASSUME NEW ids, NEW entry, None \notin entry, \A x \in entry : x.id \in ids,
           NEW e, NEW k, NEW h, NEW n, NEW closing,
           NEW carried, NEW present, NEW waiting,
           Books(ids, entry, e, k, h, n, closing, carried, present, waiting),
           present \subseteq DOMAIN carried,
           NEW p \in ids, e[p] # None,
           NEW e2, e2 = Dropped(ids, e, {p})
    PROVE  Books(ids, entry, e2, k, h \cup {e[p]}, n, closing, carried, present, waiting \cup {e[p]})
PROOF
  <1>1. /\ Identities(ids, entry, e, h, n) /\ Keys(ids, e, k, h, closing)
        /\ Carriers(entry, e, h, n, closing, carried, present, waiting)
    BY DEF Books
  <1>2. e \in [ids -> entry \cup {None}] /\ e[p] \in entry /\ e[p].id = p /\ p <= n
    BY <1>1 DEF Identities
  <1>3. \A q \in ids : e2[q] = IF q = p THEN None ELSE e[q]
    BY <1>2 DEF Dropped
  <1>4. \A r \in DOMAIN carried : carried[r] # None =>
            carried[r] \in entry /\ e2[carried[r].id] = None /\ carried[r].id <= n
    BY <1>1, <1>3 DEF Carriers
  <1>5. ASSUME NEW q \in DOMAIN carried, carried[q] # None PROVE carried[q] # e[p]
    BY <1>1, <1>2, <1>5 DEF Carriers
  <1>6. \A x \in waiting \cup {e[p]} : x \in entry /\ e2[x.id] = None /\ x.id <= n
    BY <1>1, <1>2, <1>3 DEF Carriers
  <1>7. \A x \in waiting \cup {e[p]}, r \in present : carried[r] # x
    BY <1>1, <1>2, <1>5 DEF Carriers
  <1>8. Carriers(entry, e2, h \cup {e[p]}, n, closing, carried, present, waiting \cup {e[p]})
    BY <1>1, <1>4, <1>6, <1>7 DEF Carriers
  <1> QED BY <1>1, <1>8, TakeKeepsKeys DEF Books

\* A new entry is stored under a fresh identifier, with a key that is free.
LEMMA BooksStore ==
    ASSUME NEW ids, NEW entry, None \notin entry, \A x \in entry : x.id \in ids,
           NEW e, NEW k, NEW h, NEW n, NEW closing,
           NEW carried, NEW present, NEW waiting,
           Books(ids, entry, e, k, h, n, closing, carried, present, waiting),
           ids \subseteq Nat, n + 1 \in ids,
           NEW x \in entry, x.id = n + 1, Key(x) \notin k,
           NEW e2, e2 = Added(ids, e, n + 1, x)
    PROVE  Books(ids, entry, e2, k \cup {Key(x)}, h, n + 1, closing, carried, present, waiting)
PROOF
  <1>1. /\ Identities(ids, entry, e, h, n) /\ Keys(ids, e, k, h, closing)
        /\ Carriers(entry, e, h, n, closing, carried, present, waiting)
    BY DEF Books
  <1>2. n \in Nat /\ e \in [ids -> entry \cup {None}] /\ e[n + 1] = None
    BY <1>1 DEF Identities
  <1>3. /\ \A p \in ids : e2[p] = IF p = n + 1 THEN x ELSE e[p]
        /\ e2 \in [ids -> entry \cup {None}]
    BY <1>2 DEF Added
  <1>4. \A p \in ids : p <= n => p # n + 1 /\ p <= n + 1
    BY <1>2
  <1>5. Identities(ids, entry, e2, h, n + 1)
    <2>1. n + 1 \in Nat /\ n + 1 <= n + 1
      BY <1>2
    <2>2. \A p \in ids : e2[p] # None => e2[p].id = p /\ p <= n + 1
      BY <1>1, <1>3, <1>4, <2>1 DEF Identities
    <2>3. \A y \in h : e2[y.id] = None /\ y.id <= n + 1
      BY <1>1, <1>3, <1>4 DEF Identities
    <2> QED BY <1>1, <1>3, <2>1, <2>2, <2>3 DEF Identities
  <1>6. Out(ids, e2, h) = Out(ids, e, h) \cup {x}
    BY <1>2, <1>3 DEF Out, Live
  <1>7. ASSUME NEW y \in Out(ids, e, h), y.adapter \notin closing PROVE Key(y) # Key(x)
    BY <1>1, <1>7 DEF Keys
  <1>8. Keys(ids, e2, k \cup {Key(x)}, h, closing)
    <2>1. ASSUME NEW y \in Out(ids, e, h), x.adapter \notin closing PROVE Key(y) # Key(x)
      BY <1>7, <2>1 DEF Key
    <2>2. \A y \in Out(ids, e, h) \cup {x} : y.adapter \notin closing => Key(y) \in k \cup {Key(x)}
      BY <1>1 DEF Keys
    <2>3. k \cup {Key(x)} \subseteq {Key(y) : y \in Out(ids, e, h) \cup {x}}
      BY <1>1 DEF Keys
    <2>4. \A y, z \in Out(ids, e, h) \cup {x} : y.adapter \notin closing /\ Key(y) = Key(z) => y = z
      BY <1>1, <1>7, <2>1 DEF Keys
    <2> QED BY <1>6, <2>2, <2>3, <2>4 DEF Keys
  <1>9. Carriers(entry, e2, h, n + 1, closing, carried, present, waiting)
    <2>1. \A r \in DOMAIN carried : carried[r] # None =>
              carried[r] \in entry /\ e2[carried[r].id] = None /\ carried[r].id <= n + 1
      BY <1>1, <1>3, <1>4 DEF Carriers
    <2>2. \A y \in waiting : e2[y.id] = None /\ y.id <= n + 1
      BY <1>1, <1>3, <1>4 DEF Carriers
    <2> QED BY <1>1, <2>1, <2>2 DEF Carriers
  <1> QED BY <1>5, <1>8, <1>9 DEF Books

\* The entries the routes rs carry.
EntriesCarried(carried, rs) == {carried[r] : r \in rs} \ {None}

\* Routes are removed and their entries released.
LEMMA BooksDropRoutes ==
    ASSUME NEW ids, NEW entry, None \notin entry, \A x \in entry : x.id \in ids,
           NEW e, NEW k, NEW h, NEW n, NEW closing, NEW closing2,
           NEW carried, NEW present, NEW waiting,
           Books(ids, entry, e, k, h, n, closing, carried, present, waiting),
           closing \subseteq closing2, present \subseteq DOMAIN carried,
           NEW ps, ps \subseteq Live(ids, e), NEW gone, gone \subseteq present,
           NEW rel, rel = EntriesCarried(carried, gone)
    PROVE  Books(ids, entry, Dropped(ids, e, ps), KeysLeft(k, e, ps, rel), h \ rel, n, closing2,
                 carried, present \ gone, waiting)
PROOF
  <1>1. Carriers(entry, e, h, n, closing, carried, present, waiting)
    BY DEF Books
  <1>2. \A x \in rel : x # None /\ \E r \in gone : carried[r] = x
    BY DEF EntriesCarried
  <1>3. \A r \in gone : carried[r] # None => carried[r] \in rel
    BY DEF EntriesCarried
  <1>4. \A x \in rel : x \in h
    BY <1>1, <1>2 DEF Carriers
  <1>5. \A r \in present \ gone : carried[r] # None => carried[r] \notin rel
    BY <1>1, <1>2 DEF Carriers
  <1>6. /\ \A x \in waiting, r \in present \ gone : carried[r] # x
        /\ \A x \in waiting : x \in h \ rel \/ x.adapter \in closing2
    BY <1>1, <1>2 DEF Carriers
  <1>7. \A x \in h \ rel : x # None
    BY DEF Books, Identities
  <1>8. \A x \in h \ rel : x \in waiting \/ \E r \in present \ gone : carried[r] = x
    BY <1>1, <1>3, <1>7 DEF Carriers
  <1> QED BY <1>4, <1>5, <1>6, <1>8, BooksDrop

\* The send of a request failed: its entry is released, and waits to be so again.
LEMMA BooksSendFailed ==
    ASSUME NEW ids, NEW entry, None \notin entry, \A x \in entry : x.id \in ids,
           NEW e, NEW k, NEW h, NEW n, NEW closing, NEW closing2,
           NEW carried, NEW present, NEW waiting,
           Books(ids, entry, e, k, h, n, closing, carried, present, waiting),
           closing \subseteq closing2, present \subseteq DOMAIN carried,
           NEW r \in DOMAIN carried, carried[r] # None => carried[r].adapter \in closing2,
           NEW rel, rel = EntriesCarried(carried, {r})
    PROVE  Books(ids, entry, Dropped(ids, e, {}), KeysLeft(k, e, {}, rel), h \ rel, n, closing2,
                 carried, present \ {r}, waiting \cup rel)
PROOF
  <1>1. Carriers(entry, e, h, n, closing, carried, present, waiting)
    BY DEF Books
  <1>2. \A x \in rel : x # None /\ x = carried[r] /\ x.adapter \in closing2
    BY DEF EntriesCarried
  <1>3. carried[r] # None => carried[r] \in rel
    BY DEF EntriesCarried
  <1>4. \A q \in present \ {r} : carried[q] # None => carried[q] \notin rel
    BY <1>1, <1>2 DEF Carriers
  <1>5. \A x \in waiting \cup rel : x \in waiting \/ \E q \in DOMAIN carried : carried[q] = x /\ x # None
    BY <1>2
  <1>6. \A x \in waiting \cup rel, q \in present \ {r} : carried[q] # x
    BY <1>1, <1>2, <1>4 DEF Carriers
  <1>7. \A x \in waiting \cup rel : x \in h \ rel \/ x.adapter \in closing2
    BY <1>1, <1>2 DEF Carriers
  <1>8. \A x \in h \ rel : x # None
    BY DEF Books, Identities
  <1>9. \A x \in h \ rel : x \in waiting \cup rel \/ \E q \in present \ {r} : carried[q] = x
    BY <1>1, <1>3, <1>8 DEF Carriers
  <1>10. {} \subseteq Live(ids, e) /\ \A x \in rel : x \in h \/ x.adapter \in closing2
    BY <1>2
  <1> QED BY <1>4, <1>5, <1>6, <1>7, <1>9, <1>10, BooksDrop, SMTT(40)

\* An entry that waited is released.
LEMMA BooksFinish ==
    ASSUME NEW ids, NEW entry, None \notin entry, \A x \in entry : x.id \in ids,
           NEW e, NEW k, NEW h, NEW n, NEW closing, NEW closing2,
           NEW carried, NEW present, NEW waiting,
           Books(ids, entry, e, k, h, n, closing, carried, present, waiting),
           closing \subseteq closing2, present \subseteq DOMAIN carried,
           NEW y \in waiting
    PROVE  Books(ids, entry, Dropped(ids, e, {}), KeysLeft(k, e, {}, {y}), h \ {y}, n, closing2,
                 carried, present, waiting \ {y})
PROOF
  <1>1. Carriers(entry, e, h, n, closing, carried, present, waiting)
    BY DEF Books
  <1>2. {} \subseteq Live(ids, e) /\ \A x \in {y} : x \in h \/ x.adapter \in closing2
    BY <1>1 DEF Carriers
  <1>3. \A r \in present : carried[r] # None => carried[r] \notin {y}
    BY <1>1 DEF Carriers
  <1>4. /\ \A x \in waiting \ {y} : x \in waiting \/ \E r \in DOMAIN carried : carried[r] = x /\ x # None
        /\ \A x \in waiting \ {y}, r \in present : carried[r] # x
        /\ \A x \in waiting \ {y} : x \in h \ {y} \/ x.adapter \in closing2
    BY <1>1 DEF Carriers
  <1>5. \A x \in h \ {y} : x \in waiting \ {y} \/ \E r \in present : carried[r] = x
    BY <1>1 DEF Carriers
  <1> QED BY <1>2, <1>3, <1>4, <1>5, BooksDrop

-----------------------------------------------------------------------------
(* The router keeps its books.                                             *)

\* What the lemmas ask of the entries.
LEMMA Entries ==
    /\ None \notin StoredPlan /\ \A x \in StoredPlan : x.id \in PlanIds
    /\ None \notin StoredUndoToken /\ \A x \in StoredUndoToken : x.id \in TokenIds
    /\ PlanIds \subseteq Nat /\ TokenIds \subseteq Nat
  BY NoneIsNoEntry, StoreConstants DEF StoredPlan, StoredUndoToken, PlanIds, TokenIds

\* The routes and what they carry, in a state.
LEMMA RoutesNow ==
    /\ DOMAIN CarriedPlans = DOMAIN routes /\ DOMAIN CarriedTokens = DOMAIN routes
    /\ PresentRoutes \subseteq DOMAIN routes
    /\ \A r \in DOMAIN routes : CarriedPlans[r] = routes[r].plan /\ CarriedTokens[r] = routes[r].token
    /\ \A rs \in SUBSET DOMAIN routes : /\ EntriesCarried(CarriedPlans, rs) = PlansOf(rs)
                                        /\ EntriesCarried(CarriedTokens, rs) = TokensOf(rs)
  BY DEF CarriedPlans, CarriedTokens, PresentRoutes, EntriesCarried, PlansOf, TokensOf

\* Moving forward removes the routes gone and keeps what is carried.
LEMMA AdvanceCarries ==
    ASSUME NEW gone, Advance(gone)
    PROVE  /\ CarriedPlans' = CarriedPlans /\ CarriedTokens' = CarriedTokens
           /\ PresentRoutes' = PresentRoutes \ gone
PROOF
  <1>1. /\ DOMAIN routes' = DOMAIN routes
        /\ \A r \in DOMAIN routes : routes'[r].plan = routes[r].plan /\ routes'[r].token = routes[r].token
        /\ \A r \in DOMAIN routes : routes'[r].state = "gone" <=> routes[r].state = "gone" \/ r \in gone
    BY DEF Advance, SameRequest
  <1>2. CarriedPlans' = CarriedPlans
    BY <1>1 DEF CarriedPlans
  <1>3. CarriedTokens' = CarriedTokens
    BY <1>1 DEF CarriedTokens
  <1>4. PresentRoutes' = PresentRoutes \ gone
    BY <1>1 DEF PresentRoutes
  <1> QED BY <1>2, <1>3, <1>4

\* A new route is present, with the plan it carries.
LEMMA AddCarriesPlan ==
    ASSUME routes \in Seq(RouteRecord), NEW c, NEW id, NEW kind, NEW w, NEW x, NEW y,
           AddRoute(c, id, kind, w, x, y)
    PROVE  /\ Len(routes) + 1 \notin DOMAIN CarriedPlans
           /\ DOMAIN CarriedPlans' = DOMAIN CarriedPlans \cup {Len(routes) + 1}
           /\ \A r \in DOMAIN CarriedPlans : CarriedPlans'[r] = CarriedPlans[r]
           /\ CarriedPlans'[Len(routes) + 1] = x
           /\ PresentRoutes' = PresentRoutes \cup {Len(routes) + 1}
PROOF
  <1> DEFINE rec == [kind |-> kind, id |-> id, consumer |-> c, adapter |-> OwnerSession(w),
                     workspace |-> w, state |-> "active", sending |-> TRUE,
                     plan |-> x, token |-> y, answers |-> << >>]
             new == Len(routes) + 1
  <1>1. routes' = Append(routes, rec)
    BY DEF AddRoute
  <1>2. rec.plan = x /\ rec.state = "active"
    OBVIOUS
  <1> HIDE DEF rec
  <1>3. /\ new \notin DOMAIN routes
        /\ DOMAIN routes' = DOMAIN routes \cup {new}
        /\ \A r \in DOMAIN routes : routes'[r] = routes[r]
        /\ routes'[new] = rec
    BY <1>1
  <1> HIDE DEF new
  <1>4. /\ new \notin DOMAIN CarriedPlans
        /\ DOMAIN CarriedPlans' = DOMAIN CarriedPlans \cup {new}
        /\ \A r \in DOMAIN CarriedPlans : CarriedPlans'[r] = CarriedPlans[r]
        /\ CarriedPlans'[new] = x
    BY <1>2, <1>3 DEF CarriedPlans
  <1>5. PresentRoutes' = PresentRoutes \cup {new}
    BY <1>2, <1>3 DEF PresentRoutes
  <1> QED BY <1>4, <1>5 DEF new

\* The same for its undo token.
LEMMA AddCarriesToken ==
    ASSUME routes \in Seq(RouteRecord), NEW c, NEW id, NEW kind, NEW w, NEW x, NEW y,
           AddRoute(c, id, kind, w, x, y)
    PROVE  /\ Len(routes) + 1 \notin DOMAIN CarriedTokens
           /\ DOMAIN CarriedTokens' = DOMAIN CarriedTokens \cup {Len(routes) + 1}
           /\ \A r \in DOMAIN CarriedTokens : CarriedTokens'[r] = CarriedTokens[r]
           /\ CarriedTokens'[Len(routes) + 1] = y
           /\ PresentRoutes' = PresentRoutes \cup {Len(routes) + 1}
PROOF
  <1> DEFINE rec == [kind |-> kind, id |-> id, consumer |-> c, adapter |-> OwnerSession(w),
                     workspace |-> w, state |-> "active", sending |-> TRUE,
                     plan |-> x, token |-> y, answers |-> << >>]
             new == Len(routes) + 1
  <1>1. routes' = Append(routes, rec)
    BY DEF AddRoute
  <1>2. rec.token = y /\ rec.state = "active"
    OBVIOUS
  <1> HIDE DEF rec
  <1>3. /\ new \notin DOMAIN routes
        /\ DOMAIN routes' = DOMAIN routes \cup {new}
        /\ \A r \in DOMAIN routes : routes'[r] = routes[r]
        /\ routes'[new] = rec
    BY <1>1
  <1> HIDE DEF new
  <1>4. /\ new \notin DOMAIN CarriedTokens
        /\ DOMAIN CarriedTokens' = DOMAIN CarriedTokens \cup {new}
        /\ \A r \in DOMAIN CarriedTokens : CarriedTokens'[r] = CarriedTokens[r]
        /\ CarriedTokens'[new] = y
    BY <1>2, <1>3 DEF CarriedTokens
  <1>5. PresentRoutes' = PresentRoutes \cup {new}
    BY <1>2, <1>3 DEF PresentRoutes
  <1> QED BY <1>4, <1>5 DEF new

\* Retire, in the words of the books.
LEMMA Retired ==
    ASSUME NEW ps, NEW ts, NEW rel, NEW relUndo, Retire(ps, ts, rel, relUndo)
    PROVE  /\ plans' = Dropped(PlanIds, plans, ps)
           /\ internalPlans' = KeysLeft(internalPlans, plans, ps, rel)
           /\ held' = held \ rel
           /\ undoTokens' = Dropped(TokenIds, undoTokens, ts)
           /\ internalUndo' = KeysLeft(internalUndo, undoTokens, ts, relUndo)
           /\ heldUndo' = heldUndo \ relUndo
PROOF
  <1>1. plans' = Dropped(PlanIds, plans, ps) /\ undoTokens' = Dropped(TokenIds, undoTokens, ts)
    BY DEF Retire, Dropped
  <1>2. internalPlans' = KeysLeft(internalPlans, plans, ps, rel)
    BY DEF Retire, PlanKeysWithout, KeysLeft
  <1>3. internalUndo' = KeysLeft(internalUndo, undoTokens, ts, relUndo)
    BY DEF Retire, UndoKeysWithout, KeysLeft
  <1> QED BY <1>1, <1>2, <1>3 DEF Retire

\* The books once the routes gone are removed and other entries dropped.
LEMMA BooksAdvance ==
    ASSUME PlanBooks, TokenBooks, ClosingSessions \subseteq ClosingSessions',
           NEW gone, gone \subseteq PresentRoutes, Advance(gone),
           NEW ps, ps \subseteq LivePlans, NEW ts, ts \subseteq LiveTokens
    PROVE  /\ Books(PlanIds, StoredPlan, Dropped(PlanIds, plans, ps),
                    KeysLeft(internalPlans, plans, ps, PlansOf(gone)), held \ PlansOf(gone), planSeq,
                    ClosingSessions', CarriedPlans', PresentRoutes', releasing)
           /\ Books(TokenIds, StoredUndoToken, Dropped(TokenIds, undoTokens, ts),
                    KeysLeft(internalUndo, undoTokens, ts, TokensOf(gone)), heldUndo \ TokensOf(gone),
                    tokenSeq, ClosingSessions', CarriedTokens', PresentRoutes', releasingUndo)
PROOF
  <1>1. /\ CarriedPlans' = CarriedPlans /\ CarriedTokens' = CarriedTokens
        /\ PresentRoutes' = PresentRoutes \ gone
    BY AdvanceCarries
  <1>2. /\ PresentRoutes \subseteq DOMAIN CarriedPlans /\ PresentRoutes \subseteq DOMAIN CarriedTokens
        /\ PlansOf(gone) = EntriesCarried(CarriedPlans, gone)
        /\ TokensOf(gone) = EntriesCarried(CarriedTokens, gone)
    BY RoutesNow
  <1>3. ps \subseteq Live(PlanIds, plans) /\ ts \subseteq Live(TokenIds, undoTokens)
    BY DEF LivePlans, LiveTokens, Live
  <1>4. Books(PlanIds, StoredPlan, plans, internalPlans, held, planSeq,
              ClosingSessions, CarriedPlans, PresentRoutes, releasing)
    BY DEF PlanBooks
  <1>5. Books(TokenIds, StoredUndoToken, undoTokens, internalUndo, heldUndo, tokenSeq,
              ClosingSessions, CarriedTokens, PresentRoutes, releasingUndo)
    BY DEF TokenBooks
  <1>6. Books(PlanIds, StoredPlan, Dropped(PlanIds, plans, ps),
              KeysLeft(internalPlans, plans, ps, PlansOf(gone)), held \ PlansOf(gone), planSeq,
              ClosingSessions', CarriedPlans, PresentRoutes \ gone, releasing)
    BY <1>2, <1>3, <1>4, Entries, BooksDropRoutes
  <1>7. Books(TokenIds, StoredUndoToken, Dropped(TokenIds, undoTokens, ts),
              KeysLeft(internalUndo, undoTokens, ts, TokensOf(gone)), heldUndo \ TokensOf(gone),
              tokenSeq, ClosingSessions', CarriedTokens, PresentRoutes \ gone, releasingUndo)
    BY <1>2, <1>3, <1>5, Entries, BooksDropRoutes
  <1> QED BY <1>1, <1>6, <1>7

\* Only the clock changes the time.
LEMMA TimeKept ==
    ASSUME now \in Times, [RouterNext]_vars
    PROVE  now' \in Times
PROOF
  <1>0. ASSUME UNCHANGED storeVars PROVE UNCHANGED now
    BY <1>0 DEF storeVars
  <1>1. ASSUME NEW r, ReleaseRoute(r) PROVE UNCHANGED now
    BY <1>1 DEF ReleaseRoute, Release
  <1>2. CASE SessionSteps
    BY <1>0, <1>2 DEF SessionSteps, SessionOpened, SessionClosed, InvalidateSession, ProtocolViolation,
         Register, Unregister
  <1>3. CASE NotificationSteps
    BY <1>0, <1>3 DEF NotificationSteps, CapabilitiesChanged, WorkspaceOpened, WorkspaceClosed,
         RootsChanged, ReadinessChanged, TrustChanged, DocumentsTouched, InvalidateWorkspace,
         InvalidateDocuments
  <1>4. CASE RequestSteps
    <2>1. ASSUME NEW c, NEW id, NEW kind, NEW p, NEW w, ForwardPlan(c, id, kind, p, w)
          PROVE  UNCHANGED now
      BY <2>1 DEF ForwardPlan
    <2>2. ASSUME NEW c, NEW id, NEW p, NEW w, ApplyPlan(c, id, p, w)
          PROVE  UNCHANGED now
      BY <2>1, <2>2 DEF ApplyPlan, ConsumePlan
    <2>3. ASSUME NEW c, NEW id, NEW p, NEW w, DiscardPlanRequest(c, id, p, w)
          PROVE  UNCHANGED now
      BY <2>1, <2>3 DEF DiscardPlanRequest, DiscardPlan
    <2>4. ASSUME NEW c, NEW id, NEW t, NEW w, Undo(c, id, t, w)
          PROVE  UNCHANGED now
      BY <2>4 DEF Undo, ConsumeUndoToken
    <2>5. ASSUME NEW c, NEW id, NEW w, NEW kind, NEW h, RouteRequest(c, id, kind, w, h)
          PROVE  UNCHANGED now
      BY <1>0, <2>5 DEF RouteRequest
    <2>6. ASSUME NEW c, NEW id, CancelRequest(c, id) PROVE UNCHANGED now
      BY <1>0, <2>6 DEF CancelRequest
    <2> QED BY <1>4, <2>2, <2>3, <2>4, <2>5, <2>6 DEF RequestSteps
  <1>5. CASE ResponseSteps
    <2>1. ASSUME NEW s, NEW r, NEW ds, NEW e, NEW sound,
                 \/ RejectResult(s, r, ds, e, sound)
                 \/ AbsorbLate(s, r, ds, e, sound)
                 \/ ReadResult(s, r, ds, e, sound)
                 \/ Modified(s, r, ds, e, sound)
          PROVE  UNCHANGED now
      BY <1>0, <1>1, <2>1 DEF RejectResult, AbsorbLate, ReadResult, Modified
    <2>2. ASSUME NEW s, NEW r, NEW ds, NEW e, NEW a, NEW key, NEW x, NEW foreign,
                 ModifiedWithUndo(s, r, ds, e, a, key, x, foreign)
          PROVE  UNCHANGED now
      BY <1>1, <2>2 DEF ModifiedWithUndo, CreateUndoToken
    <2>3. ASSUME NEW s, NEW r, NEW sound, ErrorResponse(s, r, sound) \/ PlanDiscarded(s, r, sound)
          PROVE  UNCHANGED now
      BY <1>1, <2>3 DEF ErrorResponse, PlanDiscarded
    <2>4. ASSUME NEW s, NEW r, NEW a, NEW key, NEW x, NEW pre, NEW changes, NEW foreign,
                 PlanPrepared(s, r, a, key, x, pre, changes, foreign)
          PROVE  UNCHANGED now
      BY <1>0, <2>4 DEF PlanPrepared, Sweep, CreatePlan
    <2> QED BY <1>5, <2>1, <2>2, <2>3, <2>4 DEF ResponseSteps
  <1>6. CASE Clock
    BY <1>6, StoreConstants DEF Clock, Tick, Times
  <1>7. CASE TimerSteps
    BY <1>0, <1>1, <1>6, <1>7 DEF TimerSteps, RouteTimeout, GraceExpired, SweepTimer, Sweep
  <1>8. CASE ContinuationSteps
    BY <1>0, <1>1, <1>8 DEF ContinuationSteps, SendDone, SendFailed, FinishRefusedPlan,
         FinishRefusedUndo, Release
  <1>9. CASE UNCHANGED vars
    BY <1>0, <1>9 DEF vars
  <1> QED BY <1>2, <1>3, <1>4, <1>5, <1>7, <1>8, <1>9 DEF RouterNext

\* The entry createPlan and createUndoToken store keeps its owners and its key.
LEMMA IssuedPlan ==
    ASSUME now \in Times, NEW plan \in StoredPlan, NEW i \in PlanIds
    PROVE  /\ Issued(plan, i) \in StoredPlan /\ Issued(plan, i).id = i
           /\ Key(Issued(plan, i)) = Key(plan)
           /\ Issued(plan, i).consumer = plan.consumer /\ Issued(plan, i).adapter = plan.adapter
           /\ Issued(plan, i).author = plan.author /\ Issued(plan, i).workspace = plan.workspace
           /\ Issued(plan, i).epoch = plan.epoch
PROOF
  <1>1. PublicExpiry(plan.expires) \in Deadlines
    BY StoreConstants DEF PublicExpiry, StoredPlan, Deadlines, Times
  <1> QED BY <1>1 DEF StoredPlan, Key, Issued

\* A token that is issued keeps its key, its owners and its workspace.
LEMMA IssuedToken ==
    ASSUME now \in Times, NEW token \in StoredUndoToken, NEW i \in TokenIds
    PROVE  /\ Issued(token, i) \in StoredUndoToken /\ Issued(token, i).id = i
           /\ Key(Issued(token, i)) = Key(token)
           /\ Issued(token, i).consumer = token.consumer /\ Issued(token, i).adapter = token.adapter
           /\ Issued(token, i).author = token.author /\ Issued(token, i).workspace = token.workspace
PROOF
  <1>1. PublicExpiry(token.expires) \in Deadlines
    BY StoreConstants DEF PublicExpiry, StoredUndoToken, Deadlines, Times
  <1> QED BY <1>1 DEF StoredUndoToken, Key, Issued

\* Every step keeps the books.
LEMMA BooksKept ==
    ASSUME RegistryInvariant, RouteInvariant, PlanBooks, TokenBooks, now \in Times,
           ClosingSessions \subseteq ClosingSessions', Shape
    PROVE  PlanBooks' /\ TokenBooks'
PROOF
  <1>0. routes \in Seq(RouteRecord)
    BY DEF RouteInvariant
  <1>a. /\ Books(PlanIds, StoredPlan, plans, internalPlans, held, planSeq,
                 ClosingSessions, CarriedPlans, PresentRoutes, releasing)
        /\ PresentRoutes \subseteq DOMAIN CarriedPlans
    BY RoutesNow DEF PlanBooks
  <1>b. /\ Books(TokenIds, StoredUndoToken, undoTokens, internalUndo, heldUndo, tokenSeq,
                 ClosingSessions, CarriedTokens, PresentRoutes, releasingUndo)
        /\ PresentRoutes \subseteq DOMAIN CarriedTokens
    BY RoutesNow DEF TokenBooks
  <1>c. DOMAIN CarriedPlans = DOMAIN routes /\ DOMAIN CarriedTokens = DOMAIN routes
    BY RoutesNow
  <1>d. ASSUME UNCHANGED routes
        PROVE  CarriedPlans' = CarriedPlans /\ CarriedTokens' = CarriedTokens /\ PresentRoutes' = PresentRoutes
    <2>1. Advance({})
      BY <1>0, <1>d, AdvanceNone
    <2> QED BY <2>1, AdvanceCarries
  <1>1. CASE DropStep
    <2>1. PICK gone \in SUBSET PresentRoutes, ps \in SUBSET LivePlans, ts \in SUBSET LiveTokens :
            /\ Advance(gone)
            /\ Retire(ps, ts, PlansOf(gone), TokensOf(gone))
            /\ UNCHANGED <<planSeq, tokenSeq, releasing, releasingUndo>>
      BY <1>1 DEF DropStep
    <2>2. /\ Books(PlanIds, StoredPlan, Dropped(PlanIds, plans, ps),
                   KeysLeft(internalPlans, plans, ps, PlansOf(gone)), held \ PlansOf(gone), planSeq,
                   ClosingSessions', CarriedPlans', PresentRoutes', releasing)
          /\ Books(TokenIds, StoredUndoToken, Dropped(TokenIds, undoTokens, ts),
                   KeysLeft(internalUndo, undoTokens, ts, TokensOf(gone)), heldUndo \ TokensOf(gone),
                   tokenSeq, ClosingSessions', CarriedTokens', PresentRoutes', releasingUndo)
      BY <2>1, BooksAdvance
    <2>3. Retire(ps, ts, PlansOf(gone), TokensOf(gone))
      BY <2>1
    <2>4. /\ plans' = Dropped(PlanIds, plans, ps)
          /\ internalPlans' = KeysLeft(internalPlans, plans, ps, PlansOf(gone))
          /\ held' = held \ PlansOf(gone)
          /\ undoTokens' = Dropped(TokenIds, undoTokens, ts)
          /\ internalUndo' = KeysLeft(internalUndo, undoTokens, ts, TokensOf(gone))
          /\ heldUndo' = heldUndo \ TokensOf(gone)
      BY <2>3, Retired, Zenon
    <2>5. PlanBooks'
      BY <2>1, <2>2, <2>4 DEF PlanBooks
    <2>6. TokenBooks'
      BY <2>1, <2>2, <2>4 DEF TokenBooks
    <2> QED BY <2>5, <2>6
  <1>2. ASSUME NEW r \in DOMAIN routes, SendFailed(r) PROVE PlanBooks' /\ TokenBooks'
    <2>1. Advance({r})
      BY <1>0, <1>2, AdvanceFailed
    <2>2. /\ CarriedPlans' = CarriedPlans /\ CarriedTokens' = CarriedTokens
          /\ PresentRoutes' = PresentRoutes \ {r}
      BY <2>1, AdvanceCarries
    <2>3. Retire({}, {}, PlansOf({r}), TokensOf({r})) /\ UNCHANGED <<planSeq, tokenSeq>>
      BY <1>2 DEF SendFailed, ReleaseRoute, Release
    <2>4. releasing' = releasing \cup PlansOf({r}) /\ releasingUndo' = releasingUndo \cup TokensOf({r})
      BY <1>2 DEF SendFailed
    <2>5. routes[r].adapter \in ClosingSessions'
      <3>1. routes[r] \in RouteRecord /\ Connected(routes[r])
        BY <1>0 DEF RouteInvariant
      <3>2. routes[r].adapter \in AdapterSessions /\ sessions[routes[r].adapter] \in {"open", "closed"}
        BY <3>1 DEF RouteRecord, Connected, RegistryInvariant, RegistryTypeOK, SessionIds
      <3>3. UNCHANGED sessions /\ Doom({routes[r].adapter})
        BY <1>2 DEF SendFailed, registryVars
      <3> QED BY <3>2, <3>3 DEF Doom, IsOpen, ClosingSessions, Closing
    <2>6. /\ CarriedPlans[r] # None => CarriedPlans[r].adapter \in ClosingSessions'
          /\ CarriedTokens[r] # None => CarriedTokens[r].adapter \in ClosingSessions'
      BY <2>5, RoutesNow DEF RouteInvariant, Matches
    <2>7. /\ PlansOf({r}) = EntriesCarried(CarriedPlans, {r})
          /\ TokensOf({r}) = EntriesCarried(CarriedTokens, {r})
      BY RoutesNow
    <2>8. Books(PlanIds, StoredPlan, Dropped(PlanIds, plans, {}),
                KeysLeft(internalPlans, plans, {}, PlansOf({r})), held \ PlansOf({r}), planSeq,
                ClosingSessions', CarriedPlans, PresentRoutes \ {r}, releasing \cup PlansOf({r}))
      BY <1>a, <2>6, <2>7, <1>c, Entries, BooksSendFailed
    <2>9. Books(TokenIds, StoredUndoToken, Dropped(TokenIds, undoTokens, {}),
                KeysLeft(internalUndo, undoTokens, {}, TokensOf({r})), heldUndo \ TokensOf({r}),
                tokenSeq, ClosingSessions', CarriedTokens, PresentRoutes \ {r},
                releasingUndo \cup TokensOf({r}))
      BY <1>b, <2>6, <2>7, <1>c, Entries, BooksSendFailed
    <2>10. /\ plans' = Dropped(PlanIds, plans, {})
           /\ internalPlans' = KeysLeft(internalPlans, plans, {}, PlansOf({r}))
           /\ held' = held \ PlansOf({r})
           /\ undoTokens' = Dropped(TokenIds, undoTokens, {})
           /\ internalUndo' = KeysLeft(internalUndo, undoTokens, {}, TokensOf({r}))
           /\ heldUndo' = heldUndo \ TokensOf({r})
      <3>1. Retire({}, {}, PlansOf({r}), TokensOf({r}))
        BY <2>3
      <3>2. ASSUME NEW none, Retire(none, none, PlansOf({r}), TokensOf({r}))
            PROVE  /\ plans' = Dropped(PlanIds, plans, none)
                   /\ internalPlans' = KeysLeft(internalPlans, plans, none, PlansOf({r}))
                   /\ held' = held \ PlansOf({r})
                   /\ undoTokens' = Dropped(TokenIds, undoTokens, none)
                   /\ internalUndo' = KeysLeft(internalUndo, undoTokens, none, TokensOf({r}))
                   /\ heldUndo' = heldUndo \ TokensOf({r})
        BY ONLY <3>2, Retired
      <3> QED BY <3>1, <3>2
    <2>11. PlanBooks'
      BY <2>2, <2>3, <2>4, <2>8, <2>10 DEF PlanBooks
    <2>12. TokenBooks'
      BY <2>2, <2>3, <2>4, <2>9, <2>10 DEF TokenBooks
    <2> QED BY <2>11, <2>12
  <1>3. ASSUME UNCHANGED <<undoTokens, internalUndo, heldUndo, tokenSeq, routes, releasingUndo>>
        PROVE  TokenBooks'
    <2>2. CarriedTokens' = CarriedTokens /\ PresentRoutes' = PresentRoutes
      BY <1>d, <1>3
    <2>3. \A x \in releasingUndo : x \in heldUndo \/ x.adapter \in ClosingSessions'
      BY <1>b DEF Books, Carriers
    <2>4. Keys(TokenIds, undoTokens, internalUndo, heldUndo, ClosingSessions')
      BY <1>b DEF Books, Keys
    <2>5. Carriers(StoredUndoToken, undoTokens, heldUndo, tokenSeq, ClosingSessions', CarriedTokens,
                   PresentRoutes, releasingUndo)
      BY <1>b, <2>3 DEF Books, Carriers
    <2>6. Books(TokenIds, StoredUndoToken, undoTokens, internalUndo, heldUndo, tokenSeq,
                ClosingSessions', CarriedTokens, PresentRoutes, releasingUndo)
      BY <1>b, <2>4, <2>5 DEF Books
    <2> QED BY <1>3, <2>2, <2>6 DEF TokenBooks
  <1>4. ASSUME UNCHANGED <<plans, internalPlans, held, planSeq, routes, releasing>>
        PROVE  PlanBooks'
    <2>2. CarriedPlans' = CarriedPlans /\ PresentRoutes' = PresentRoutes
      BY <1>d, <1>4
    <2>3. \A x \in releasing : x \in held \/ x.adapter \in ClosingSessions'
      BY <1>a DEF Books, Carriers
    <2>4. Keys(PlanIds, plans, internalPlans, held, ClosingSessions')
      BY <1>a DEF Books, Keys
    <2>5. Carriers(StoredPlan, plans, held, planSeq, ClosingSessions', CarriedPlans,
                   PresentRoutes, releasing)
      BY <1>a, <2>3 DEF Books, Carriers
    <2>6. Books(PlanIds, StoredPlan, plans, internalPlans, held, planSeq,
                ClosingSessions', CarriedPlans, PresentRoutes, releasing)
      BY <1>a, <2>4, <2>5 DEF Books
    <2> QED BY <1>4, <2>2, <2>6 DEF PlanBooks
  <1>5. ASSUME NEW x \in releasing, FinishRefusedPlan(x) PROVE PlanBooks' /\ TokenBooks'
    <2>1. /\ Retire({}, {}, {x}, {})
          /\ UNCHANGED <<planSeq, tokenSeq, routes, releasingUndo>>
          /\ releasing' = releasing \ {x}
      BY <1>5 DEF FinishRefusedPlan, Release, routingVars
    <2>2. CarriedPlans' = CarriedPlans /\ PresentRoutes' = PresentRoutes
      BY <1>d, <2>1
    <2>3. Books(PlanIds, StoredPlan, Dropped(PlanIds, plans, {}), KeysLeft(internalPlans, plans, {}, {x}),
                held \ {x}, planSeq, ClosingSessions', CarriedPlans, PresentRoutes, releasing \ {x})
      BY <1>a, Entries, BooksFinish
    <2>4. PlanBooks'
      BY <2>1, <2>2, <2>3, Retired DEF PlanBooks
    <2>5. UNCHANGED <<undoTokens, internalUndo, heldUndo>>
      <3>1. undoTokens \in [TokenIds -> StoredUndoToken \cup {None}]
        BY <1>b DEF Books, Identities
      <3> QED BY <2>1, <3>1 DEF Retire, UndoKeysWithout
    <2> QED BY <1>3, <2>1, <2>4, <2>5
  <1>6. ASSUME NEW x \in releasingUndo, FinishRefusedUndo(x) PROVE PlanBooks' /\ TokenBooks'
    <2>1. /\ Retire({}, {}, {}, {x})
          /\ UNCHANGED <<planSeq, tokenSeq, routes, releasing>>
          /\ releasingUndo' = releasingUndo \ {x}
      BY <1>6 DEF FinishRefusedUndo, Release, routingVars
    <2>2. CarriedTokens' = CarriedTokens /\ PresentRoutes' = PresentRoutes
      BY <1>d, <2>1
    <2>3. Books(TokenIds, StoredUndoToken, Dropped(TokenIds, undoTokens, {}),
                KeysLeft(internalUndo, undoTokens, {}, {x}), heldUndo \ {x}, tokenSeq,
                ClosingSessions', CarriedTokens, PresentRoutes, releasingUndo \ {x})
      BY <1>b, Entries, BooksFinish
    <2>4. TokenBooks'
      BY <2>1, <2>2, <2>3, Retired DEF TokenBooks
    <2>5. UNCHANGED <<plans, internalPlans, held>>
      <3>1. plans \in [PlanIds -> StoredPlan \cup {None}]
        BY <1>a DEF Books, Identities
      <3> QED BY <2>1, <3>1 DEF Retire, PlanKeysWithout
    <2> QED BY <1>4, <2>1, <2>4, <2>5
  <1>7. ASSUME UNCHANGED <<sessions, doomed>> PROVE ClosingSessions' = ClosingSessions
    BY <1>7 DEF ClosingSessions, Closing
  <1>8. ASSUME NEW c, NEW id, NEW kind, NEW w, NEW x, NEW y, AddRoute(c, id, kind, w, x, y), x = None,
               UNCHANGED <<plans, internalPlans, held, planSeq, releasing, sessions, doomed>>
        PROVE  PlanBooks'
    <2>1. /\ Len(routes) + 1 \notin DOMAIN CarriedPlans
          /\ DOMAIN CarriedPlans' = DOMAIN CarriedPlans \cup {Len(routes) + 1}
          /\ \A r \in DOMAIN CarriedPlans : CarriedPlans'[r] = CarriedPlans[r]
          /\ CarriedPlans'[Len(routes) + 1] = None
          /\ PresentRoutes' = PresentRoutes \cup {Len(routes) + 1}
      BY <1>0, <1>8, AddCarriesPlan
    <2>2. Books(PlanIds, StoredPlan, plans, internalPlans, held, planSeq, ClosingSessions,
                CarriedPlans', PresentRoutes \cup {Len(routes) + 1}, releasing)
      BY <1>a, <2>1, Entries, BooksAsk
    <2> QED BY <1>7, <1>8, <2>1, <2>2 DEF PlanBooks
  <1>9. ASSUME NEW c, NEW id, NEW kind, NEW w, NEW x, NEW y, AddRoute(c, id, kind, w, x, y), y = None,
               UNCHANGED <<undoTokens, internalUndo, heldUndo, tokenSeq, releasingUndo, sessions, doomed>>
        PROVE  TokenBooks'
    <2>1. /\ Len(routes) + 1 \notin DOMAIN CarriedTokens
          /\ DOMAIN CarriedTokens' = DOMAIN CarriedTokens \cup {Len(routes) + 1}
          /\ \A r \in DOMAIN CarriedTokens : CarriedTokens'[r] = CarriedTokens[r]
          /\ CarriedTokens'[Len(routes) + 1] = None
          /\ PresentRoutes' = PresentRoutes \cup {Len(routes) + 1}
      BY <1>0, <1>9, AddCarriesToken
    <2>2. Books(TokenIds, StoredUndoToken, undoTokens, internalUndo, heldUndo, tokenSeq, ClosingSessions,
                CarriedTokens', PresentRoutes \cup {Len(routes) + 1}, releasingUndo)
      BY <1>b, <2>1, Entries, BooksAsk
    <2> QED BY <1>7, <1>9, <2>1, <2>2 DEF TokenBooks
  <1>10. ASSUME NEW c, NEW id, NEW kind, NEW w, AskStep(c, id, kind, w) PROVE PlanBooks' /\ TokenBooks'
    BY <1>8, <1>9, <1>10 DEF AskStep, storeVars, entryVars, registryVars
  <1>11. ASSUME NEW c, NEW id, NEW kind, NEW p \in PlanIds, NEW w, TakePlan(c, id, kind, p, w)
         PROVE  PlanBooks' /\ TokenBooks'
    <2>1. /\ plans[p] # None /\ plans' = [plans EXCEPT ![p] = None] /\ held' = held \cup {plans[p]}
          /\ UNCHANGED <<internalPlans, undoTokens, internalUndo, heldUndo, planSeq, tokenSeq,
                         releasingUndo, doomed, sessions>>
      BY <1>11 DEF TakePlan, Owns, CheckOut, registryVars
    <2>d. plans' = Dropped(PlanIds, plans, {p})
      <3>1. plans \in [PlanIds -> StoredPlan \cup {None}]
        BY <1>a DEF Books, Identities
      <3> QED BY <2>1, <3>1 DEF Dropped
    <2>2. CASE AddRoute(c, id, kind, w, plans[p], None) /\ UNCHANGED releasing
      <3>1. /\ Len(routes) + 1 \notin DOMAIN CarriedPlans
            /\ DOMAIN CarriedPlans' = DOMAIN CarriedPlans \cup {Len(routes) + 1}
            /\ \A r \in DOMAIN CarriedPlans : CarriedPlans'[r] = CarriedPlans[r]
            /\ CarriedPlans'[Len(routes) + 1] = plans[p]
            /\ PresentRoutes' = PresentRoutes \cup {Len(routes) + 1}
        BY <1>0, <2>2, AddCarriesPlan
      <3>2. Books(PlanIds, StoredPlan, plans', internalPlans, held \cup {plans[p]}, planSeq,
                  ClosingSessions, CarriedPlans', PresentRoutes \cup {Len(routes) + 1}, releasing)
        BY <1>a, <2>1, <3>1, <2>d, Entries, BooksTake, ZenonT(60)
      <3>3. PlanBooks'
        BY <1>7, <2>1, <2>2, <3>1, <3>2 DEF PlanBooks
      <3> QED BY <1>9, <2>1, <2>2, <3>3
    <2>3. CASE releasing' = releasing \cup {plans[p]} /\ UNCHANGED routes
      <3>1. CarriedPlans' = CarriedPlans /\ PresentRoutes' = PresentRoutes
        BY <1>d, <2>3
      <3>2. Books(PlanIds, StoredPlan, plans', internalPlans, held \cup {plans[p]}, planSeq,
                  ClosingSessions, CarriedPlans, PresentRoutes, releasing \cup {plans[p]})
        BY <1>a, <2>1, <2>d, Entries, BooksRefuse
      <3>3. PlanBooks'
        BY <1>7, <2>1, <2>3, <3>1, <3>2 DEF PlanBooks
      <3> QED BY <1>3, <2>1, <2>3, <3>3
    <2> QED BY <1>11, <2>2, <2>3 DEF TakePlan
  <1>12. ASSUME NEW c, NEW id, NEW t \in TokenIds, NEW w, TakeToken(c, id, t, w)
         PROVE  PlanBooks' /\ TokenBooks'
    <2>1. /\ undoTokens[t] # None /\ undoTokens' = [undoTokens EXCEPT ![t] = None]
          /\ heldUndo' = heldUndo \cup {undoTokens[t]}
          /\ UNCHANGED <<internalUndo, plans, internalPlans, held, planSeq, tokenSeq,
                         releasing, doomed, sessions>>
      BY <1>12 DEF TakeToken, registryVars
    <2>d. undoTokens' = Dropped(TokenIds, undoTokens, {t})
      <3>1. undoTokens \in [TokenIds -> StoredUndoToken \cup {None}]
        BY <1>b DEF Books, Identities
      <3> QED BY <2>1, <3>1 DEF Dropped
    <2>2. CASE AddRoute(c, id, "undo", w, None, undoTokens[t]) /\ UNCHANGED releasingUndo
      <3>1. /\ Len(routes) + 1 \notin DOMAIN CarriedTokens
            /\ DOMAIN CarriedTokens' = DOMAIN CarriedTokens \cup {Len(routes) + 1}
            /\ \A r \in DOMAIN CarriedTokens : CarriedTokens'[r] = CarriedTokens[r]
            /\ CarriedTokens'[Len(routes) + 1] = undoTokens[t]
            /\ PresentRoutes' = PresentRoutes \cup {Len(routes) + 1}
        BY <1>0, <2>2, AddCarriesToken
      <3>2. Books(TokenIds, StoredUndoToken, undoTokens', internalUndo, heldUndo \cup {undoTokens[t]},
                  tokenSeq, ClosingSessions, CarriedTokens', PresentRoutes \cup {Len(routes) + 1},
                  releasingUndo)
        BY <1>b, <2>1, <3>1, <2>d, Entries, BooksTake, ZenonT(60)
      <3>3. TokenBooks'
        BY <1>7, <2>1, <2>2, <3>1, <3>2 DEF TokenBooks
      <3> QED BY <1>8, <2>1, <2>2, <3>3
    <2>3. CASE releasingUndo' = releasingUndo \cup {undoTokens[t]} /\ UNCHANGED routes
      <3>1. CarriedTokens' = CarriedTokens /\ PresentRoutes' = PresentRoutes
        BY <1>d, <2>3
      <3>2. Books(TokenIds, StoredUndoToken, undoTokens', internalUndo, heldUndo \cup {undoTokens[t]},
                  tokenSeq, ClosingSessions, CarriedTokens, PresentRoutes,
                  releasingUndo \cup {undoTokens[t]})
        BY <1>b, <2>1, <2>d, Entries, BooksRefuse
      <3>3. TokenBooks'
        BY <1>7, <2>1, <2>3, <3>1, <3>2 DEF TokenBooks
      <3> QED BY <1>4, <2>1, <2>3, <3>3
    <2> QED BY <1>12, <2>2, <2>3 DEF TakeToken
  <1>13. ASSUME NEW s, NEW r, NEW kinds, AnswersActive(s, r, kinds), Deliver(r, "result")
         PROVE  Advance({r}) /\ r \in PresentRoutes /\ UNCHANGED <<releasing, releasingUndo>>
    <2>1. RemoveRoute(r, <<"result">>) /\ "result" \in Codes /\ UNCHANGED <<releasing, releasingUndo>>
      BY <1>13 DEF Deliver, Codes
    <2>2. r \in PresentRoutes /\ r \in DOMAIN routes /\ routes[r].state = "active"
      BY <1>13 DEF AnswersActive, Answers, PresentRoutes
    <2> QED BY <1>0, <2>1, <2>2, AdvanceRemoved
  <1>14. SweptPlans \subseteq LivePlans /\ SweptTokens \subseteq LiveTokens
    BY DEF SweptPlans, SweptTokens
  <1>15. ASSUME NEW s, NEW r \in DOMAIN routes, NEW plan \in StoredPlan, StorePlan(s, r, plan)
         PROVE  PlanBooks' /\ TokenBooks'
    <2> DEFINE i == planSeq + 1
               new == Issued(plan, i)
               e == Dropped(PlanIds, plans, SweptPlans)
               k == KeysLeft(internalPlans, plans, SweptPlans, {})
    <2>1. Advance({r}) /\ {r} \subseteq PresentRoutes /\ UNCHANGED <<releasing, releasingUndo>>
      BY <1>13, <1>15 DEF StorePlan
    <2>2. PlansOf({r}) = {} /\ TokensOf({r}) = {}
      BY <1>15, EntriesOf DEF StorePlan, AnswersActive, RouteInvariant, Carried
    <2>3. /\ Books(PlanIds, StoredPlan, e, k, held, planSeq,
                   ClosingSessions', CarriedPlans', PresentRoutes', releasing)
          /\ Books(TokenIds, StoredUndoToken, Dropped(TokenIds, undoTokens, SweptTokens),
                   KeysLeft(internalUndo, undoTokens, SweptTokens, {}), heldUndo,
                   tokenSeq, ClosingSessions', CarriedTokens', PresentRoutes', releasingUndo)
      <3>1. held \ {} = held /\ heldUndo \ {} = heldUndo
        OBVIOUS
      <3> QED BY <1>14, <2>1, <2>2, <3>1, BooksAdvance
    <2>4. planSeq \in Nat /\ i \in PlanIds /\ planSeq' = i
      BY <1>a, <1>15, StoreConstants DEF StorePlan, CreatePlan, PlanIds, Books, Identities
    <2>5. new \in StoredPlan /\ new.id = i /\ Key(new) = Key(plan)
      BY <2>4, IssuedPlan
    <2>6. Key(plan) \notin k /\ internalPlans' = k \cup {Key(plan)}
      BY <1>15 DEF StorePlan, CreatePlan, PlanKeysWithout, KeysLeft
    <2>7. plans' = Added(PlanIds, e, i, new)
      BY <1>15 DEF StorePlan, CreatePlan, Added, Dropped
    <2>8. /\ held' = held /\ heldUndo' = heldUndo /\ tokenSeq' = tokenSeq
          /\ undoTokens' = Dropped(TokenIds, undoTokens, SweptTokens)
          /\ internalUndo' = KeysLeft(internalUndo, undoTokens, SweptTokens, {})
      BY <1>15 DEF StorePlan, CreatePlan, Dropped, UndoKeysWithout, KeysLeft
    <2> HIDE DEF new, e, k
    <2>9. Books(PlanIds, StoredPlan, plans', k \cup {Key(new)}, held, i,
                ClosingSessions', CarriedPlans', PresentRoutes', releasing)
      BY <2>3, <2>4, <2>5, <2>6, <2>7, Entries, BooksStore
    <2>10. PlanBooks'
      BY <2>1, <2>4, <2>5, <2>6, <2>8, <2>9 DEF PlanBooks
    <2>11. TokenBooks'
      BY <2>1, <2>3, <2>8 DEF TokenBooks
    <2> QED BY <2>10, <2>11
  <1>16. ASSUME NEW s, NEW r \in DOMAIN routes, NEW token \in StoredUndoToken, StoreToken(s, r, token)
         PROVE  PlanBooks' /\ TokenBooks'
    <2> DEFINE i == tokenSeq + 1
               new == Issued(token, i)
               e == Dropped(TokenIds, undoTokens, SweptTokens)
               k == KeysLeft(internalUndo, undoTokens, SweptTokens, TokensOf({r}))
    <2>1. Advance({r}) /\ {r} \subseteq PresentRoutes /\ UNCHANGED <<releasing, releasingUndo>>
      BY <1>13, <1>16 DEF StoreToken
    <2>2. /\ Books(PlanIds, StoredPlan, Dropped(PlanIds, plans, SweptPlans),
                   KeysLeft(internalPlans, plans, SweptPlans, PlansOf({r})), held \ PlansOf({r}),
                   planSeq, ClosingSessions', CarriedPlans', PresentRoutes', releasing)
          /\ Books(TokenIds, StoredUndoToken, e, k, heldUndo \ TokensOf({r}),
                   tokenSeq, ClosingSessions', CarriedTokens', PresentRoutes', releasingUndo)
      BY <1>14, <2>1, BooksAdvance
    <2>3. tokenSeq \in Nat /\ i \in TokenIds /\ tokenSeq' = i
      BY <1>b, <1>16, StoreConstants DEF StoreToken, CreateUndoToken, TokenIds, Books, Identities
    <2>4. new \in StoredUndoToken /\ new.id = i /\ Key(new) = Key(token)
      BY <2>3, IssuedToken
    <2>5. Key(token) \notin k /\ internalUndo' = k \cup {Key(token)}
      BY <1>16 DEF StoreToken, CreateUndoToken, UndoKeysWithout, KeysLeft
    <2>6. undoTokens' = Added(TokenIds, e, i, new)
      BY <1>16 DEF StoreToken, CreateUndoToken, Added, Dropped
    <2>7. /\ heldUndo' = heldUndo \ TokensOf({r}) /\ held' = held \ PlansOf({r}) /\ planSeq' = planSeq
          /\ plans' = Dropped(PlanIds, plans, SweptPlans)
          /\ internalPlans' = KeysLeft(internalPlans, plans, SweptPlans, PlansOf({r}))
      BY <1>16 DEF StoreToken, CreateUndoToken, Dropped, PlanKeysWithout, KeysLeft
    <2> HIDE DEF new, e, k
    <2>8. Books(TokenIds, StoredUndoToken, undoTokens', k \cup {Key(new)}, heldUndo \ TokensOf({r}), i,
                ClosingSessions', CarriedTokens', PresentRoutes', releasingUndo)
      BY <2>2, <2>3, <2>4, <2>5, <2>6, Entries, BooksStore
    <2>9. TokenBooks'
      BY <2>1, <2>3, <2>4, <2>5, <2>7, <2>8 DEF TokenBooks
    <2>10. PlanBooks'
      BY <2>1, <2>2, <2>7 DEF PlanBooks
    <2> QED BY <2>9, <2>10
  <1> QED BY <1>1, <1>2, <1>5, <1>6, <1>10, <1>11, <1>12, <1>15, <1>16 DEF Shape

-----------------------------------------------------------------------------
(* The owners of stored entries.                                           *)

\* The sessions, author and workspace of an entry.
Party(x) ==
    /\ x.consumer \in ConsumerSessions /\ x.adapter \in AdapterSessions
    /\ x.author \in AdapterIds /\ x.workspace \in WorkspaceIds

\* The step does not invalidate entry x.
Spares(x) ==
    /\ \A s \in SessionIds : SessionClosed(s) => ~Involves(x, s)
    /\ \A s \in AdapterSessions, a \in AdapterIds : Unregister(s, a) => ~Involves(x, s)
    /\ \A s \in AdapterSessions, w \in WorkspaceIds, a \in AdapterIds :
            WorkspaceClosed(s, w, a) => x.workspace # w
    /\ \A s \in AdapterSessions, w \in WorkspaceIds, a \in AdapterIds, docs \in RootSets, e \in Epochs :
            RootsChanged(s, w, a, docs, e) => x.workspace # w

\* The owners of x are the same after the step.
KeepsOwners(x) ==
    /\ sessions'[x.consumer] = "open" /\ sessions'[x.adapter] = "open"
    /\ adapterBySession'[x.adapter] = adapterBySession[x.adapter]
    /\ AuthorRegistered(x)
        => /\ workspaces'[x.workspace] # None
           /\ workspaces'[x.workspace].adapter = workspaces[x.workspace].adapter
           /\ workspaces'[x.workspace].epoch = workspaces[x.workspace].epoch

\* An entry that is still stored was not invalidated.
LEMMA StoredSpared ==
    /\ \A p \in PlanIds : plans'[p] # None /\ plans'[p] = plans[p] => Spares(plans[p])
    /\ \A t \in TokenIds : undoTokens'[t] # None /\ undoTokens'[t] = undoTokens[t] => Spares(undoTokens[t])
PROOF
  <1>1. ASSUME NEW s, NEW rel, NEW relUndo, InvalidateSession(s, rel, relUndo)
        PROVE  /\ \A p \in PlanIds : plans'[p] # None /\ plans'[p] = plans[p] => ~Involves(plans[p], s)
               /\ \A t \in TokenIds : undoTokens'[t] # None /\ undoTokens'[t] = undoTokens[t]
                    => ~Involves(undoTokens[t], s)
    BY <1>1 DEF InvalidateSession, Retire, LivePlans, LiveTokens
  <1>2. ASSUME NEW w, InvalidateWorkspace(w)
        PROVE  /\ \A p \in PlanIds : plans'[p] # None /\ plans'[p] = plans[p] => plans[p].workspace # w
               /\ \A t \in TokenIds : undoTokens'[t] # None /\ undoTokens'[t] = undoTokens[t]
                    => undoTokens[t].workspace # w
    BY <1>2 DEF InvalidateWorkspace, Retire, LivePlans, LiveTokens
  <1>3. ASSUME NEW p \in PlanIds, plans'[p] # None, plans'[p] = plans[p] PROVE Spares(plans[p])
    BY <1>1, <1>2, <1>3 DEF Spares, SessionClosed, Unregister, WorkspaceClosed, RootsChanged
  <1>4. ASSUME NEW t \in TokenIds, undoTokens'[t] # None, undoTokens'[t] = undoTokens[t]
        PROVE  Spares(undoTokens[t])
    BY <1>1, <1>2, <1>4 DEF Spares, SessionClosed, Unregister, WorkspaceClosed, RootsChanged
  <1> QED BY <1>3, <1>4

\* Only an invalidation takes the owners of an entry away.
LEMMA OwnersStay ==
    ASSUME RegistryInvariant, [RouterNext]_vars, NEW x, Party(x), Owned(x), Spares(x)
    PROVE  KeepsOwners(x)
PROOF
  <1>0. /\ x.consumer \in SessionIds /\ x.adapter \in SessionIds
        /\ x.author \in AdapterIds /\ x.workspace \in WorkspaceIds
        /\ sessions[x.consumer] = "open" /\ sessions[x.adapter] = "open"
        /\ adapterBySession[x.adapter] # None
        /\ RegistryTypeOK
    BY DEF Party, Owned, IsOpen, SessionIds, RegistryInvariant
  <1>1. AuthorRegistered(x) => /\ workspaces[x.workspace] \in Workspace
                               /\ workspaces[x.workspace] # None
                               /\ workspaces[x.workspace].adapter = x.author
    BY <1>0 DEF Owned, RegistryTypeOK
  <1>2. ASSUME UNCHANGED registryVars PROVE KeepsOwners(x)
    BY <1>0, <1>1, <1>2 DEF KeepsOwners, registryVars
  <1>3. ASSUME UNCHANGED <<sessions, adapterBySession, workspaces>> PROVE KeepsOwners(x)
    BY <1>0, <1>1, <1>3 DEF KeepsOwners
  <1>4. ASSUME NEW a, RemoveAdapter(a), a # x.author
        PROVE  workspaces[x.workspace] # None /\ workspaces[x.workspace].adapter = x.author
                => workspaces'[x.workspace] = workspaces[x.workspace]
    BY <1>0, <1>4 DEF RemoveAdapter, WorkspacesOf
  <1>5. AuthorRegistered(x) => adapters[x.author] = x.adapter
    BY <1>0 DEF AuthorRegistered, RegistryInvariant, IndexesAgree
  <1>6. CASE SessionSteps
    <2>1. ASSUME NEW s \in SessionIds, SessionOpened(s) PROVE KeepsOwners(x)
      <3>1. /\ sessions' = [sessions EXCEPT ![s] = "open"]
            /\ UNCHANGED <<adapterBySession, workspaces>>
        BY <2>1 DEF SessionOpened, OpenSession
      <3> QED BY <1>0, <1>1, <3>1 DEF KeepsOwners, RegistryTypeOK
    <2>2. ASSUME NEW s \in SessionIds, SessionClosed(s) PROVE KeepsOwners(x)
      <3>1. x.consumer # s /\ x.adapter # s
        BY <2>2 DEF Spares, Involves
      <3>2. CloseSession(s)
        BY <2>2 DEF SessionClosed
      <3>3. sessions'[x.consumer] = "open" /\ sessions'[x.adapter] = "open"
        BY <1>0, <3>1, <3>2 DEF CloseSession, RegistryTypeOK
      <3>4. CASE adapterBySession[s] = None
        BY <1>0, <1>1, <3>2, <3>3, <3>4 DEF CloseSession, KeepsOwners
      <3>5. CASE adapterBySession[s] # None
        <4> DEFINE a == adapterBySession[s]
        <4>1. RemoveAdapter(a) /\ adapters[a] = s /\ a \in AdapterIds
          BY <1>0, <3>2, <3>5 DEF CloseSession, RegistryInvariant, IndexesAgree, RegistryTypeOK
        <4>2. adapterBySession'[x.adapter] = adapterBySession[x.adapter]
          BY <1>0, <3>1, <4>1 DEF RemoveAdapter, RegistryTypeOK
        <4>3. AuthorRegistered(x) => workspaces'[x.workspace] = workspaces[x.workspace]
          BY <1>1, <1>4, <1>5, <3>1, <4>1
        <4> QED BY <1>1, <3>3, <4>2, <4>3 DEF KeepsOwners
      <3> QED BY <3>4, <3>5
    <2>3. ASSUME NEW s \in AdapterSessions, NEW a \in AdapterIds, NEW ws \in SUBSET WorkspaceIds,
                 NEW docs \in RootSets, NEW e \in Epochs, NEW t \in TrustLevels,
                 NEW offer \in Offers, Register(s, a, ws, docs, e, t, offer)
          PROVE  KeepsOwners(x)
      <3>1. RegisterAdapter(s, a, ws, docs, e, t, offer)
        BY <2>3 DEF Register
      <3>2. adapterBySession[s] = None /\ \A w \in ws : workspaces[w] = None
        BY <3>1 DEF RegisterAdapter, RegisterRefusal
      <3>3. UNCHANGED sessions /\ adapterBySession'[x.adapter] = adapterBySession[x.adapter]
        BY <1>0, <3>1, <3>2 DEF RegisterAdapter, RegistryTypeOK
      <3>4. AuthorRegistered(x) => workspaces'[x.workspace] = workspaces[x.workspace]
        BY <1>0, <1>1, <3>1, <3>2 DEF RegisterAdapter
      <3> QED BY <1>0, <1>1, <3>3, <3>4 DEF KeepsOwners
    <2>4. ASSUME NEW s \in AdapterSessions, NEW a \in AdapterIds, Unregister(s, a) PROVE KeepsOwners(x)
      <3>1. x.adapter # s
        BY <2>4 DEF Spares, Involves
      <3>2. UnregisterAdapter(s, a)
        BY <2>4 DEF Unregister
      <3>3. adapters[a] = s /\ RemoveAdapter(a) /\ UNCHANGED sessions
        BY <3>2, BaseConstants, OwnershipMeansRegistered DEF UnregisterAdapter, SessionIds
      <3>4. adapterBySession'[x.adapter] = adapterBySession[x.adapter]
        BY <1>0, <3>1, <3>3 DEF RemoveAdapter, RegistryTypeOK
      <3>5. AuthorRegistered(x) => workspaces'[x.workspace] = workspaces[x.workspace]
        BY <1>1, <1>4, <1>5, <3>1, <3>3
      <3> QED BY <1>0, <1>1, <3>3, <3>4, <3>5 DEF KeepsOwners
    <2>5. ASSUME NEW s, ProtocolViolation(s) PROVE KeepsOwners(x)
      BY <1>2, <2>5 DEF ProtocolViolation
    <2> QED BY <1>6, <2>1, <2>2, <2>3, <2>4, <2>5 DEF SessionSteps
  <1>7. CASE NotificationSteps
    <2>1. ASSUME NEW s, NEW a, NEW c, CapabilitiesChanged(s, a, c) PROVE KeepsOwners(x)
      BY <1>3, <2>1 DEF CapabilitiesChanged, UpdateCapabilities
    <2>2. ASSUME NEW s, NEW w \in WorkspaceIds, NEW a, NEW docs, NEW e, NEW t,
                 WorkspaceOpened(s, w, a, docs, e, t)
          PROVE  KeepsOwners(x)
      <3>1. /\ workspaces[w] = None /\ UNCHANGED <<sessions, adapterBySession>>
            /\ workspaces' = [workspaces EXCEPT ![w] = NewWorkspace(a, docs, e, t)]
        BY <2>2 DEF WorkspaceOpened, OpenWorkspace, OpenWorkspaceRefusal
      <3>2. AuthorRegistered(x) => workspaces'[x.workspace] = workspaces[x.workspace]
        BY <1>0, <1>1, <3>1 DEF RegistryTypeOK
      <3> QED BY <1>0, <1>1, <3>1, <3>2 DEF KeepsOwners
    <2>3. ASSUME NEW s \in AdapterSessions, NEW w \in WorkspaceIds, NEW a \in AdapterIds,
                 WorkspaceClosed(s, w, a)
          PROVE  KeepsOwners(x)
      <3>1. x.workspace # w
        BY <2>3 DEF Spares
      <3>2. CASE CloseWorkspace(s, w, a)
        <4>1. UNCHANGED <<sessions, adapterBySession>> /\ workspaces'[x.workspace] = workspaces[x.workspace]
          BY <1>0, <3>1, <3>2 DEF CloseWorkspace, RegistryTypeOK
        <4> QED BY <1>0, <1>1, <4>1 DEF KeepsOwners
      <3> QED BY <1>2, <2>3, <3>2 DEF WorkspaceClosed
    <2>4. ASSUME NEW s \in AdapterSessions, NEW w \in WorkspaceIds, NEW a \in AdapterIds,
                 NEW docs \in RootSets, NEW e \in Epochs, RootsChanged(s, w, a, docs, e)
          PROVE  KeepsOwners(x)
      <3>1. x.workspace # w
        BY <2>4 DEF Spares
      <3>2. CASE UpdateWorkspaceRoots(s, w, a, docs, e)
        <4>1. UNCHANGED <<sessions, adapterBySession>> /\ workspaces'[x.workspace] = workspaces[x.workspace]
          BY <1>0, <3>1, <3>2 DEF UpdateWorkspaceRoots, RegistryTypeOK
        <4> QED BY <1>0, <1>1, <4>1 DEF KeepsOwners
      <3> QED BY <1>2, <2>4, <3>2 DEF RootsChanged
    <2>5. ASSUME UNCHANGED <<sessions, adapterBySession>>, NEW w \in WorkspaceIds, NEW new \in Workspace,
                 workspaces[w] # None, workspaces' = [workspaces EXCEPT ![w] = new],
                 new.adapter = workspaces[w].adapter, new.epoch = workspaces[w].epoch
          PROVE  KeepsOwners(x)
      <3>1. workspaces'[x.workspace] = IF x.workspace = w THEN new ELSE workspaces[x.workspace]
        BY <1>0, <2>5 DEF RegistryTypeOK
      <3>2. AuthorRegistered(x)
              => /\ workspaces'[x.workspace] # None
                 /\ workspaces'[x.workspace].adapter = workspaces[x.workspace].adapter
                 /\ workspaces'[x.workspace].epoch = workspaces[x.workspace].epoch
        BY <1>1, <2>5, <3>1, NoneIsNoWorkspace
      <3> QED BY <1>0, <2>5, <3>2 DEF KeepsOwners
    <2>6. ASSUME NEW s, NEW w \in WorkspaceIds, NEW st \in ReadinessStates, ReadinessChanged(s, w, st)
          PROVE  KeepsOwners(x)
      <3>1. CASE UpdateWorkspaceStatus(s, w, st)
        <4> DEFINE new == [workspaces[w] EXCEPT !.state = st]
        <4>1. workspaces[w] \in Workspace /\ workspaces[w] # None
          BY <1>0, <3>1 DEF RegistryTypeOK, UpdateWorkspaceStatus, WorkspaceOwnership
        <4>2. new \in Workspace /\ new.adapter = workspaces[w].adapter /\ new.epoch = workspaces[w].epoch
          BY <4>1 DEF Workspace
        <4>3. workspaces' = [workspaces EXCEPT ![w] = new] /\ UNCHANGED <<sessions, adapterBySession>>
          BY <3>1 DEF UpdateWorkspaceStatus
        <4> HIDE DEF new
        <4> QED BY <2>5, <4>1, <4>2, <4>3
      <3> QED BY <1>2, <2>6, <3>1 DEF ReadinessChanged
    <2>7. ASSUME NEW s, NEW w \in WorkspaceIds, NEW a, NEW t \in TrustLevels, TrustChanged(s, w, a, t)
          PROVE  KeepsOwners(x)
      <3>1. CASE UpdateWorkspaceTrust(s, w, a, t)
        <4> DEFINE new == [workspaces[w] EXCEPT !.trusted = t]
        <4>1. workspaces[w] \in Workspace /\ workspaces[w] # None
          BY <1>0, <3>1 DEF RegistryTypeOK, UpdateWorkspaceTrust, NamedWorkspaceRefusal
        <4>2. new \in Workspace /\ new.adapter = workspaces[w].adapter /\ new.epoch = workspaces[w].epoch
          BY <4>1 DEF Workspace
        <4>3. workspaces' = [workspaces EXCEPT ![w] = new] /\ UNCHANGED <<sessions, adapterBySession>>
          BY <3>1 DEF UpdateWorkspaceTrust
        <4> HIDE DEF new
        <4> QED BY <2>5, <4>1, <4>2, <4>3
      <3> QED BY <1>2, <2>7, <3>1 DEF TrustChanged
    <2>8. ASSUME NEW s, NEW w, NEW ds, NEW rev, DocumentsTouched(s, w, ds, rev) PROVE KeepsOwners(x)
      BY <1>2, <2>8 DEF DocumentsTouched
    <2> QED BY <1>7, <2>1, <2>2, <2>3, <2>4, <2>6, <2>7, <2>8 DEF NotificationSteps
  <1> QED BY <1>2, <1>6, <1>7, OthersKeepRegistry DEF RouterNext, vars

\* What is stored after a step was stored before it, or is what an answer brought.
LEMMA StoredAfter ==
    ASSUME StoreTypes, RouteInvariant, Shape
    PROVE  /\ \A p \in PlanIds : plans'[p] # None =>
                \/ plans'[p] = plans[p]
                \/ \E s \in AdapterSessions, r \in DOMAIN routes, plan \in StoredPlan :
                        StorePlan(s, r, plan) /\ plans'[p] = Issued(plan, p)
           /\ \A t \in TokenIds : undoTokens'[t] # None =>
                \/ undoTokens'[t] = undoTokens[t]
                \/ \E s \in AdapterSessions, r \in DOMAIN routes, token \in StoredUndoToken :
                        StoreToken(s, r, token) /\ undoTokens'[t] = Issued(token, t)
PROOF
  <1> DEFINE Kept == /\ \A p \in PlanIds : plans'[p] # None => plans'[p] = plans[p]
                     /\ \A t \in TokenIds : undoTokens'[t] # None => undoTokens'[t] = undoTokens[t]
  <1>1. ASSUME NEW ps, NEW ts, NEW rel, NEW relUndo, Retire(ps, ts, rel, relUndo) PROVE Kept
    BY <1>1 DEF Retire
  <1>2. CASE DropStep
    BY <1>1, <1>2 DEF DropStep
  <1>3. ASSUME NEW r \in DOMAIN routes, SendFailed(r) PROVE Kept
    BY <1>1, <1>3 DEF SendFailed, ReleaseRoute, Release
  <1>4. ASSUME NEW x, FinishRefusedPlan(x) PROVE Kept
    BY <1>1, <1>4 DEF FinishRefusedPlan, Release
  <1>5. ASSUME NEW x, FinishRefusedUndo(x) PROVE Kept
    BY <1>1, <1>5 DEF FinishRefusedUndo, Release
  <1>6. ASSUME NEW c, NEW id, NEW kind, NEW w, AskStep(c, id, kind, w) PROVE Kept
    BY <1>6 DEF AskStep, storeVars, entryVars
  <1>7. ASSUME NEW c, NEW id, NEW kind, NEW p, NEW w, TakePlan(c, id, kind, p, w) PROVE Kept
    BY <1>7 DEF TakePlan, CheckOut, StoreTypes
  <1>8. ASSUME NEW c, NEW id, NEW t, NEW w, TakeToken(c, id, t, w) PROVE Kept
    BY <1>8 DEF TakeToken, StoreTypes
  <1>9. ASSUME NEW s, NEW r, NEW plan, StorePlan(s, r, plan)
        PROVE  /\ \A p \in PlanIds : plans'[p] # None => plans'[p] = plans[p] \/ plans'[p] = Issued(plan, p)
               /\ \A t \in TokenIds : undoTokens'[t] # None => undoTokens'[t] = undoTokens[t]
    BY <1>9 DEF StorePlan, CreatePlan
  <1>10. ASSUME NEW s, NEW r, NEW token, StoreToken(s, r, token)
         PROVE  /\ \A p \in PlanIds : plans'[p] # None => plans'[p] = plans[p]
                /\ \A t \in TokenIds : undoTokens'[t] # None
                        => undoTokens'[t] = undoTokens[t] \/ undoTokens'[t] = Issued(token, t)
    BY <1>10 DEF StoreToken, CreateUndoToken
  <1>11. CASE \E s \in AdapterSessions, r \in DOMAIN routes, plan \in StoredPlan : StorePlan(s, r, plan)
    BY <1>9, <1>11
  <1>12. CASE \E s \in AdapterSessions, r \in DOMAIN routes, token \in StoredUndoToken :
                StoreToken(s, r, token)
    BY <1>10, <1>12
  <1>13. CASE Kept
    BY <1>13
  <1> HIDE DEF Kept
  <1> QED BY <1>2, <1>3, <1>4, <1>5, <1>6, <1>7, <1>8, <1>11, <1>12, <1>13 DEF Shape

\* The owners of entry x after the step, and the epoch of its workspace.
OwnedAfter(x) ==
    /\ sessions'[x.consumer] = "open" /\ sessions'[x.adapter] = "open"
    /\ adapterBySession'[x.adapter] # None
    /\ adapterBySession'[x.adapter] = x.author
        => workspaces'[x.workspace] # None /\ workspaces'[x.workspace].adapter = x.author

EpochAfter(x) ==
    adapterBySession'[x.adapter] = x.author => workspaces'[x.workspace].epoch = x.epoch

\* Every step keeps the owners of what is stored.
LEMMA OwnersKept ==
    ASSUME RegistryInvariant, RouteInvariant, StoreTypes, OwnersInvariant, now \in Times, Shape,
           [RouterNext]_vars
    PROVE  OwnersInvariant'
PROOF
  <1>1. ASSUME NEW x, Party(x), Owned(x), Spares(x)
        PROVE  /\ OwnedAfter(x)
               /\ (AuthorRegistered(x) => workspaces[x.workspace].epoch = x.epoch) => EpochAfter(x)
    <2>1. KeepsOwners(x)
      BY <1>1, OwnersStay
    <2> QED BY <1>1, <2>1 DEF KeepsOwners, Owned, OwnedAfter, EpochAfter, AuthorRegistered
  <1>2. ASSUME NEW s, NEW r \in DOMAIN routes, NEW x, Brought(s, r, x),
               AnswersActive(s, r, {"prepare"}) \/ AnswersActive(s, r, {"apply", "undo"}),
               UNCHANGED registryVars
        PROVE  /\ OwnedAfter(x)
               /\ workspaces'[x.workspace].epoch = workspaces[x.workspace].epoch
    <2>1. /\ IsOpen(routes[r].adapter) /\ IsOpen(routes[r].consumer)
          /\ adapterBySession[routes[r].adapter] # None
          /\ routes[r].adapter = s
      BY <1>2 DEF RouteInvariant, Connected, AnswersActive, Answers
    <2> QED BY <1>2, <2>1 DEF Brought, OwnedAfter, IsOpen, registryVars
  <1>3. ASSUME NEW p \in PlanIds, plans'[p] # None
        PROVE  OwnedAfter(plans'[p]) /\ EpochAfter(plans'[p])
    <2>1. CASE plans'[p] = plans[p]
      <3>1. plans[p] \in StoredPlan /\ p \in LivePlans
        BY <1>3, <2>1 DEF StoreTypes, LivePlans
      <3>2. /\ Party(plans[p]) /\ Owned(plans[p]) /\ Spares(plans[p])
            /\ AuthorRegistered(plans[p]) => workspaces[plans[p].workspace].epoch = plans[p].epoch
        BY <1>3, <2>1, <3>1, StoredSpared DEF StoredPlan, Party, OwnersInvariant
      <3>3. OwnedAfter(plans[p]) /\ EpochAfter(plans[p])
        BY <1>1, <3>2
      <3> QED BY <2>1, <3>3
    <2>2. ASSUME NEW s \in AdapterSessions, NEW r \in DOMAIN routes, NEW plan \in StoredPlan,
                 StorePlan(s, r, plan), plans'[p] = Issued(plan, p)
          PROVE  OwnedAfter(plans'[p]) /\ EpochAfter(plans'[p])
      <3>1. OwnedAfter(plan) /\ workspaces'[plan.workspace].epoch = plan.epoch
        BY <1>2, <2>2 DEF StorePlan, Deliver
      <3> QED BY <2>2, <3>1, IssuedPlan DEF OwnedAfter, EpochAfter
    <2> QED BY <1>3, <2>1, <2>2, StoredAfter
  <1>4. ASSUME NEW t \in TokenIds, undoTokens'[t] # None PROVE OwnedAfter(undoTokens'[t])
    <2>1. CASE undoTokens'[t] = undoTokens[t]
      <3>1. undoTokens[t] \in StoredUndoToken /\ t \in LiveTokens
        BY <1>4, <2>1 DEF StoreTypes, LiveTokens
      <3>2. Party(undoTokens[t]) /\ Owned(undoTokens[t]) /\ Spares(undoTokens[t])
        BY <1>4, <2>1, <3>1, StoredSpared DEF StoredUndoToken, Party, OwnersInvariant
      <3>3. OwnedAfter(undoTokens[t])
        BY <1>1, <3>2
      <3> QED BY <2>1, <3>3
    <2>2. ASSUME NEW s \in AdapterSessions, NEW r \in DOMAIN routes, NEW token \in StoredUndoToken,
                 StoreToken(s, r, token), undoTokens'[t] = Issued(token, t)
          PROVE  OwnedAfter(undoTokens'[t])
      <3>1. OwnedAfter(token)
        BY <1>2, <2>2 DEF StoreToken, Deliver
      <3> QED BY <2>2, <3>1, IssuedToken DEF OwnedAfter
    <2> QED BY <1>4, <2>1, <2>2, StoredAfter
  <1> QED BY <1>3, <1>4
        DEF OwnersInvariant, LivePlans, LiveTokens, OwnedAfter, EpochAfter, Owned, IsOpen, AuthorRegistered

-----------------------------------------------------------------------------
(* The inductive invariant of the router, and its theorems.                *)

RouterInvariant ==
    /\ RegistryInvariant
    /\ RouteInvariant
    /\ PlanBooks
    /\ TokenBooks
    /\ OwnersInvariant
    /\ now \in Times

\* The books give the store its types.
LEMMA BooksTyped == PlanBooks /\ TokenBooks => StoreTypes
  BY DEF PlanBooks, TokenBooks, Books, Identities, StoreTypes

\* The router starts with no route, empty books and no entry.
LEMMA RouterStarts == RouterInit => RouterInvariant
PROOF
  <1> SUFFICES ASSUME RouterInit PROVE RouterInvariant
    OBVIOUS
  <1>1. RegistryInvariant
    BY InitInvariant DEF RouterInit
  <1>2. routes = << >> /\ DOMAIN routes = {}
    BY DEF RouterInit
  <1>3. RouteInvariant
    BY <1>2, RouterConstants DEF RouteInvariant
  <1>4. CarriedPlans = << >> /\ CarriedTokens = << >> /\ PresentRoutes = {}
    BY <1>2 DEF CarriedPlans, CarriedTokens, PresentRoutes
  <1>5. PlanBooks
    BY <1>4 DEF RouterInit, StoreInit, PlanBooks, Books, Identities, Keys, Carriers, Live, Out
  <1>6. TokenBooks
    BY <1>4 DEF RouterInit, StoreInit, TokenBooks, Books, Identities, Keys, Carriers, Live, Out
  <1>7. OwnersInvariant
    BY DEF RouterInit, StoreInit, OwnersInvariant, LivePlans, LiveTokens
  <1>8. now \in Times
    BY StoreConstants DEF RouterInit, StoreInit, Times
  <1> QED BY <1>1, <1>3, <1>5, <1>6, <1>7, <1>8 DEF RouterInvariant

\* Every step keeps it.
LEMMA RouterSteps ==
    ASSUME RouterInvariant, [RouterNext]_vars
    PROVE  RouterInvariant'
PROOF
  <1>0. /\ RegistryInvariant /\ RouteInvariant /\ PlanBooks /\ TokenBooks /\ OwnersInvariant
        /\ now \in Times /\ StoreTypes /\ RegistryTypeOK
    BY BooksTyped DEF RouterInvariant, RegistryInvariant
  <1>1. RegistryInvariant'
    BY <1>0, RouterCallsRegistry, StepKeepsInvariant
  <1>2. RouteInvariant'
    BY <1>0, RouteInvariantKept
  <1>3. Shape /\ ClosingSessions \subseteq ClosingSessions'
    BY <1>0, StepShapes, ClosingGrows
  <1>4. PlanBooks' /\ TokenBooks'
    BY <1>0, <1>3, BooksKept
  <1>5. OwnersInvariant'
    BY <1>0, <1>3, OwnersKept
  <1>6. now' \in Times
    BY <1>0, TimeKept
  <1> QED BY <1>1, <1>2, <1>4, <1>5, <1>6 DEF RouterInvariant

\* The registry, the routes, the books and the owners stay consistent in every
\* interleaving of sessions, notifications, requests, answers, timers and sends.
THEOREM RouterInvariantAlways == RouterSpec => []RouterInvariant
  BY RouterStarts, RouterSteps, PTL DEF RouterSpec

\* No plan or token that left the store is forgotten: it is in #routes, or a
\* refusal being sent will release it.
THEOREM RouterHolds == RouterSpec => []HeldByRoutes
PROOF
  <1>1. RouterInvariant => HeldByRoutes
    <2> SUFFICES ASSUME RouterInvariant PROVE HeldByRoutes
      OBVIOUS
    <2>1. held \subseteq PlansOf(PresentRoutes) \cup releasing /\ PlansOf(PresentRoutes) \subseteq held
      BY RoutesNow, Entries DEF RouterInvariant, PlanBooks, Books, Identities, Carriers, PlansOf
    <2>2. /\ heldUndo \subseteq TokensOf(PresentRoutes) \cup releasingUndo
          /\ TokensOf(PresentRoutes) \subseteq heldUndo
      BY RoutesNow, Entries DEF RouterInvariant, TokenBooks, Books, Identities, Carriers, TokensOf
    <2> QED BY <2>1, <2>2 DEF HeldByRoutes
  <1> QED BY <1>1, RouterInvariantAlways, PTL

\* The entries out of the books are the outstanding ones.
LEMMA OutstandingInBooks ==
    /\ Out(PlanIds, plans, held) = OutstandingPlans
    /\ Out(TokenIds, undoTokens, heldUndo) = OutstandingTokens
  BY DEF Out, Live, OutstandingPlans, OutstandingTokens, LivePlans, LiveTokens

\* What the books say of the outstanding entries.
LEMMA OutstandingKeys ==
    ASSUME RouterInvariant
    PROVE  /\ OutstandingPlans \subseteq StoredPlan
           /\ OutstandingTokens \subseteq StoredUndoToken
           /\ Keys(PlanIds, plans, internalPlans, held, ClosingSessions)
           /\ Keys(TokenIds, undoTokens, internalUndo, heldUndo, ClosingSessions)
           /\ \A x \in OutstandingPlans \cup OutstandingTokens :
                    x.adapter \in ClosingSessions <=> Closing(x.adapter)
PROOF
  <1>1. OutstandingPlans \subseteq StoredPlan
    BY DEF RouterInvariant, PlanBooks, Books, Identities, OutstandingPlans, LivePlans
  <1>2. OutstandingTokens \subseteq StoredUndoToken
    BY DEF RouterInvariant, TokenBooks, Books, Identities, OutstandingTokens, LiveTokens
  <1>3. \A x \in OutstandingPlans \cup OutstandingTokens : x.adapter \in AdapterSessions
    BY <1>1, <1>2 DEF StoredPlan, StoredUndoToken
  <1> QED BY <1>1, <1>2, <1>3 DEF RouterInvariant, PlanBooks, TokenBooks, Books, ClosingSessions

\* While a connection serves, the identifiers of its stored and in-flight plans and
\* tokens are reserved, and no others are.
THEOREM RouterReserves == RouterSpec => []ReservedWhileInFlight
PROOF
  <1>1. RouterInvariant => ReservedWhileInFlight
    BY OutstandingKeys, OutstandingInBooks DEF Keys, ReservedWhileInFlight
  <1> QED BY <1>1, RouterInvariantAlways, PTL

\* While a connection serves, an identifier of its adapter means one plan or token.
THEOREM RouterMeaning == RouterSpec => []OneMeaningWhileServing
PROOF
  <1>1. RouterInvariant => OneMeaningWhileServing
    BY OutstandingKeys, OutstandingInBooks DEF Keys, OneMeaningWhileServing
  <1> QED BY <1>1, RouterInvariantAlways, PTL

\* No public plan or token is forwarded twice, whatever became of the request.
THEOREM RouterForwardsOnce == RouterSpec => []ForwardedOnce
PROOF
  <1>1. RouterInvariant => ForwardedOnce
    <2> SUFFICES ASSUME RouterInvariant, NEW q \in DOMAIN routes, NEW r \in DOMAIN routes
                 PROVE  /\ routes[q].plan # None /\ routes[r].plan # None
                             /\ routes[q].plan.id = routes[r].plan.id => q = r
                        /\ routes[q].token # None /\ routes[r].token # None
                             /\ routes[q].token.id = routes[r].token.id => q = r
      BY DEF ForwardedOnce
    <2>1. /\ routes[q].plan # None /\ routes[r].plan # None /\ routes[q].plan.id = routes[r].plan.id
             => q = r
      <3>1. \A m, n \in DOMAIN CarriedPlans :
                CarriedPlans[m] # None /\ CarriedPlans[n] # None /\ CarriedPlans[m].id = CarriedPlans[n].id
                    => m = n
        BY DEF RouterInvariant, PlanBooks, Books, Carriers
      <3> QED BY <3>1, RoutesNow
    <2>2. /\ routes[q].token # None /\ routes[r].token # None /\ routes[q].token.id = routes[r].token.id
             => q = r
      <3>1. \A m, n \in DOMAIN CarriedTokens :
                CarriedTokens[m] # None /\ CarriedTokens[n] # None /\ CarriedTokens[m].id = CarriedTokens[n].id
                    => m = n
        BY DEF RouterInvariant, TokenBooks, Books, Carriers
      <3> QED BY <3>1, RoutesNow
    <2> QED BY <2>1, <2>2
  <1> QED BY <1>1, RouterInvariantAlways, PTL

\* A result is the first answer of its request, or no answer at all.
THEOREM RouterResultFirst == RouterSpec => []ResultOnlyFirst
PROOF
  <1>1. RouterInvariant => ResultOnlyFirst
    BY DEF RouterInvariant, RouteInvariant, Answered, ResultOnlyFirst
  <1> QED BY <1>1, RouterInvariantAlways, PTL

\* What is forwarded reaches the adapter session that holds it, for the consumer
\* that prepared it.
THEOREM RouterForwardsToItsAdapter == RouterSpec => []ForwardedToItsAdapter
PROOF
  <1>1. RouterInvariant => ForwardedToItsAdapter
    BY DEF RouterInvariant, RouteInvariant, Matches, ForwardedToItsAdapter
  <1> QED BY <1>1, RouterInvariantAlways, PTL

\* No request waits for a session that is gone.
THEOREM RouterRoutesConnected == RouterSpec => []ActiveRoutesConnected
PROOF
  <1>1. RouterInvariant => ActiveRoutesConnected
    BY DEF RouterInvariant, RouteInvariant, Connected, ActiveRoutesConnected, PresentRoutes
  <1> QED BY <1>1, RouterInvariantAlways, PTL

\* A stored plan or token has living owners that can still use it.
THEOREM RouterOwners == RouterSpec => []PlanOwnersAlive
PROOF
  <1>1. RouterInvariant => PlanOwnersAlive
    <2> SUFFICES ASSUME RouterInvariant PROVE PlanOwnersAlive
      OBVIOUS
    <2>1. ASSUME NEW x, x \in StoredPlan \cup StoredUndoToken, Owned(x), AuthorRegistered(x)
          PROVE  ~StoredAdapterGone(x.adapter, x.workspace)
      <3>1. x.adapter \in SessionIds /\ x.author \in AdapterIds /\ x.author # None
        BY <2>1 DEF StoredPlan, StoredUndoToken, SessionIds, Owned, AuthorRegistered
      <3>2. adapters[x.author] = x.adapter
        BY <2>1, <3>1 DEF RouterInvariant, RegistryInvariant, IndexesAgree, AuthorRegistered
      <3>3. adapters[x.author] # None
        <4>1. workspaces[x.workspace] # None /\ workspaces[x.workspace].adapter = x.author
              /\ x.workspace \in WorkspaceIds
          BY <2>1 DEF Owned, StoredPlan, StoredUndoToken
        <4> QED BY <4>1 DEF RouterInvariant, RegistryInvariant, OwnersRegistered
      <3> QED BY <2>1, <3>2, <3>3 DEF StoredAdapterGone, WorkspaceConnectionRefusal, OwnerSession, Owned
    <2>2. /\ \A p \in LivePlans : plans[p] \in StoredPlan
          /\ \A t \in LiveTokens : undoTokens[t] \in StoredUndoToken
      BY BooksTyped DEF RouterInvariant, StoreTypes, LivePlans, LiveTokens
    <2> QED BY <2>1, <2>2 DEF RouterInvariant, OwnersInvariant, Owned, PlanOwnersAlive
  <1> QED BY <1>1, RouterInvariantAlways, PTL

-----------------------------------------------------------------------------
(* The reasons kept for plans gone stale.                                  *)

\* A list of plan identifiers, of plans that are gone and were created.
Reasoned ==
    /\ reasons \in Seq(PlanIds)
    /\ ReasonsSound
    /\ \A i \in DOMAIN reasons : reasons[i] <= planSeq

\* No element twice.
Distinct(seq) == \A i, j \in DOMAIN seq : seq[i] = seq[j] => i = j

\* The list without its i-th element.
Without(seq, i) == SubSeq(seq, 1, i - 1) \o SubSeq(seq, i + 1, Len(seq))

\* A reason is reported once and forgotten.
LEMMA ReasonTaken ==
    ASSUME NEW S, NEW seq \in Seq(S), Distinct(seq), NEW i \in DOMAIN seq
    PROVE  LET rest == Without(seq, i)
           IN  /\ rest \in Seq(S) /\ Distinct(rest) /\ Len(rest) <= Len(seq)
               /\ \A k \in DOMAIN rest : \E j \in DOMAIN seq : rest[k] = seq[j]
PROOF
  <1> DEFINE m == Len(seq)
             a == SubSeq(seq, 1, i - 1)
             b == SubSeq(seq, i + 1, m)
             rest == Without(seq, i)
             old(k) == IF k < i THEN k ELSE k + 1
  <1>1. m \in Nat /\ i \in 1 .. m /\ DOMAIN seq = 1 .. m /\ \A k \in 1 .. m : seq[k] \in S
    OBVIOUS
  <1> HIDE DEF m, rest
  <1>2. a \in Seq(S) /\ Len(a) = i - 1 /\ \A k \in 1 .. (i - 1) : a[k] = seq[k]
    <2>1. 1 \in Int /\ i - 1 \in Int /\ \A k \in 1 .. (i - 1) : seq[k] \in S
      BY <1>1
    <2>2. /\ a \in Seq(S) /\ Len(a) = IF 1 <= i - 1 THEN (i - 1) - 1 + 1 ELSE 0
          /\ \A k \in 1 .. (i - 1) - 1 + 1 : a[k] = seq[1 + k - 1]
      BY <2>1, SubSeqProperties
    <2> HIDE DEF a
    <2> QED BY <1>1, <2>2
  <1>3. b \in Seq(S) /\ Len(b) = m - i /\ \A k \in 1 .. (m - i) : b[k] = seq[k + i]
    <2>1. i + 1 \in Int /\ m \in Int /\ \A k \in (i + 1) .. m : seq[k] \in S
      BY <1>1
    <2>2. /\ b \in Seq(S) /\ Len(b) = IF i + 1 <= m THEN m - (i + 1) + 1 ELSE 0
          /\ \A k \in 1 .. m - (i + 1) + 1 : b[k] = seq[(i + 1) + k - 1]
      BY <2>1, SubSeqProperties
    <2> HIDE DEF b
    <2>3. Len(b) = m - i /\ m - (i + 1) + 1 = m - i
      BY <1>1, <2>2
    <2>4. \A k \in 1 .. (m - i) : (i + 1) + k - 1 = k + i
      BY <1>1
    <2> QED BY <2>2, <2>3, <2>4
  <1>4. /\ rest \in Seq(S) /\ Len(rest) = m - 1
        /\ \A k \in 1 .. (m - 1) : rest[k] = seq[old(k)]
    <2>1. /\ rest \in Seq(S) /\ Len(rest) = Len(a) + Len(b)
          /\ \A k \in 1 .. Len(a) + Len(b) : rest[k] = IF k <= Len(a) THEN a[k] ELSE b[k - Len(a)]
      <3> HIDE DEF a, b
      <3>1. rest = a \o b
        BY DEF rest, Without, a, b, m
      <3> QED BY <1>2, <1>3, <3>1, ConcatProperties
    <2> HIDE DEF a, b
    <2>2. Len(a) + Len(b) = m - 1
      BY <1>1, <1>2, <1>3
    <2>3. ASSUME NEW k \in 1 .. (m - 1) PROVE rest[k] = seq[old(k)]
      <3>1. CASE k < i
        BY <1>1, <1>2, <2>1, <2>2, <3>1
      <3>2. CASE ~(k < i)
        <4>1. k - (i - 1) \in 1 .. (m - i) /\ (k - (i - 1)) + i = k + 1
          BY <1>1, <3>2
        <4>2. rest[k] = b[k - (i - 1)]
          BY <1>1, <1>2, <2>1, <2>2, <3>2
        <4> QED BY <1>3, <3>2, <4>1, <4>2
      <3> QED BY <3>1, <3>2
    <2> QED BY <2>1, <2>2, <2>3
  <1>5. /\ \A k \in 1 .. (m - 1) : old(k) \in DOMAIN seq
        /\ \A k, n \in 1 .. (m - 1) : old(k) = old(n) => k = n
    BY <1>1
  <1> HIDE DEF old
  <1>6. DOMAIN rest = 1 .. (m - 1) /\ Len(rest) <= m
    BY <1>1, <1>4
  <1>7. Distinct(rest)
    BY <1>4, <1>5, <1>6 DEF Distinct
  <1> QED BY <1>4, <1>5, <1>6, <1>7 DEF m, rest

\* The plans ps are remembered last, and the oldest make room.
LEMMA ReasonsRemembered ==
    ASSUME reasons \in Seq(PlanIds), Distinct(reasons), NEW ps \in SUBSET PlanIds,
           \A i \in DOMAIN reasons : reasons[i] \notin ps, Remember(ps)
    PROVE  /\ reasons' \in Seq(PlanIds) /\ Distinct(reasons') /\ Len(reasons') <= MaxRememberedInvalidations
           /\ \A k \in DOMAIN reasons' : reasons'[k] \in ps \/ \E j \in DOMAIN reasons : reasons'[k] = reasons[j]
PROOF
  <1> DEFINE n == Cardinality(ps)
             max == MaxRememberedInvalidations
  <1>1. n \in Nat /\ max \in Nat
    <2>1. IsFiniteSet(ps)
      <3>1. 1 \in Int /\ MaxPlans \in Int
        BY StoreConstants
      <3>2. IsFiniteSet(PlanIds)
        BY <3>1, FS_Interval DEF PlanIds
      <3> QED BY <3>2, FS_Subset
    <2> QED BY <2>1, FS_CardinalityType, StoreConstants
  <1>2. PICK new \in InCreationOrder(ps) :
            LET all == reasons \o new
            IN  reasons' = IF Len(all) <= max THEN all ELSE SubSeq(all, Len(all) - max + 1, Len(all))
    BY DEF Remember
  <1> HIDE DEF n, max
  <1>3. new \in Seq(PlanIds) /\ Len(new) = n /\ DOMAIN new = 1 .. n /\ \A k \in 1 .. n : new[k] \in ps
    <2>1. new \in [1 .. n -> ps]
      BY <1>2 DEF InCreationOrder, n
    <2> QED BY <1>1, <2>1
  <1>4. Distinct(new)
    <2>1. \A i, j \in DOMAIN new : i < j => new[i] < new[j]
      BY <1>2 DEF InCreationOrder
    <2>2. \A i \in DOMAIN new : new[i] \in Nat
      BY <1>3, StoreConstants DEF PlanIds
    <2> QED BY <1>1, <1>3, <2>1, <2>2 DEF Distinct
  <1> DEFINE all == reasons \o new
  <1>5. /\ all \in Seq(PlanIds) /\ Len(all) = Len(reasons) + n /\ Len(reasons) \in Nat
        /\ DOMAIN reasons = 1 .. Len(reasons) /\ DOMAIN all = 1 .. (Len(reasons) + n)
        /\ \A k \in DOMAIN all :
              all[k] = IF k <= Len(reasons) THEN reasons[k] ELSE new[k - Len(reasons)]
    BY <1>1, <1>3
  <1>6. reasons' = IF Len(all) <= max THEN all ELSE SubSeq(all, Len(all) - max + 1, Len(all))
    BY <1>2
  <1> HIDE DEF all
  <1>7. \A k \in DOMAIN all : all[k] \in ps \/ \E j \in DOMAIN reasons : all[k] = reasons[j]
    <2> SUFFICES ASSUME NEW k \in DOMAIN all
                 PROVE  all[k] \in ps \/ \E j \in DOMAIN reasons : all[k] = reasons[j]
      OBVIOUS
    <2>1. CASE k <= Len(reasons)
      BY <1>1, <1>5, <2>1
    <2>2. CASE ~(k <= Len(reasons))
      <3>1. k - Len(reasons) \in 1 .. n
        BY <1>1, <1>5, <2>2
      <3> QED BY <1>3, <1>5, <2>2, <3>1
    <2> QED BY <2>1, <2>2
  <1>8. Distinct(all)
    <2> SUFFICES ASSUME NEW i \in DOMAIN all, NEW j \in DOMAIN all, all[i] = all[j] PROVE i = j
      BY DEF Distinct
    <2>1. ASSUME NEW k \in DOMAIN all, ~(k <= Len(reasons))
          PROVE  k - Len(reasons) \in DOMAIN new /\ all[k] = new[k - Len(reasons)] /\ all[k] \in ps
      <3>1. k - Len(reasons) \in 1 .. n
        BY <1>1, <1>5, <2>1
      <3> QED BY <1>3, <1>5, <2>1, <3>1
    <2>2. ASSUME NEW k \in DOMAIN all, k <= Len(reasons)
          PROVE  k \in DOMAIN reasons /\ all[k] = reasons[k] /\ all[k] \notin ps
      BY <1>1, <1>5, <2>2
    <2>3. CASE i <= Len(reasons) /\ j <= Len(reasons)
      BY <2>2, <2>3 DEF Distinct
    <2>4. CASE ~(i <= Len(reasons)) /\ ~(j <= Len(reasons))
      <3>1. i - Len(reasons) = j - Len(reasons)
        BY <1>4, <2>1, <2>4 DEF Distinct
      <3> QED BY <1>1, <1>5, <3>1
    <2> QED BY <2>1, <2>2, <2>3, <2>4
  <1>9. CASE Len(all) <= max
    BY <1>5, <1>6, <1>7, <1>8, <1>9 DEF max
  <1>10. CASE ~(Len(all) <= max)
    <2> DEFINE cut == Len(all) - max
    <2>1. cut \in Nat /\ cut + max = Len(all) /\ Len(all) \in Nat
      BY <1>1, <1>5, <1>10
    <2>2. /\ reasons' \in Seq(PlanIds) /\ Len(reasons') = max /\ DOMAIN reasons' = 1 .. max
          /\ \A k \in 1 .. max : k + cut \in DOMAIN all /\ reasons'[k] = all[k + cut]
      BY <1>1, <1>5, <1>6, <1>10, <2>1
    <2> HIDE DEF cut
    <2>3. Distinct(reasons')
      <3> SUFFICES ASSUME NEW i \in 1 .. max, NEW j \in 1 .. max, reasons'[i] = reasons'[j] PROVE i = j
        BY <2>2 DEF Distinct
      <3>1. i + cut = j + cut
        BY <1>8, <2>2 DEF Distinct
      <3> QED BY <1>1, <2>1, <3>1
    <2> QED BY <1>1, <1>7, <2>2, <2>3 DEF max
  <1> QED BY <1>9, <1>10

\* Where the list changes: a refused apply takes a reason, a changed document adds
\* those of the plans it makes stale.
LEMMA ReasonSteps ==
    ASSUME [RouterNext]_vars
    PROVE  \/ UNCHANGED reasons
           \/ UNCHANGED planSeq /\ \E p \in PlanIds : TakeReason(p)
           \/ UNCHANGED planSeq /\ \E ps \in SUBSET LivePlans : Retire(ps, {}, {}, {}) /\ Remember(ps)
PROOF
  <1> DEFINE Goal == \/ UNCHANGED reasons
                     \/ UNCHANGED planSeq /\ \E p \in PlanIds : TakeReason(p)
                     \/ UNCHANGED planSeq
                        /\ \E ps \in SUBSET LivePlans : Retire(ps, {}, {}, {}) /\ Remember(ps)
  <1> SUFFICES Goal
    OBVIOUS
  <1>a. ASSUME UNCHANGED reasons PROVE Goal
    BY <1>a
  <1>b. ASSUME NEW p \in PlanIds, NEW c, NEW w, NEW e, ConsumePlan(p, c, w, e) PROVE Goal
    BY <1>b DEF ConsumePlan, CheckOut, DropExpired
  <1>c. ASSUME NEW w, NEW ds, NEW rev, InvalidateDocuments(w, ds, rev) PROVE Goal
    <2>1. PlansOn(w, ds) \in SUBSET LivePlans
      BY DEF PlansOn
    <2>2. CASE Remember(PlansOn(w, ds))
      BY <1>c, <2>1, <2>2 DEF InvalidateDocuments
    <2> QED BY <1>c, <2>2 DEF InvalidateDocuments
  <1> HIDE DEF Goal
  <1>0. ASSUME UNCHANGED storeVars PROVE UNCHANGED reasons
    BY <1>0 DEF storeVars
  <1>1. ASSUME NEW r, ReleaseRoute(r) PROVE UNCHANGED reasons
    BY <1>1 DEF ReleaseRoute, Release
  <1>2. CASE SessionSteps
    <2>1. UNCHANGED reasons
      BY <1>0, <1>2 DEF SessionSteps, SessionOpened, SessionClosed, InvalidateSession, ProtocolViolation,
           Register, Unregister
    <2> QED BY <1>a, <2>1
  <1>3. CASE NotificationSteps
    <2>1. ASSUME NEW s, NEW w, NEW ds, NEW rev, DocumentsTouched(s, w, ds, rev) PROVE Goal
      BY <1>c, <2>1 DEF DocumentsTouched
    <2>2. UNCHANGED reasons \/ \E s, w, ds, rev : DocumentsTouched(s, w, ds, rev)
      BY <1>0, <1>3 DEF NotificationSteps, CapabilitiesChanged, WorkspaceOpened, WorkspaceClosed,
           RootsChanged, ReadinessChanged, TrustChanged, InvalidateWorkspace
    <2> QED BY <1>a, <2>1, <2>2
  <1>4. CASE RequestSteps
    <2>1. ASSUME NEW c, NEW id, NEW kind, NEW p, NEW w, ForwardPlan(c, id, kind, p, w)
          PROVE  Goal
      BY <1>a, <2>1 DEF ForwardPlan, CheckOut, DropExpired
    <2>2. ASSUME NEW c, NEW id, NEW p \in PlanIds, NEW w, ApplyPlan(c, id, p, w)
          PROVE  Goal
      BY <1>b, <2>1, <2>2 DEF ApplyPlan
    <2>3. ASSUME NEW c, NEW id, NEW p, NEW w, DiscardPlanRequest(c, id, p, w)
          PROVE  Goal
      BY <1>a, <2>1, <2>3 DEF DiscardPlanRequest, DiscardPlan, CheckOut, DropExpired
    <2>4. ASSUME NEW c, NEW id, NEW t, NEW w, Undo(c, id, t, w)
          PROVE  Goal
      BY <1>a, <2>4 DEF Undo, ConsumeUndoToken
    <2>5. ASSUME NEW c, NEW id, NEW w, NEW kind, NEW h, RouteRequest(c, id, kind, w, h)
          PROVE  Goal
      BY <1>0, <1>a, <2>5 DEF RouteRequest
    <2>6. ASSUME NEW c, NEW id, CancelRequest(c, id) PROVE Goal
      BY <1>0, <1>a, <2>6 DEF CancelRequest
    <2> QED BY <1>4, <2>2, <2>3, <2>4, <2>5, <2>6 DEF RequestSteps
  <1>5. CASE ResponseSteps
    <2>1. ASSUME NEW s, NEW r, NEW ds, NEW e, NEW sound,
                 \/ RejectResult(s, r, ds, e, sound)
                 \/ AbsorbLate(s, r, ds, e, sound)
                 \/ ReadResult(s, r, ds, e, sound)
                 \/ Modified(s, r, ds, e, sound)
          PROVE  UNCHANGED reasons
      BY <1>0, <1>1, <2>1 DEF RejectResult, AbsorbLate, ReadResult, Modified
    <2>2. ASSUME NEW s, NEW r, NEW ds, NEW e, NEW a, NEW key, NEW x, NEW foreign,
                 ModifiedWithUndo(s, r, ds, e, a, key, x, foreign)
          PROVE  UNCHANGED reasons
      BY <1>1, <2>2 DEF ModifiedWithUndo, CreateUndoToken
    <2>3. ASSUME NEW s, NEW r, NEW sound, ErrorResponse(s, r, sound) \/ PlanDiscarded(s, r, sound)
          PROVE  UNCHANGED reasons
      BY <1>1, <2>3 DEF ErrorResponse, PlanDiscarded
    <2>4. ASSUME NEW s, NEW r, NEW a, NEW key, NEW x, NEW pre, NEW changes, NEW foreign,
                 PlanPrepared(s, r, a, key, x, pre, changes, foreign)
          PROVE  UNCHANGED reasons
      BY <1>0, <2>4 DEF PlanPrepared, Sweep, CreatePlan
    <2>5. UNCHANGED reasons
      BY <1>5, <2>1, <2>2, <2>3, <2>4 DEF ResponseSteps
    <2> QED BY <1>a, <2>5
  <1>6. CASE TimerSteps
    <2>1. UNCHANGED reasons
      BY <1>0, <1>1, <1>6 DEF TimerSteps, RouteTimeout, GraceExpired, SweepTimer, Sweep, Clock, Tick
    <2> QED BY <1>a, <2>1
  <1>7. CASE ContinuationSteps
    <2>1. UNCHANGED reasons
      BY <1>0, <1>1, <1>7 DEF ContinuationSteps, SendDone, SendFailed, FinishRefusedPlan,
           FinishRefusedUndo, Release
    <2> QED BY <1>a, <2>1
  <1>8. CASE UNCHANGED vars
    BY <1>0, <1>8, <1>a DEF vars
  <1> QED BY <1>2, <1>3, <1>4, <1>5, <1>6, <1>7, <1>8 DEF RouterNext

\* A plan appears under a new number, and leaves with a request only from the store.
LEMMA PlansMove ==
    ASSUME StoreTypes, PlanBooks, Shape
    PROVE  /\ planSeq' \in Nat /\ planSeq <= planSeq'
           /\ \A p \in PlanIds : plans'[p] # None => plans[p] # None \/ p = planSeq + 1
           /\ \A x \in held' : x \in held \/ plans[x.id] # None
PROOF
  <1> DEFINE Goal == /\ planSeq' \in Nat /\ planSeq <= planSeq'
                     /\ \A p \in PlanIds : plans'[p] # None => plans[p] # None \/ p = planSeq + 1
                     /\ \A x \in held' : x \in held \/ plans[x.id] # None
  <1> SUFFICES Goal
    OBVIOUS
  <1>0. /\ planSeq \in Nat /\ plans \in [PlanIds -> StoredPlan \cup {None}]
        /\ \A p \in PlanIds : plans[p] # None => plans[p].id = p
    BY DEF StoreTypes, PlanBooks, Books, Identities
  <1>1. ASSUME NEW ps, NEW ts, NEW rel, NEW relUndo, Retire(ps, ts, rel, relUndo), UNCHANGED planSeq
        PROVE  Goal
    BY <1>0, <1>1 DEF Retire
  <1>6. ASSUME UNCHANGED <<plans, held, planSeq>> PROVE Goal
    BY <1>0, <1>6
  <1>7. ASSUME NEW c, NEW id, NEW kind, NEW p \in PlanIds, NEW w, TakePlan(c, id, kind, p, w) PROVE Goal
    <2>1. /\ plans' = [plans EXCEPT ![p] = None] /\ held' = held \cup {plans[p]}
          /\ planSeq' = planSeq /\ plans[p] # None
      BY <1>7 DEF TakePlan, CheckOut, Owns
    <2> QED BY <1>0, <2>1
  <1>9. ASSUME NEW s, NEW r, NEW plan, StorePlan(s, r, plan) PROVE Goal
    <2>1. /\ planSeq' = planSeq + 1 /\ held' = held
          /\ \A p \in PlanIds : plans'[p] # None => p = planSeq + 1 \/ plans'[p] = plans[p]
      BY <1>9 DEF StorePlan, CreatePlan
    <2> QED BY <1>0, <2>1
  <1>10. ASSUME NEW s, NEW r, NEW token, StoreToken(s, r, token) PROVE Goal
    <2>1. /\ planSeq' = planSeq /\ held' \subseteq held
          /\ \A p \in PlanIds : plans'[p] # None => plans'[p] = plans[p]
      BY <1>10 DEF StoreToken, CreateUndoToken
    <2> QED BY <1>0, <2>1
  <1> HIDE DEF Goal
  <1>2. CASE DropStep
    BY <1>1, <1>2 DEF DropStep
  <1>3. ASSUME NEW r \in DOMAIN routes, SendFailed(r) PROVE Goal
    BY <1>1, <1>3 DEF SendFailed, ReleaseRoute, Release
  <1>4. ASSUME NEW x, FinishRefusedPlan(x) PROVE Goal
    BY <1>1, <1>4 DEF FinishRefusedPlan, Release
  <1>5. ASSUME NEW x, FinishRefusedUndo(x) PROVE Goal
    BY <1>1, <1>5 DEF FinishRefusedUndo, Release
  <1>8. ASSUME NEW c, NEW id, NEW t, NEW w, TakeToken(c, id, t, w) PROVE Goal
    BY <1>6, <1>8 DEF TakeToken
  <1>11. ASSUME NEW c, NEW id, NEW kind, NEW w, AskStep(c, id, kind, w) PROVE Goal
    BY <1>6, <1>11 DEF AskStep, storeVars, entryVars
  <1> QED BY <1>2, <1>3, <1>4, <1>5, <1>7, <1>8, <1>9, <1>10, <1>11 DEF Shape

\* Every step keeps the list sound.
LEMMA ReasonsKept ==
    ASSUME RouterInvariant, Reasoned, [RouterNext]_vars
    PROVE  Reasoned'
PROOF
  <1>0. /\ RegistryInvariant /\ RouteInvariant /\ PlanBooks /\ StoreTypes /\ RegistryTypeOK
        /\ now \in Times
    BY BooksTyped DEF RouterInvariant, RegistryInvariant
  <1>1. /\ planSeq' \in Nat /\ planSeq <= planSeq' /\ planSeq \in Nat
        /\ \A p \in PlanIds : plans'[p] # None => plans[p] # None \/ p = planSeq + 1
        /\ \A x \in held' : x \in held \/ plans[x.id] # None
    BY <1>0, StepShapes, PlansMove DEF StoreTypes
  <1>2. /\ reasons \in Seq(PlanIds) /\ Distinct(reasons) /\ Len(reasons) <= MaxRememberedInvalidations
        /\ Len(reasons) \in Nat /\ MaxRememberedInvalidations \in Nat
        /\ \A i \in DOMAIN reasons :
            /\ reasons[i] \in PlanIds /\ plans[reasons[i]] = None /\ reasons[i] <= planSeq
            /\ \A x \in held : x.id # reasons[i]
    BY StoreConstants DEF Reasoned, ReasonsSound, Distinct
  <1>3. ASSUME NEW p \in PlanIds, plans[p] = None, p <= planSeq, \A x \in held : x.id # p
        PROVE  plans'[p] = None /\ p <= planSeq' /\ \A x \in held' : x.id # p
    <2>1. p \in Nat /\ p # planSeq + 1
      BY <1>1, <1>3 DEF PlanIds
    <2> QED BY <1>1, <1>3, <2>1
  <1>4. SUFFICES /\ reasons' \in Seq(PlanIds) /\ Distinct(reasons')
                 /\ Len(reasons') <= MaxRememberedInvalidations
                 /\ \A k \in DOMAIN reasons' :
                        /\ plans'[reasons'[k]] = None /\ reasons'[k] <= planSeq'
                        /\ \A x \in held' : x.id # reasons'[k]
    BY DEF Reasoned, ReasonsSound, Distinct
  <1>5. CASE UNCHANGED reasons
    BY <1>2, <1>3, <1>5
  <1>6. ASSUME NEW p \in PlanIds, TakeReason(p)
        PROVE  /\ reasons' \in Seq(PlanIds) /\ Distinct(reasons')
               /\ Len(reasons') <= MaxRememberedInvalidations
               /\ \A k \in DOMAIN reasons' :
                        /\ plans'[reasons'[k]] = None /\ reasons'[k] <= planSeq'
                        /\ \A x \in held' : x.id # reasons'[k]
    <2>1. PICK i \in DOMAIN reasons : reasons' = Without(reasons, i)
      BY <1>6 DEF TakeReason, Without
    <2>2. /\ reasons' \in Seq(PlanIds) /\ Distinct(reasons') /\ Len(reasons') <= Len(reasons)
          /\ \A k \in DOMAIN reasons' : \E j \in DOMAIN reasons : reasons'[k] = reasons[j]
      <3>1. /\ Without(reasons, i) \in Seq(PlanIds) /\ Distinct(Without(reasons, i))
            /\ Len(Without(reasons, i)) <= Len(reasons)
            /\ \A k \in DOMAIN Without(reasons, i) :
                    \E j \in DOMAIN reasons : Without(reasons, i)[k] = reasons[j]
        BY <1>2, ReasonTaken
      <3> QED BY <2>1, <3>1 DEF Distinct
    <2>3. Len(reasons') \in Nat
      BY <2>2
    <2>4. Len(reasons') <= MaxRememberedInvalidations
      BY <1>2, <2>2, <2>3
    <2> QED BY <1>2, <1>3, <2>2, <2>4
  <1>7. ASSUME NEW ps \in SUBSET LivePlans, Retire(ps, {}, {}, {}), Remember(ps), UNCHANGED planSeq
        PROVE  /\ reasons' \in Seq(PlanIds) /\ Distinct(reasons')
               /\ Len(reasons') <= MaxRememberedInvalidations
               /\ \A k \in DOMAIN reasons' :
                        /\ plans'[reasons'[k]] = None /\ reasons'[k] <= planSeq'
                        /\ \A x \in held' : x.id # reasons'[k]
    <2>1. ps \in SUBSET PlanIds /\ \A p \in ps : plans[p] # None
      BY DEF LivePlans
    <2>2. /\ reasons' \in Seq(PlanIds) /\ Distinct(reasons') /\ Len(reasons') <= MaxRememberedInvalidations
          /\ \A k \in DOMAIN reasons' :
                reasons'[k] \in ps \/ \E j \in DOMAIN reasons : reasons'[k] = reasons[j]
      BY <1>2, <1>7, <2>1, ReasonsRemembered
    <2>3. ASSUME NEW p \in ps PROVE plans'[p] = None /\ p <= planSeq' /\ \A x \in held' : x.id # p
      <3>1. plans'[p] = None /\ held' = held
        BY <1>7, <2>1 DEF Retire
      <3>2. p <= planSeq /\ \A x \in held : plans[x.id] = None
        BY <1>0, <2>1 DEF PlanBooks, Books, Identities
      <3> QED BY <1>7, <2>1, <3>1, <3>2
    <2> QED BY <1>2, <1>3, <2>2, <2>3
  <1> QED BY <1>5, <1>6, <1>7, ReasonSteps

\* The reasons kept for stale plans name each such plan once, never one that can
\* still be used, and never exceed their limit (#rememberReason, #takeReason).
THEOREM RouterReasons == RouterSpec => []ReasonsSound
PROOF
  <1>1. RouterInit => Reasoned
    BY StoreConstants DEF RouterInit, StoreInit, Reasoned, ReasonsSound
  <1>2. Reasoned => ReasonsSound
    BY DEF Reasoned
  <1> QED BY <1>1, <1>2, ReasonsKept, RouterInvariantAlways, PTL DEF RouterSpec

===============================================================================
