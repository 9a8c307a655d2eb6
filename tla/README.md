# Junon IDE bridge: TLA+ specification

The bridge connects consumers (agents, the Serena integration, the CLI) to IDE
adapters (the VS Code extension, the JetBrains plugin) through a daemon on the
same machine.  All of them speak JSON-RPC over loopback WebSockets.  This
directory specifies the parts that decide who may do what and when, checks them
with TLC on small instances and proves the central invariants with TLAPS for
every instance.

Contents: 1 inventory, 2 modules and their code, 3 runs, 4 fairness, 5 proofs,
6 disagreements with the documentation, 7 what is not modelled, 8 plan.

## 1. Inventory

| part | state it keeps | operations | talks to |
| --- | --- | --- | --- |
| daemon, session registry (`session/session-registry.ts`) | sessions, adapters by id and by session, workspaces with owner, epoch, roots, trust, readiness | open, close, register, unregister, capabilities, workspace opened/closed/rootsChanged/readiness/trust | called by the transport (sessions) and the router (the rest) |
| daemon, edit store (`plan/in-memory-edit-store.ts`) | live plans and undo tokens, reservations of the adapters' own identifiers, reasons of plans gone stale | create, consume, discard, release, sweep, invalidate by document, workspace, session | called by the router |
| daemon, router (`routing/application-router.ts`) | `#routes`, `#consumerRequests`, what a suspended handler still has to release | route a read, prepare, apply, discard, undo; answer, cancel, time out, drop a session | registry, store, transport |
| daemon, transport and handshake (`transport/loopback-websocket-server.ts`, `session/handshake-processor.ts`) | per socket: phase, timer, session record with missed heartbeats and close reason | connect, handshake, dispatch, ping and expire, close, shut down | registry (open, close), router (messages) |
| client, JSON-RPC engine (`connection/json-rpc-engine.ts`) | pending requests, late identifiers, inbound requests, completions, handler slots | request, abort, time out, receive, settle, close | the daemon's transport and router |
| client, reconnecting connection (`connection/reconnecting-connection.ts`) | current and candidate connection, generation, registered handlers, retry loop | connect, restore, back off, register, dispose, close | one engine after another |
| daemon, discovery file (`discovery/discovery-file.ts`); CLI, ownership and daemon command (`ownership.ts`, `daemon-command.ts`) | the lock and the discovery file on disk; per process the await it is at | acquire with stale recovery, start, publish, confirm, withdraw, signal, shut down, release, crash | other daemon processes on the same path; every client reads the discovery file |
| VS Code, adapter lifecycle and owned daemon (`adapter-lifecycle.ts`, `daemon-process.ts`) | where `start()` and `stop()` are, connection, child process, registration | start, spawn, connect, register, restore, stop, reap | the daemon processes, the reconnecting connection |
| VS Code, event bridge and workspace model (`event-bridge.ts`, `workspace-model.ts`) | job queue, debounce timers, announced and projected workspace, epoch | editor events, flush, reconcile, trust, synchronise, announce readiness | editor API, daemon's registry |
| VS Code, symbol handles (`symbol-mapper.ts`) | records, handles by document, generations of search hits | mint a tree, mint hits, evict, invalidate | the routes |
| VS Code, routes (`symbol-routes.ts`, `symbol-navigation-routes.ts`, `document-routes.ts`, `edit-routes.ts`) | prepared plans; the requests suspended in an await | symbols, resolve, search; prepare, apply, discard | handles, editor API, user |
| client, discovery | none | read and validate the file | start of a connection |
| daemon, observability and dashboard; CLI, doctor | counters, log lines | record, render, probe | reads only |
| protocol package | none | schema validation, generated types | all |
| JetBrains plugin | connection service, pending calls, bounded registries | as the VS Code adapter, on threads | its own RPC client, platform |
| Serena integration (Python) | instance records, update state | attach, update, daemon control | daemon, Serena process |

How they interact.  The transport opens a session in the registry when the
response of the handshake has been written and hands each message to
`router.handle`, which runs to its first `await` and is interleaved with
everything else from there.  The router asks the registry who owns a workspace,
takes a plan out of the store, and sends the request to the adapter's engine;
the adapter's answer, the route's timer, the consumer's cancellation and the
close of either socket then race.  A tombstone of the route stays for a grace
period.  The client's engine has the mirror image of that race, and the
reconnecting facade replaces the engine under the handlers registered with it.

Daemon processes exclude each other by a lock file.  A VS Code window connects to
the daemon of the discovery file, or spawns one and connects to whichever wins
the lock; it registers, and again after every reconnect.  From then on its event
bridge tells the daemon of documents, roots, trust and readiness over one queue,
and its routes answer the requests the router forwards while the user goes on
editing.

What is hard: everything after an `await` or a send's callback sees a world that
may have changed (a session closed, a workspace with another owner, a store
that filled up); answers cross cancellations and timeouts in both directions;
an identifier reserved for an adapter has to come back on every one of about ten
paths; `close()` may come at any point of the reconnection loop; a peer may hang
with its socket open; a process may die between any two file operations and
leave lock and discovery file to the next; a document may change between any
two awaits of a request that reads, checks and edits it.  Only the two files
outlive a process: a restarted daemon has empty maps.

What makes each part correct, in short:

* registry: its indexes agree and every listed workspace can be reached;
* store: an adapter identifier is reserved exactly while it may be used, a plan
  is used at most once, limits hold;
* router: plans go back or forward exactly once and only to the session that
  made them, every request is settled, nothing survives the session it needs;
* transport: no session without a completed handshake, none without a socket,
  idle and hung peers go;
* engine: one settlement per request, crossings are not violations, slots are
  returned;
* facade: one connection at a time, handlers follow it, `close()` is final;
* ownership: an owner has the lock, a clean exit leaves no file;
* lifecycle: connected means registered, a stopped window leaves nothing running;
* event bridge: no change of a document is lost in silence, requests are not
  served for a workspace the daemon has not heard of, readiness comes;
* handles: the collections agree and stay bounded, a handle goes with its document;
* edits: a plan modifies documents once or not at all, and what it was checked
  against is what it meets, but for the window between the check and the edit.

## 2. Modules and their code

`BridgeBase` holds the identifiers and bounds the daemon's modules share.

| module | models | composes |
| --- | --- | --- |
| `SessionRegistry` | the registry, one action per method that changes it | `BridgeBase` |
| `EditStore` | the store; a consumed plan is `held` by its caller until released | `BridgeBase` |
| `ApplicationRouter` | the router, one action per handler, continuation or timer | extends the two above: each of its actions conjoins what it does to registry and store |
| `LoopbackTransport` | the WebSocket server, handshake phases, heartbeat, shutdown, with the registry reduced to session -> socket | |
| `ClientEngine` | the engine, two FIFO queues for the socket, and the daemon at the other end as far as it answers, cancels and judges | |
| `ReconnectingConnection` | the facade; `loop` is the await its asynchronous loop stands at | |
| `DaemonOwnership` | lock, discovery file and daemon command of processes that compete for one path; one step per await on the file system | |
| `AdapterLifecycle` | `start()` and `stop()` of windows and the daemons they spawn | extends `DaemonOwnership`: the child of a window is one of its processes |
| `SymbolHandles` | the handle registry, its synchronous methods as operators on a record of its four collections | |
| `VscodeRoutes` | the requests that mint handles and the two-phase edits, one step per await, with the user, the disk, epochs and reconnects | extends `SymbolHandles`; instantiates `OneShotGrant` |
| `OneShotGrant` | abstract: a prepared edit as an authority granted once, held by one user at most, spent once or void | |
| `EventBridge` | the bridge, the workspace model and the projection of `extension.ts` | |
| `MC...` | model values and symmetry for TLC | the module it is named after |
| `...Proofs` | theorems | the module it is named after; `DaemonStateProofs` is about the registry and the store, `AdapterLifecycleProofs` about the processes too, `VscodeRoutesProofs` about the handles too |

Conventions.  A refusal of the code (an exception with an error code) is an
operator `...Refusal` whose value is `"ok"` or the code; an action with a
refusal other than `"ok"` leaves the state as the code leaves it.  Maps are
functions to a value or `None`.  An asynchronous function is one action per
section between awaits.  Definitions preceded by a comment "Mistake:" are not part
of the specification: each is a plausible error in the definition after it and
is there to show that a property would notice.

Abstractions, module by module.

* `SessionRegistry`: capabilities are one Boolean, whether the adapter offers
  what a request needs; root URIs are a set of the documents below them.
  `touch` moves a timestamp nobody reads.
* `EditStore`: public identifiers are numbered in the order of creation where the
  code draws random ones; time is a counter, a plan's payload its sets of
  precondition and change documents; expiry acts when `Sweep` runs, at the places
  where the code calls it.  `author` is the adapter identifier that the result
  names, which need not be the one its session registered.
* `ApplicationRouter`: a request is its kind.  A result is the documents and
  epoch it names, and `sound` for the rest of its payload's checks.  A consumer
  never repeats an identifier, as every client of the repository draws random
  ones.  `releasing` and `releasingUndo` are handlers suspended in the send of a
  refusal, which still hold their plan; `doomed` are adapters being closed, whose
  close event has not come.
* `LoopbackTransport`: the checks of a handshake are the choice between accepting
  and refusing it.  Session identifiers may repeat, since they come from an
  option.  `hung` peers keep their socket open and say nothing.
* `ClientEngine`: the daemon sends a route once and cancels only a route that it
  has no answer to.  It may answer a consumer's request up to three times, as the
  router does: `TIMEOUT`, then `PROVIDER_FAILED` for a late result that fails its
  checks (`application-router.ts:745`, `:940`), or an answer and then the error of a
  send to the adapter that fails late (`:503`, `:780`).  `untimely` are the requests
  that were answered again, or cancelled and forgotten before their answer;
  `offence` is what the daemon would close the session for.
* `ReconnectingConnection`: an attempt to connect is one step with two outcomes;
  jitter is left out; the restorer may succeed, fail or be interrupted.
* `DaemonOwnership`: a file is the process that wrote it.  The identity in the
  lock and in the discovery file (pid, start time, endpoint, token) names one
  process, so the comparison before an unlink, which is of several of them, is an
  equality.  The test for a live owner looks at the pid only, which another process
  may have got since: of a dead owner `CheckOwner` may take either branch.  A
  restart is another process.  `robbed` is a history variable: owners whose lock was renamed
  away by a competitor that had checked another, dead owner.
* `AdapterLifecycle`: the connection is the facade reduced to the daemon it is
  connected to, `reconnecting` or `closed`; time limits are the failure of the
  step they limit.
* `SymbolHandles`: identifiers are numbers of a small set, fresh where the code
  draws until it finds one; of a symbol only its document is kept.  `born` is the
  version that the minting request had captured, which the code dates the handle by;
  `minted`, a history, is the document's version when the handle was minted.  They
  differ when the document changed during the hash between the two.
* `VscodeRoutes`: a text is a value told apart by its hash; `version` counts the
  changes, so that a text that comes back is another version.  A read captures the
  text in one step and has its hash in the next.  Cancellation ends a request at
  its next check, except after the edit went to the editor.  A document on disk
  may change before the watcher's event (`unseen`).
* `EventBridge`: a notification is known to the daemon when it is sent, since
  sockets keep order; the documents lie in one folder.  The head of the queue is
  interleaved with everything at every await (`stage`).

## 3. Runs

All runs are on sets of one to three model values with every limit of the code
lowered until it is reached.  No run checks for deadlock: every system here may
come to rest, when sessions are closed or bounds used up.

| run | what it shows | bounds, and why they are enough |
| --- | --- | --- |
| `router_edits` | `HeldByRoutes`, `ReservedWhileInFlight`, `ForwardedOnce`, `ResultOnlyFirst`, and of the store under it `OneMeaningWhileServing`, `ReasonsSound` | one consumer, one adapter, three requests of which two in flight, two plans and a token: prepare, apply, undo and every race of two of them |
| `router_ownership` | `PlanOwnersAlive`, `ForwardedToItsAdapter`, `ActiveRoutesConnected`, and of the registry under it `IndexesAgree`, `WorkspacesReachable` | one consumer, two adapter sessions that register under two adapter identifiers and may own the workspace in turn, two epochs, two requests. A takeover needs two sessions, and an answer in another adapter's name two identifiers; a third repeats the second |
| `router_liveness` | `RoutesDrain`, `HeldDrains` | one consumer, one adapter, two requests of four kinds; no symmetry |
| `transport` | `SessionsMatch`, `RefusedStaysOut`, `HandshakeEnds`, `HungPeersLeave` | two sockets and two session identifiers, which may collide; two missed heartbeats |
| `client_engine` | `SingleSettlement`, `CrossingsTolerated`, `SlotsHeld` | two requests, two routes, one slot, grace sets of one: both overflow |
| `reconnect` | `OneConnection`, `HandlersFollow`, `CloseIsTerminal`, `ClosePromised`, `LossNoticed` | four connections in a row, two methods, a delay that reaches its maximum |
| `adapter_lifecycle` | `OwnersHoldLock`, `CleanExit`, `NothingLeftBehind`, `ConnectedMeansRegistered`, `StartAndStopSettle` | one window with its child and one daemon from a shell, two crashes, three attempts at the lock: spawn, lost race, takeover of a dead owner and reconnection to the other daemon all happen |
| `vscode_handles` | `CollectionsAgree`, `HandlesBounded`, `OutdatedOnlyByHash`, `TreesSurviveMinting` | one request at a time over two documents, three handles and two generations of hits, so that both limits are reached by trees and hits of different documents |
| `vscode_edits` | `PlansFollowDocuments`, `StaleOnlyInWindow`, `PlansAreOneShot` | two requests, two plans that may be stored together, two documents, one change from outside and the edits themselves: two applies of one plan or of two, the edit of one plan in a document of the other, and a change before, between or after the checks of a plan's documents. A change brings one other text, as the checks only tell whether it is the guarded one |
| `event_bridge` | `NoChangeForgotten`, `ProjectionNotNewer`, `ReadyReached` | one document, three sets of folders, three events of the editor, two links |
| `two_owners`, `stale_edits` | the first two disagreements of section 6, as counterexamples | three daemons and one crash; two documents, one request and one change |

Named bounds that the code does not have: `MaxEpoch`, `MaxPlans`, `MaxTokens`,
`MaxTime`, `MaxRoutes`, `MaxConns`, `MaxCrashes`, `MaxTree`, `MaxChanges`,
`MaxSessions`, `MaxEvents`, `MaxLinks`, `MaxQueue`.  They cap counters in the
guards.

The lifecycle with a second process from a shell is too large for a run of some
minutes.  The case it adds, a window's daemon robbed of its lock by a third
process, is reached by `two_owners` and covered by the theorems of section 5,
which are for any number of processes.

The registry and the store are checked inside the router, which drives them as
the program does; what they guarantee to any caller is proved (section 5).
Symmetry is used where only safety is checked.

## 4. Fairness

Weak fairness only, and only of steps the runtime takes by itself:

* timers that are armed fire (route timeout, grace period, handshake timer,
  heartbeat interval, retry delay, restoration timeout): Node's event loop;
* the callback of a send is called, with or without an error, and a suspended
  `await` resumes when its promise settles;
* a socket being closed reports its close event: `ws` destroys a socket whose
  peer does not answer the close frame;
* `start()` and `stop()` of a window go on when what they await settles, fails
  or exceeds its time limit: every await of theirs has one, and a child that
  ignores SIGTERM gets SIGKILL (`StartStep`, `StopStep`);
* the first job of the event bridge's queue goes on, and a registration under way
  completes (`JobStep`, `Registered`, `Published`).

Nothing is assumed of the other side: an adapter need not answer, a consumer
need not read, a restorer is only interrupted by its own timeout, a daemon process
need not come up or go on, and the user need not do anything.  `client_engine`,
`vscode_handles` and `vscode_edits` check safety only.

## 5. Proofs

Eight modules of proofs establish, for every value of the constants that satisfies
the named assumptions, every safety property that a run checks:

* **Registry** (`RegistryTypes`, `RegistryIndexes`, `RegistryConnections`,
  `RegistryReachability`, `RegistryEpochs`).  The three invariants are not
  inductive one by one: closing a session removes the adapter the index names and
  the workspaces of that adapter, so reachability needs that a workspace's owner
  is registered (`OwnersRegistered`), and that needs the two indexes to be inverse
  to each other.  `RegistryInvariant` is the conjunction; each action preserves
  it, and `EpochMonotone` follows from the guards of the actions under it.
* **Store** (`StoreReservations`, `StoreKeys`, `StoreOneShot`).  `EntryInvariant`
  says of plans (`PlanSide`) and tokens (`TokenSide`) separately that the maps have
  their types, that what is stored or held was issued, that nothing is both, that
  reservations are exact and keys unique.  Exactness alone is not inductive:
  releasing one plan removes its key, which is right only if no other outstanding
  plan has that key.  All operations but the two creations are instances of
  one `Retire` step (some entries leave the maps, some held ones are released),
  proved once.
* **Transport** (`TransportTypes`, `TransportSessions`, `TransportRefusals`).
  `HandshakePhases` ties the phase of a socket to its record: a socket whose
  response is being sent has an identifier and no session, and a session exists
  only in the phases after it.  With it the two maps match, and a socket that was
  refused stays out as an action property.
* **Ownership** (`OwnersKeepLock`, `ExitsAreClean`).  That an owner has the lock is
  not inductive: a competitor suspended before its rename may have checked a dead
  owner.  `OwnershipInvariant` adds who may have written each file at which await
  (`LockWriter`, `DiscoveryWriter`), what a process before its rename knows
  (`StaleSeen`: the owner it read has ended, and a process never restarts), and
  that the attempts are not used up.  So the lock of an owner is taken away only
  when it is not the one that was checked, which `robbed` records.
* **Lifecycle** (`LifecycleOwners`, `LifecycleLeavesNothing`, `LifecycleRegisters`).
  The invariant of the processes is reused: a spawn is a process's start, a kill is
  a signal or a death.  `LifecycleInvariant` adds that a live child is owned, which
  phases have no connection, and that a registration needs one.
* **Router** (`RouterDrivesRegistry`, `RouterRegistry`, `RouterReachability`, then
  `RouterHolds`, `RouterReserves`, `RouterMeaning`, `RouterForwardsOnce`,
  `RouterResultFirst`, `RouterForwardsToItsAdapter`, `RouterRoutesConnected`,
  `RouterOwners`, `RouterReasons`).  Four layers.  (1) Every step of the router is a
  step of the registry or leaves it alone, so the registry's invariant is inherited.  (2)
  `RouteInvariant`: a route keeps its request, only moves forward, has no answer
  while it is active, and its sessions are open as long as it needs them.  (3)
  `PlanBooks` and `TokenBooks`, one definition used twice: every entry is stored,
  carried by one route of `#routes`, waiting in one suspended refusal, or over; the
  reserved keys are those of what is stored or out.  Here the exact reservations of
  the store by itself do not survive.  A send that fails while the adapter's
  connection closes releases an entry a second time, after which another plan may
  have taken its key.  Reservation and uniqueness are therefore claimed for
  connections that are not closing (`ReservedWhileInFlight`,
  `OneMeaningWhileServing`); on a closing one nothing is forwarded any more.  (4)
  `OwnersInvariant`: who owns a stored entry.  Each action is first put into a
  common form (`Shape`: what it removes, issues, takes out and releases), and each
  layer is proved once for the form.  `ReasonsSound` follows with the books from two
  lemmas about the list: taking an element and adding several keep it without
  duplicates.
* **Engine** (`EngineSettlesOnce`, `EngineToleratesCrossings`, `EngineHoldsSlots`,
  `EngineClosedIsEmpty`).  What the engine may conclude from a message depends on
  what else is under way.  `RequestTraffic` and `RouteTraffic` say for each state of
  a request which messages the two queues may hold, how often and in which order
  (`Before`): of a route at most one of each kind (`Once`), of a request at most one
  answer unless it is `untimely`.  `Expected` says that whatever the daemon may
  still send is in `pending`, `inbound` or a grace set, unless a full one forgot it
  or the request is `untimely`.  `CrossingsTolerated` says accordingly that while no
  grace set overflows, an answer that crosses a cancellation or a timeout never
  closes the connection: only an answer that is not the first, or comes after the
  grace, does.
* **Facade** (`ReconnectOneConnection`, `ReconnectHandlers`, `ReconnectMonitored`,
  `ReconnectCloses`).  `OneConnection` counts sockets, while the loop decides from
  its position.  `Exclusive` ties a socket that is not closed to the loop's local
  variable or to `#current`, `CandidateKnown` says at which awaits a candidate
  exists, `Numbered` that generations lag behind connections, so that a late
  callback of an old one is recognised.
* **Event bridge** (`BridgeForgetsNothing`, `BridgeProjectsKnown`).
  `NoChangeForgotten` speaks of a connection that is up; inductive is `Accounted`,
  which holds from the restoration on and adds that a notification on its way with
  an older text has a timer or a job behind it, since sending or dropping it
  overwrites what the daemon was told.  `EpochsOrdered` extends
  `ProjectionNotNewer` to every workspace in the queue or in the job under way.
* **Plans of the adapter** (`PlansImplementGrant`, `PlansFollow`, `EditsMeetTheirText`).
  The mapping to `OneShotGrant` reads off each plan its stage, the requests that hold
  it and how often it was applied, so that a second claim or a second application is
  a step that the abstract specification does not have.  `GrantInvariant` says that
  the places exclude each other: a plan is stored, or claimed by one request, or
  applied once.  Steps that only remove plans and claims are
  one lemma (`QuietStep`); storing, claiming and applying are one each.
  `PlansFollow` needs that a plan's guards are documents and goes by the
  invalidation in each change.  For the window of an edit, `KnownInvariant` says
  that a document an apply has checked has the guarded text still, or a later
  version than the checked one.
* **Handles** (`HandlesAgree`, `HandlesStayBounded`, `HandlesEnd`, `TreesSurvive`).
  First lemmas about the operators: evicting, reserving, invalidating, minting a
  tree and minting hits each take a registry that `Agrees` to one that does, say
  which handles are left, and bound its size.  The eviction loop ends by the least
  number of generations with room (a least element of a set of naturals, no
  induction over data).  `Agrees` adds to `CollectionsAgree` that the maps have their
  domains and that generations and hits name each other.  `HandlesFresh` says
  what `OutdatedOnlyByHash` says of every live handle, resolvable or not, so that
  sessions and epochs need not be followed.  It is about the version at minting:
  that a handle's document is unchanged since the captured one is false
  (section 6), and what is proved is that no other way leads there.

What the proofs changed in the models.  In the router, `KeysUnique` of the store is
false with larger bounds than the run had: after the double release above, two
plans of a closing connection share a key.  What holds is `OneMeaningWhileServing`,
which replaces it.  `PlanOwnersAlive` was false once a session may answer in the
name of an adapter identifier it is not registered with; entries now keep the
`author` that the result named, and the run has two adapter identifiers.  Both are
about states the code reaches and tolerates.  `ClientEngine` and `EditStore` write
the removal of an element of a list by its index and not with `SelectSeq`, and the
plans of a notification are the increasing sequence of their set: the same lists, in
a form that can be reasoned about.

Assumptions are those of the constants (`BaseConstants`, `RegistryConstants`,
`StoreConstants`, `RouterConstants`, `TransportConstants`, `EngineConstants`,
`ReconnectConstants`, `OwnershipConstants`, `WindowsAssumption`, `HandleConstants`,
`RouteConstants`, `BridgeConstants`): limits are natural numbers, `None` and `NoProc`
are not identifiers, consumer and adapter sessions are disjoint.

Model-checked only: all liveness properties (`RoutesDrain`, `HeldDrains`,
`HandshakeEnds`, `HungPeersLeave`, `ClosePromised`, `LossNoticed`,
`StartAndStopSettle`, `ReadyReached`), which are out of the prover's reach.

## 6. Disagreements with the documentation

The first two have a run in which TLC finds the counterexample.

* `two_owners` (`OneWinner`): the rename that recovers a stale lock takes whatever
  lock is at the path by then (`ownership.ts:133`).  Of two daemons that read the
  same dead owner, the slower one removes the lock the faster one has just
  published, and both own the path.  ADR-0012 says that concurrent stale recovery
  has one winner.  `OneWinner` is about the daemons that found a dead owner only,
  so the counterexample has the crash of the first owner in it.
* `stale_edits` (`EditsMeetGuards`): between the comparison of a precondition and
  `applyEdit` lie the hashes of this document and of those after it
  (`edit-routes.ts:461`), and a document that changes meanwhile is edited all the
  same.  ADR-0021 says that every precondition is compared in the moment before
  `applyEdit` and a mismatch writes nothing.  `StaleOnlyInWindow` is what holds.

The others are stated as definitions of the modules, which a configuration may
name as INVARIANT or PROPERTY to obtain the counterexample.

* `HandlesFollowDocuments` (`VscodeRoutes`): the second read of
  `document/getSymbols` captures the text and awaits its hash
  (`symbol-routes.ts:145`).  A change in that time is announced before there is a
  handle to invalidate, and the handles are minted for the captured version.  They
  resolve until the next change, and `symbol-target.ts:55` and
  `symbol-navigation-routes.ts:234` use them without comparing it.  ADR-0016 says that
  a handle is valid only for an unchanged document.  `OutdatedOnlyByHash`, which
  `vscode_handles` checks, is what holds: handles are outdated in no other way.
* `RootChangesAnnounced` (`EventBridge`): a trust change takes its snapshot when
  its job runs and records it as announced, but sends only the trust
  (`event-bridge.ts:299`).  A folder change queued behind it finds no difference,
  and `workspace/rootsChanged` is never sent.  Nor is it when the folders change
  while `synchronize` restores a connection: the reconciliation queued behind it
  runs before the connection is current, and its notification fails unheard.
  ADR-0015 says that a root change is announced.
* `AdapterTokensPrivate` (`ApplicationRouter`): when the store is full, the result
  of an apply goes to the consumer with the adapter's own undo token in it
  (`application-router.ts:1059`).  The comment above it and ADR-0007 say it must not.
* `LateResponseAbsorbed` (`ApplicationRouter`): a late response that fails its
  checks, or a send that fails late, answers a request that was cancelled or had
  timed out (`application-router.ts:940`).  ADR-0006 says the tombstone absorbs it.
  The consumer's engine closes the connection for the second answer
  (`json-rpc-engine.ts:399`), which is the exception in `CrossingsTolerated`.
* `AdapterNeverCancels` (`ClientEngine`): the engine sends `$/cancelRequest` when a
  request of an adapter times out or is aborted (`json-rpc-engine.ts:253`), and the
  daemon closes an adapter that does.  ADR-0008 says only consumers originate it.
* `RetriesUntilClosed` (`ReconnectingConnection`): a connection lost between the end
  of its restoration and the test that follows ends the retry loop although nobody
  called `close()` (`reconnecting-connection.ts:353`).  ADR-0009 says such failures
  remain retryable.
* `GuardsEveryDocument` (`VscodeRoutes`): the plan of a quick fix has a precondition
  for its own document only (`edit-routes.ts:277`).  ADR-0038 says "A plan guards
  every document it changes".
* `ReadyAfterDocuments` (`EventBridge`): the reconciliation of a workspace that comes
  back announces readiness although the documents opened before were dropped.
  The comment at `event-bridge.ts:136` says that a consumer that acts on `ready`
  finds the open documents announced.

Smaller observations: a failed write of the discovery file may unlink the file
of a competitor (`discovery-file.ts:73`); the sends of diagnostics and of renames
swallow their failure without the report that other dropped events get.

`ProjectionNotNewer` is stated for windows whose trust was not granted meanwhile:
the trust job that hides a root change also projects the newer epoch.

## 7. Not modelled

* Schema validation, URI normalisation, token comparison, formatting, the mapping
  of symbols and diagnostics: functions without state; their verdict is a choice
  in the models.
* Broadcast of events, metrics, logs, dashboard, local queries, the CLI's doctor and
  its command line: they read the state and change none of it.
* The schema check of a response that the router has transformed
  (`application-router.ts:977`): what it checks is a validated result with
  identifiers the daemon generated in place of the adapter's, so a failure would be
  an error in the transformation itself, which is not modelled.
* The client's discovery: one read, whose failure is the failed attempt of the
  reconnection loop.
* Of the VS Code routes: changes of trust, requests that only look handles up, the
  disposal of handlers.  Of the files: errors of permission and I/O during cleanup,
  and a `chmod` that fails after the lock was linked.
* JetBrains plugin: its threads, and the read and write locks of the platform
  they use, call for a specification of their own.  What the daemon sees of it is
  covered, since `ApplicationRouter` leaves the adapter's behaviour open.
* Serena integration and agent hosts: consumers, which `ApplicationRouter` leaves
  open too; their process records and updates are not specified.
* Conformance package: a test suite.  Calls into the IntelliJ platform and the
  editor API: not this repository's code.

## 8. Plan

Written: the daemon (registry, store, router over both, transport), the client
(engine, facade), the processes (ownership, lifecycle), the VS Code adapter (event
bridge, handles, routes with `OneShotGrant`), and proofs for all of them.  Next:

1. The daemon's plans as a second implementation of `OneShotGrant`, from the router's
   books.
2. Runs for the disagreements of section 6 that are the subject of a hazard and
   that no run shows yet: `AdapterTokensPrivate`, `AdapterNeverCancels`,
   `RetriesUntilClosed`, `GuardsEveryDocument`, `HandlesFollowDocuments`,
   `RootChangesAnnounced`.
