------------------------------ MODULE VscodeRoutes -----------------------------
(***************************************************************************)
(* The requests that the VS Code adapter serves while the user edits:      *)
(* document symbols, point resolution and search, which mint handles, and  *)
(* the two-phase edits.  Source: symbol-routes.ts, symbol-navigation-      *)
(* routes.ts, symbol-target.ts, document-routes.ts, edit-routes.ts and     *)
(* their wiring in extension.ts, all of packages/vscode-extension/src.     *)
(*                                                                         *)
(* The extension host has one thread, so a step runs from one await to the *)
(* next.  A read captures the text and then awaits its hash; the step      *)
(* after it may find another text.  A request whose signal is aborted is   *)
(* ended by the assertNotCancelled of its next continuation, before any    *)
(* effect, so Cancel ends it at once; only an edit handed to the editor,   *)
(* and the saves after it, go on.                                          *)
(* A refused request (unknown or untrusted workspace, bad parameters, no   *)
(* provider) changes nothing and is no step.  Lookups change nothing.      *)
(***************************************************************************)
EXTENDS SymbolHandles

CONSTANTS
    Requests,       \* requests in progress at once
    Ops,            \* the methods that are called
    Texts,          \* contents that a change gives a document, told apart by their hash
    FirstText,      \* what the documents hold at first
    Gone,           \* the text of a document that does not exist
    MAX_LIVE_PLANS, \* 32 in the code
    MaxTree,        \* bound on the symbols that a provider returns
    MaxChanges,     \* bound on the changes that others make to documents
    MaxSessions,    \* bound on sessions
    MaxEpoch,       \* bound on epochs
    MaxPlans        \* bound on plans prepared

ASSUME RouteConstants ==
    /\ MAX_LIVE_PLANS \in Nat \ {0}
    /\ {MaxTree, MaxChanges, MaxSessions, MaxEpoch, MaxPlans} \subseteq Nat
    /\ FirstText # Gone /\ Gone \notin Texts

VARIABLES
    text,       \* what a read of each document finds
    version,    \* how often each document has changed
    changes,    \* changes made by others so far
    unseen,     \* documents changed on disk, the watcher's event still to come
    session,    \* the adapter's session
    epoch,      \* of projectedWorkspace
    req,        \* the requests in progress
    plans,      \* #plans
    issued,     \* history: plan identifiers used so far
    applied     \* history: how often the edit of each plan was applied

docVars == <<text, version, changes, unseen>>
planVars == <<plans, issued, applied>>
vars == <<handles, docVars, session, epoch, req, planVars>>

Bracketed == {"getSymbols", "resolveAt"}
Prepares == {"rename", "prepare"}

Idle == [op |-> "none"]

PlanIds == 1 .. MaxPlans

\* A function with one entry more.
With(f, x, v) == [y \in DOMAIN f \cup {x} |-> IF y = x THEN v ELSE f[y]]

RoutesInit ==
    /\ HandlesInit
    /\ text = [d \in Docs |-> FirstText]
    /\ version = [d \in Docs |-> 0]
    /\ changes = 0 /\ unseen = {}
    /\ session = 1 /\ epoch = 1
    /\ req = [r \in Requests |-> Idle]
    /\ plans = Empty /\ issued = 0 /\ applied = [p \in PlanIds |-> 0]

\* A read of a document: the version stands for the hash too, and the epoch is
\* that of the projection.
revision(d) == [version |-> version[d], epoch |-> epoch]

Covers(plan, d) == d \in DOMAIN plan.guards

\* Mistake: a plan goes when all of its documents have changed.
UncoveredEntirely(D) == Without(plans, {p \in DOMAIN plans : DOMAIN plans[p].guards \subseteq D})

\* The plans that invalidateDocument leaves.
Uncovered(D) == Without(plans, {p \in DOMAIN plans : \E d \in D : Covers(plans[p], d)})

Ends(r) == req' = [req EXCEPT ![r] = Idle]

Waits(r, request) == req' = [req EXCEPT ![r] = request]

\* The edit of the plan has been handed to the editor.
HandedOver(r) == req[r].op = "apply" /\ req[r].at \in {"apply", "save"}

-----------------------------------------------------------------------------
(* The documents.                                                          *)

\* onDidChangeTextDocument: documentChanged invalidates in the event itself.
Changed(D, new) ==
    /\ text' = [d \in Docs |-> IF d \in D THEN new[d] ELSE text[d]]
    /\ version' = [d \in Docs |-> IF d \in D THEN version[d] + 1 ELSE version[d]]
    /\ handles' = invalidateDocuments(handles, D)
    /\ plans' = Uncovered(D)
    /\ UNCHANGED unseen

ByOthers == changes < MaxChanges /\ changes' = changes + 1

documentChanged(d, new) ==
    /\ ByOthers /\ text[d] # Gone
    /\ Changed({d}, [x \in {d} |-> new])
    /\ UNCHANGED <<session, epoch, req, issued, applied>>

\* A file that no editor holds is written, created or deleted.
DiskChange(d, new) ==
    /\ ByOthers /\ new # text[d]
    /\ text' = [text EXCEPT ![d] = new]
    /\ version' = [version EXCEPT ![d] = @ + 1]
    /\ unseen' = unseen \cup {d}
    /\ UNCHANGED <<handles, session, epoch, req, planVars>>

\* Mistake: the watcher's event reaches the plans only.
invalidateForUriPlans(d) ==
    /\ d \in unseen
    /\ unseen' = unseen \ {d}
    /\ plans' = Uncovered({d})
    /\ UNCHANGED <<handles, text, version, changes, session, epoch, req, issued, applied>>

\* invalidateForUri, called by the watcher and by the rename and delete jobs.
invalidateForUri(d) ==
    /\ d \in unseen
    /\ unseen' = unseen \ {d}
    /\ handles' = invalidateDocuments(handles, {d})
    /\ plans' = Uncovered({d})
    /\ UNCHANGED <<text, version, changes, session, epoch, req, issued, applied>>

-----------------------------------------------------------------------------
(* The workspace and the connection.                                       *)

workspaceProjectionChanged ==
    /\ epoch < MaxEpoch
    /\ epoch' = epoch + 1
    /\ handles' = NoHandles /\ plans' = Empty
    /\ UNCHANGED <<docVars, session, req, issued, applied>>

\* The connection was lost, which aborts every signal, and registration("reconnect")
\* ran on the next one: the handles go, the plans stay.
Reconnected ==
    /\ session < MaxSessions /\ epoch < MaxEpoch
    /\ session' = session + 1 /\ epoch' = epoch + 1
    /\ handles' = NoHandles
    /\ req' = [r \in Requests |-> IF HandedOver(r)
                                  THEN [req[r] EXCEPT !.aborted = TRUE] ELSE Idle]
    /\ UNCHANGED <<docVars, planVars>>

\* $/cancelRequest, and the timeout of the connection.
Cancel(r) ==
    /\ req[r] # Idle
    /\ IF HandedOver(r)
       THEN ~req[r].aborted /\ Waits(r, [req[r] EXCEPT !.aborted = TRUE])
       ELSE Ends(r)
    /\ UNCHANGED <<handles, docVars, session, epoch, planVars>>

-----------------------------------------------------------------------------
(* Handles: document/getSymbols, symbol/resolveAt, workspace/searchSymbols. *)

\* The handle that is minted for a symbol of d, under the epoch e and for the version
\* v that the request read; as history, the version of d at the minting.
Handle(kind, d, e, v) == [kind |-> kind, doc |-> d, session |-> session, epoch |-> e,
                          born |-> v, minted |-> version[d]]

\* The first read of the bracket.
StartBracket(r, op, d) ==
    /\ req[r] = Idle /\ op \in Ops /\ text[d] # Gone
    /\ Waits(r, [op |-> op, at |-> "provider", doc |-> d, before |-> revision(d)])
    /\ UNCHANGED <<handles, docVars, session, epoch, planVars>>

\* The provider answered and the second read captures; a difference is
\* STALE_DOCUMENT, and a document that is gone is not found.
SecondRead(r) ==
    /\ req[r].op \in Bracketed /\ req[r].at = "provider"
    /\ IF revision(req[r].doc) = req[r].before
       THEN Waits(r, [req[r] EXCEPT !.at = "hash"])
       ELSE Ends(r)
    /\ UNCHANGED <<handles, docVars, session, epoch, planVars>>

\* The hash arrived, and the handles are minted: nothing is compared again.
Materialize(r, ids) ==
    LET d == req[r].doc
        e == req[r].before.epoch
        v == req[r].before.version
    IN  /\ req[r].op \in Bracketed /\ req[r].at = "hash"
        /\ handles' =
            IF req[r].op = "getSymbols"
            THEN materialize(handles, d, ids, Handle("document", d, e, v))
            ELSE materializeTransient(handles,
                    {[id |-> i, record |-> Handle("transient", d, e, v)] : i \in ids})
        /\ Ends(r)
        /\ UNCHANGED <<docVars, session, epoch, planVars>>

\* symbol/resolveAt at a blank line or a comment.
NoSymbol(r) ==
    /\ req[r].op = "resolveAt" /\ req[r].at = "hash"
    /\ Ends(r)
    /\ UNCHANGED <<handles, docVars, session, epoch, planVars>>

StartSearch(r) ==
    /\ req[r] = Idle /\ "search" \in Ops
    /\ Waits(r, [op |-> "search", at |-> "provider", epoch |-> epoch])
    /\ UNCHANGED <<handles, docVars, session, epoch, planVars>>

\* Hits in several documents, at[i] being the document of i, without an await after
\* the provider's answer and without a version; nothing under another epoch.
FinishSearch(r, at) ==
    /\ req[r].op = "search" /\ epoch = req[r].epoch
    /\ handles' = materializeTransient(handles,
            {[id |-> i, record |-> Handle("transient", at[i], epoch, version[at[i]])] :
                i \in DOMAIN at})
    /\ Ends(r)
    /\ UNCHANGED <<docVars, session, epoch, planVars>>

-----------------------------------------------------------------------------
(* Preparing: refactor/prepareRename and refactor/prepare.                 *)

\* resolve() finds the target of a rename by a live handle or by relocation in the
\* symbols of a bracketed read.  Nothing of it is kept but the epoch of the start;
\* where it fails the request ends as by Cancel.
StartRename(r) ==
    /\ req[r] = Idle /\ "rename" \in Ops
    /\ Waits(r, [op |-> "rename", at |-> "provider", epoch |-> epoch, docs |-> {},
                 guards |-> Empty, todo |-> {}])
    /\ UNCHANGED <<handles, docVars, session, epoch, planVars>>

\* A reformat or a quick fix reads the revision of its document first.
StartPrepare(r, d) ==
    /\ req[r] = Idle /\ "prepare" \in Ops
    /\ Waits(r, [op |-> "prepare", at |-> "guards", epoch |-> epoch, docs |-> {d},
                 guards |-> Empty, todo |-> {d}])
    /\ UNCHANGED <<handles, docVars, session, epoch, planVars>>

\* The provider computes an edit of the documents in D.  That of a reformat is
\* about its one document; that of a quick fix has to name its document, and may
\* name others.
ProvideEdit(r, D) ==
    /\ req[r].op \in Prepares /\ req[r].at = "provider"
    /\ \A d \in D : text[d] # Gone
    /\ req[r].docs \subseteq D
    /\ Waits(r, [req[r] EXCEPT !.docs = D,
                               !.at = IF req[r].op = "rename" THEN "guards" ELSE "store",
                               !.todo = IF req[r].op = "rename" THEN D ELSE {}])
    /\ UNCHANGED <<handles, docVars, session, epoch, planVars>>

\* #revisionOf: of every document of a rename's edit, of the one document of a
\* reformat or a quick fix.
CollectPrecondition(r, d) ==
    /\ req[r].op \in Prepares /\ req[r].at = "guards" /\ d \in req[r].todo
    /\ LET rest == req[r].todo \ {d}
           next == IF rest # {} THEN "guards"
                   ELSE IF req[r].op = "rename" THEN "store" ELSE "provider"
       IN  IF text[d] = Gone THEN Ends(r)
           ELSE Waits(r, [req[r] EXCEPT !.guards = With(@, d, text[d]),
                                        !.todo = rest, !.at = next])
    /\ UNCHANGED <<handles, docVars, session, epoch, planVars>>

\* The plan as it is stored, with the epoch that the prepare began in.
NewPlan(r) ==
    [session |-> session, epoch |-> req[r].epoch, docs |-> req[r].docs, guards |-> req[r].guards,
     born |-> [d \in DOMAIN req[r].guards |-> version[d]]]

\* The last await of a prepare returned; a full store refuses the plan.
StorePlan(r) ==
    /\ req[r].op \in Prepares /\ req[r].at = "store"
    /\ IF Cardinality(DOMAIN plans) >= MAX_LIVE_PLANS
       THEN UNCHANGED <<plans, issued>>
       ELSE /\ issued < MaxPlans
            /\ issued' = issued + 1
            /\ plans' = With(plans, issued + 1, NewPlan(r))
    /\ Ends(r)
    /\ UNCHANGED <<handles, docVars, session, epoch, applied>>

\* workspace/discardPlan, and the end of the plan's lifetime: every other use of
\* #plans begins with sweepExpiredPlans.
discardPlan(p) ==
    /\ p \in DOMAIN plans
    /\ plans' = Without(plans, {p})
    /\ UNCHANGED <<handles, docVars, session, epoch, req, issued, applied>>

-----------------------------------------------------------------------------
(* workspace/applyPlan.                                                    *)

\* Mistake: the plan stays until its edit was applied.
StartApplyKeepsPlan(r, p) ==
    /\ req[r] = Idle /\ "apply" \in Ops
    /\ p \in DOMAIN plans /\ plans[p].session = session /\ plans[p].epoch = epoch
    /\ Waits(r, [op |-> "apply", at |-> "check", plan |-> p, aborted |-> FALSE,
                 docs |-> plans[p].docs, guards |-> plans[p].guards,
                 todo |-> DOMAIN plans[p].guards, checked |-> Empty])
    /\ UNCHANGED <<handles, docVars, session, epoch, planVars>>

\* #consumePlan, and the comparison of epochs.
StartApply(r, p) ==
    /\ req[r] = Idle /\ "apply" \in Ops
    /\ p \in DOMAIN plans /\ plans[p].session = session
    /\ plans' = Without(plans, {p})
    /\ IF plans[p].epoch = epoch
       THEN Waits(r, [op |-> "apply", at |-> "check", plan |-> p, aborted |-> FALSE,
                      docs |-> plans[p].docs, guards |-> plans[p].guards,
                      todo |-> DOMAIN plans[p].guards, checked |-> Empty])
       ELSE UNCHANGED req
    /\ UNCHANGED <<handles, docVars, session, epoch, issued, applied>>

\* Mistake: the document is read and its hash not compared.
CheckPreconditionBlind(r, d) ==
    /\ req[r].op = "apply" /\ req[r].at = "check" /\ d \in req[r].todo
    /\ LET rest == req[r].todo \ {d}
       IN  Waits(r, [req[r] EXCEPT !.todo = rest, !.checked = With(@, d, version[d]),
                                   !.at = IF rest = {} THEN "apply" ELSE "check"])
    /\ UNCHANGED <<handles, docVars, session, epoch, planVars>>

\* One document is read and its hash compared; after the last the edit is handed to
\* the editor.
CheckPrecondition(r, d) ==
    /\ req[r].op = "apply" /\ req[r].at = "check" /\ d \in req[r].todo
    /\ LET rest == req[r].todo \ {d}
       IN  IF text[d] = req[r].guards[d]
           THEN Waits(r, [req[r] EXCEPT !.todo = rest, !.checked = With(@, d, version[d]),
                                        !.at = IF rest = {} THEN "apply" ELSE "check"])
           ELSE Ends(r)
    /\ UNCHANGED <<handles, docVars, session, epoch, planVars>>

\* All or nothing; the change events of the edit are those of any other change.
applyEdit(r, new) ==
    LET D == req[r].docs
    IN  /\ req[r].op = "apply" /\ req[r].at = "apply"
        /\ \A d \in D : text[d] # Gone
        /\ Changed(D, new)
        /\ applied' = [applied EXCEPT ![req[r].plan] = @ + 1]
        /\ Waits(r, [req[r] EXCEPT !.at = "save", !.todo = DOMAIN req[r].guards])
        /\ UNCHANGED <<changes, session, epoch, issued>>

\* The editor refuses the edit as a whole.
EditRefused(r) ==
    /\ req[r].op = "apply" /\ req[r].at = "apply"
    /\ Ends(r)
    /\ UNCHANGED <<handles, docVars, session, epoch, planVars>>

\* save() may change the text again; the read after it finds the document gone,
\* or the signal aborted, and the rest is left undone.
SaveDocument(r, d, new) ==
    /\ req[r].op = "apply" /\ req[r].at = "save" /\ d \in req[r].todo
    /\ IF new = text[d] THEN UNCHANGED <<handles, docVars, plans>>
       ELSE ByOthers /\ text[d] # Gone /\ Changed({d}, [x \in {d} |-> new])
    /\ IF req[r].aborted \/ text[d] = Gone THEN Ends(r)
       ELSE Waits(r, [req[r] EXCEPT !.todo = @ \ {d}])
    /\ UNCHANGED <<session, epoch, issued, applied>>

FinishApply(r) ==
    /\ req[r].op = "apply" /\ req[r].at = "save" /\ req[r].todo = {}
    /\ handles' = invalidateDocuments(handles, DOMAIN req[r].guards)
    /\ Ends(r)
    /\ UNCHANGED <<docVars, session, epoch, planVars>>

-----------------------------------------------------------------------------

SymbolRequest(r) ==
    \/ \E d \in Docs, op \in Bracketed : StartBracket(r, op, d)
    \/ SecondRead(r)
    \/ \E n \in 0 .. MaxTree : \E ids \in Fresh(n) :
        (req[r].op = "resolveAt" => n = 1) /\ Materialize(r, ids)
    \/ NoSymbol(r)
    \/ StartSearch(r)
    \/ \E n \in 0 .. MaxTree : \E ids \in Fresh(n) : \E at \in [ids -> Docs] : FinishSearch(r, at)

PrepareRequest(r) ==
    \/ StartRename(r)
    \/ \E d \in Docs : StartPrepare(r, d)
    \/ \E D \in SUBSET Docs \ {{}} : ProvideEdit(r, D)
    \/ \E d \in Docs : CollectPrecondition(r, d)
    \/ StorePlan(r)

ApplyRequest(r) ==
    \/ \E p \in PlanIds : StartApply(r, p)
    \/ \E d \in Docs : CheckPrecondition(r, d)
    \/ \E new \in [Docs -> Texts] : applyEdit(r, new)
    \/ EditRefused(r)
    \/ \E d \in Docs, new \in Texts \cup {Gone} : SaveDocument(r, d, new)
    \/ FinishApply(r)

Environment ==
    \/ \E d \in Docs, new \in Texts : documentChanged(d, new)
    \/ \E d \in Docs, new \in Texts \cup {Gone} : DiskChange(d, new)
    \/ \E d \in Docs : invalidateForUri(d)
    \/ workspaceProjectionChanged
    \/ Reconnected
    \/ \E p \in PlanIds : discardPlan(p)

RoutesNext ==
    \/ Environment
    \/ \E r \in Requests :
        Cancel(r) \/ SymbolRequest(r) \/ PrepareRequest(r) \/ ApplyRequest(r)

RoutesSpec == RoutesInit /\ [][RoutesNext]_vars

-----------------------------------------------------------------------------
(* Properties.                                                             *)

\* resolve() answers with this record.
Resolves(i) == handles.records[i].session = session /\ handles.records[i].epoch = epoch

\* ADR-0016: "A handle is valid only for the physical authenticated adapter session
\* that created it, the current workspace epoch, and an unchanged document."  Here:
\* unchanged since the text that its symbol was found in, unless the watcher's event
\* is still to come.  It does not hold: the document may change while the second read
\* awaits its hash, before there is a handle that the change could invalidate.
HandlesFollowDocuments ==
    \A i \in Live(handles) : Resolves(i) =>
        LET d == handles.records[i].doc IN handles.records[i].born = version[d] \/ d \in unseen

\* What holds: a handle of an older text is one whose document changed during that
\* hash.  Whoever changes the document later ends the handle, with the watcher's
\* event at the latest, through eviction, replacement and whatever request was
\* suspended meanwhile.
OutdatedOnlyByHash ==
    \A i \in Live(handles) : Resolves(i) =>
        LET d == handles.records[i].doc IN handles.records[i].minted = version[d] \/ d \in unseen

\* No plan in store outlives a change of a document it guards, also one
\* made on disk or by the edit of another plan.  A change during the preparation
\* is caught by the check before the edit (StaleOnlyInWindow).
PlansFollowDocuments ==
    \A p \in DOMAIN plans : \A d \in DOMAIN plans[p].guards :
        plans[p].born[d] = version[d] \/ d \in unseen

\* Minting evicts search results and never another document's tree, however full
\* the registry is: the handles of a tree go together, for a new tree.
TreesSurviveMinting ==
    [][\A d \in Docs : Live(handles') \ Live(handles) # {} =>
        \/ handles.trees[d] \subseteq Live(handles')
        \/ handles'.trees[d] # {} /\ handles'.trees[d] \cap Live(handles) = {}]_vars

\* The edit of request r is applied in this step.
AppliesEdit(r) == req[r].op = "apply" /\ applied' # applied /\ req'[r] # req[r]

\* ADR-0021: "Every precondition's content hash is recompared against the document's
\* current revision in the moment before applyEdit runs.  A mismatch returns
\* STALE_DOCUMENT with the current revision and writes nothing."  It does not hold: a
\* document may change during the hashes that are awaited between its comparison and
\* applyEdit, its own the first.
EditsMeetGuards ==
    [][\A r \in Requests : AppliesEdit(r) =>
        \A d \in DOMAIN req[r].guards : text[d] = req[r].guards[d]]_vars

\* What holds: an edit meets another text than its plan was checked against only
\* where the document changed after its own check and before applyEdit.
StaleOnlyInWindow ==
    [][\A r \in Requests : AppliesEdit(r) =>
        \A d \in DOMAIN req[r].guards :
            text[d] = req[r].guards[d] \/ version[d] # req[r].checked[d]]_vars

\* ADR-0038: "A plan guards every document it changes".
GuardsEveryDocument ==
    \A p \in DOMAIN plans : plans[p].docs \subseteq DOMAIN plans[p].guards

-----------------------------------------------------------------------------
(* The plans implement OneShotGrant.                                       *)

Claims(r, p) == req[r].op = "apply" /\ req[r].at \in {"check", "apply"} /\ req[r].plan = p

Holders(p) == {r \in Requests : Claims(r, p)}

\* Where the plan is.
Stage(p) ==
    CASE applied[p] > 0 -> "spent"
      [] Holders(p) # {} -> "claimed"
      [] p \in DOMAIN plans -> "granted"
      [] p > issued -> "none"
      [] OTHER -> "void"

PlanState(p) ==
    [stage |-> Stage(p), holders |-> Holders(p), uses |-> applied[p]]

Grant == INSTANCE OneShotGrant WITH
    Grants <- PlanIds, Users <- Requests, grant <- [p \in PlanIds |-> PlanState(p)]

\* Every plan is an authority that one request claims and that is used once or not
\* at all, through retries that race with the first request, expiry, invalidation
\* while it is being applied, and reconnection: the routes implement the abstract
\* specification.
PlansAreOneShot == Grant!Spec

=============================================================================
