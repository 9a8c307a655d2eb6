------------------------------ MODULE EventBridge ------------------------------
(***************************************************************************)
(* How the VS Code adapter keeps the daemon informed: VscodeEventBridge    *)
(* (packages/vscode-extension/src/event-bridge.ts), the workspace model it *)
(* takes snapshots from (workspace-model.ts) and the registration and the  *)
(* projection of extension.ts.                                             *)
(*                                                                         *)
(* Editor events put jobs on one queue (#serialize), directly or after a   *)
(* debounce.  The head of the queue runs from one await to the next, and   *)
(* stage is where it is suspended.  A notification is sent on the live     *)
(* connection, which works while it is up, or, during synchronize, on the  *)
(* connection that is being restored; sockets keep the order, so the       *)
(* daemon knows it once it is sent.  All documents lie in folder Home.     *)
(***************************************************************************)
EXTENDS Naturals, Sequences

CONSTANTS
    Docs,                       \* documents
    FolderSets,                 \* the sets of folders a window may have
    Home,                       \* the folder of the documents
    NoWorkspace,                \* no workspace
    MaxEvents,                  \* bound on events of the editor
    MaxLinks,                   \* bound on registrations
    MaxQueue                    \* bound on jobs that wait while the editor goes on

ASSUME BridgeConstants ==
    {MaxEvents, MaxLinks, MaxQueue} \subseteq Nat

VARIABLES
    folders, trusted,   \* the editor's workspace
    active, epoch,      \* VscodeWorkspaceModel: #activeUris, #workspaceEpoch
    announced,          \* #announcedWorkspace
    projected,          \* projectedWorkspace
    events,             \* how many events there have been
    open, version,      \* textDocuments, and how often each document has changed
    pending,            \* #pendingChanges: the documents with a running timer
    pendingDiagnostics, \* #pendingDiagnostics
    queue, stage,       \* the jobs of #tail, and where the first one is suspended
    disposed,
    conn, link,         \* the connection, and how many there have been
    daemon,             \* the workspace as the daemon has been told
    told,               \* the version that the daemon was last told of
    ready,              \* the daemon was told that the workspace is ready
    dropped             \* the version at the last report of a dropped event

modelVars == <<active, epoch>>
editorVars == <<folders, trusted, open, version, events>>
timerVars == <<pending, pendingDiagnostics>>
daemonVars == <<daemon, told, ready>>
vars == <<editorVars, modelVars, announced, projected, timerVars, queue, stage, disposed,
          conn, link, daemonVars, dropped>>

Begin == [at |-> "begin"]

-----------------------------------------------------------------------------
(* Workspaces.                                                             *)

\* snapshot(): a change of the folders since the last one advances the epoch.
SnapshotEpoch == IF active = folders THEN epoch ELSE epoch + 1

Snapshot == IF folders = {} THEN NoWorkspace
            ELSE [roots |-> folders, epoch |-> SnapshotEpoch, trusted |-> trusted]

TakeSnapshot == active' = folders /\ epoch' = SnapshotEpoch

setAnnouncedWorkspace(w) == announced' = w /\ projected' = w

-----------------------------------------------------------------------------
(* The queue.                                                              *)

Enqueue(job) == queue' = Append(queue, job)

Job == Head(queue)

Runs(kind, where) == queue # <<>> /\ Job.kind = kind /\ stage.at = where

Goto(where) == stage' = where /\ UNCHANGED queue

EndJob == queue' = Tail(queue) /\ stage' = Begin

\* The notifier of the job: the candidate of a synchronize, else the live one.
CanNotify == IF Job.kind = "sync" THEN Job.link = link /\ conn \in {"restoring", "up"}
                                  ELSE conn = "up"

\* A job whose notification fails is over; a synchronize fails its restoration.
JobFails ==
    /\ EndJob
    /\ conn' = IF Job.kind = "sync" /\ Job.link = link THEN "down" ELSE conn

DocJob(method, d) == [kind |-> "doc", method |-> method, doc |-> d]

\* #queueDocument: notifier and listeners exist, the model starts with them.
queueDocument(method, d) == Enqueue(DocJob(method, d))

\* registrationCompleted: synchronize, with the workspaces that were registered.
synchronize(l, w) == [kind |-> "sync", link |-> l, ws |-> w]

\* The first registration has succeeded; the folders may have changed since.
BridgeInit ==
    /\ folders \in FolderSets /\ trusted = FALSE /\ events = 0
    /\ active \in FolderSets /\ epoch = 0
    /\ daemon = IF active = {} THEN NoWorkspace
               ELSE [roots |-> active, epoch |-> 0, trusted |-> FALSE]
    /\ projected = daemon
    /\ queue = <<synchronize(1, daemon)>>
    /\ announced = NoWorkspace
    /\ open \in SUBSET Docs
    /\ version = [d \in Docs |-> 1]
    /\ pending = {} /\ pendingDiagnostics = {}
    /\ stage = Begin /\ disposed = FALSE
    /\ conn = "up" /\ link = 1
    /\ told = [d \in Docs |-> 0] /\ ready = FALSE
    /\ dropped = [d \in Docs |-> 0]

-----------------------------------------------------------------------------
(* Editor events.  Listeners are removed by dispose().                     *)

Event == /\ ~disposed
         /\ events < MaxEvents /\ Len(queue) < MaxQueue
         /\ events' = events + 1

onDidOpenTextDocument(d) ==
    /\ Event /\ d \notin open
    /\ open' = open \cup {d}
    /\ queueDocument("opened", d)
    /\ UNCHANGED <<folders, trusted, version, modelVars, announced, projected, timerVars, stage,
                   disposed, conn, link, daemonVars, dropped>>

\* #debounceDocumentChange: a timer per document, and no timer when all
\* MAX_DEBOUNCED_DOCUMENTS run, those of documents outside Docs included.
onDidChangeTextDocument(d) ==
    /\ Event /\ d \in open
    /\ version' = [version EXCEPT ![d] = @ + 1]
    /\ \/ d \notin pending /\ queueDocument("changed", d) /\ pending' = pending
       \/ pending' = pending \cup {d} /\ queue' = queue
    /\ UNCHANGED <<folders, trusted, open, modelVars, announced, projected, pendingDiagnostics,
                   stage, disposed, conn, link, daemonVars, dropped>>

\* The timer of a change: the document is queued as it is then.
ChangeTimer(d) ==
    /\ d \in pending
    /\ pending' = pending \ {d}
    /\ queueDocument("changed", d)
    /\ UNCHANGED <<editorVars, modelVars, announced, projected, pendingDiagnostics, stage,
                   disposed, conn, link, daemonVars, dropped>>

\* Mistake: the pending change is dropped, the save or the close standing for it.
FlushForgotten(method, d) == pending' = pending \ {d} /\ queueDocument(method, d)

\* Save and close flush the pending change and queue behind it.
FlushAndQueue(method, d) ==
    /\ pending' = pending \ {d}
    /\ queue' = queue \o (IF d \in pending THEN <<DocJob("changed", d)>> ELSE <<>>)
                      \o <<DocJob(method, d)>>

onDidSaveTextDocument(d) ==
    /\ Event /\ d \in open
    /\ FlushAndQueue("saved", d)
    /\ UNCHANGED <<folders, trusted, open, version, modelVars, announced, projected,
                   pendingDiagnostics, stage, disposed, conn, link, daemonVars, dropped>>

onDidCloseTextDocument(d) ==
    /\ Event /\ d \in open
    /\ open' = open \ {d}
    /\ FlushAndQueue("closed", d)
    /\ UNCHANGED <<folders, trusted, version, modelVars, announced, projected,
                   pendingDiagnostics, stage, disposed, conn, link, daemonVars, dropped>>

onDidRenameFiles(d) ==
    /\ Event /\ d \in open
    /\ queueDocument("renamed", d)
    /\ UNCHANGED <<folders, trusted, open, version, modelVars, announced, projected, timerVars,
                   stage, disposed, conn, link, daemonVars, dropped>>

\* #queueDelete names the document without reading it.
onDidDeleteFiles(d) ==
    /\ Event
    /\ Enqueue([kind |-> "delete", doc |-> d])
    /\ UNCHANGED <<folders, trusted, open, version, modelVars, announced, projected, timerVars,
                   stage, disposed, conn, link, daemonVars, dropped>>

\* A change of diagnostics beyond the limit is forgotten, which is no step.
onDidChangeDiagnostics(d) ==
    /\ Event
    /\ pendingDiagnostics' = pendingDiagnostics \cup {d}
    /\ UNCHANGED <<folders, trusted, open, version, modelVars, announced, projected, pending,
                   queue, stage, disposed, conn, link, daemonVars, dropped>>

DiagnosticsTimer(d) ==
    /\ d \in pendingDiagnostics
    /\ pendingDiagnostics' = pendingDiagnostics \ {d}
    /\ queueDocument("diagnostics", d)
    /\ UNCHANGED <<editorVars, modelVars, announced, projected, pending, stage, disposed,
                   conn, link, daemonVars, dropped>>

onDidChangeWorkspaceFolders(f) ==
    /\ Event /\ f # folders
    /\ folders' = f
    /\ Enqueue([kind |-> "reconcile"])
    /\ UNCHANGED <<trusted, open, version, modelVars, announced, projected, timerVars, stage,
                   disposed, conn, link, daemonVars, dropped>>

onDidGrantWorkspaceTrust ==
    /\ Event /\ ~trusted
    /\ trusted' = TRUE
    /\ Enqueue([kind |-> "trust"])
    /\ UNCHANGED <<folders, open, version, modelVars, announced, projected, timerVars, stage,
                   disposed, conn, link, daemonVars, dropped>>

dispose ==
    /\ ~disposed
    /\ disposed' = TRUE
    /\ pending' = {} /\ pendingDiagnostics' = {}
    /\ UNCHANGED <<editorVars, modelVars, announced, projected, queue, stage, conn, link,
                   daemonVars, dropped>>

-----------------------------------------------------------------------------
(* Jobs about documents.                                                   *)

\* mapOpenDocument finds the document in the projected workspace and in a folder.
Mappable == projected # NoWorkspace /\ Home \in projected.roots \cap folders \cap active

\* What stands for the text of a document; a save and a close follow a change.
Carries == {"opened", "changed"}

Dropped(method, d, v) ==
    dropped' = IF method \in Carries THEN [dropped EXCEPT ![d] = v] ELSE dropped

\* #notifyDocument, and the jobs of renames and diagnostics, which look for the
\* document among the open ones first.
MapDocument ==
    LET d == Job.doc
    IN  /\ Runs("doc", "begin")
        /\ \/ /\ \/ disposed \/ ~Mappable
                 \/ Job.method \in {"renamed", "diagnostics"} /\ d \notin open
              /\ Dropped(Job.method, d, version[d])
              /\ EndJob
           \/ /\ ~disposed /\ Mappable /\ (Job.method \in {"renamed", "diagnostics"} => d \in open)
              /\ Goto([at |-> "send", v |-> version[d]])
              /\ dropped' = dropped
        /\ UNCHANGED <<editorVars, modelVars, announced, projected, timerVars, disposed,
                       conn, link, daemonVars>>

NotifyDocument ==
    LET d == Job.doc
    IN  /\ Runs("doc", "send")
        /\ IF CanNotify
           THEN /\ told' = IF Job.method = "diagnostics" THEN told
                           ELSE [told EXCEPT ![d] = stage.v]
                /\ dropped' = dropped
           ELSE /\ told' = told
                /\ Dropped(Job.method, d, stage.v)
        /\ EndJob
        /\ UNCHANGED <<editorVars, modelVars, announced, projected, timerVars, disposed,
                       conn, link, daemon, ready>>

DeleteJob ==
    /\ Runs("delete", "begin")
    /\ EndJob
    /\ UNCHANGED <<editorVars, modelVars, announced, projected, timerVars, disposed,
                   conn, link, daemonVars, dropped>>

-----------------------------------------------------------------------------
(* Jobs about the workspace.                                               *)

\* The trust job announces the whole workspace and tells only its trust.
TrustJob ==
    /\ Runs("trust", "begin")
    /\ IF disposed THEN UNCHANGED <<modelVars, announced, projected, daemon>>
       ELSE /\ TakeSnapshot
            /\ IF Snapshot = NoWorkspace THEN UNCHANGED <<announced, projected, daemon>>
               ELSE /\ setAnnouncedWorkspace(Snapshot)
                    /\ daemon' = IF CanNotify /\ daemon # NoWorkspace
                                 THEN [daemon EXCEPT !.trusted = TRUE] ELSE daemon
    /\ EndJob
    /\ UNCHANGED <<editorVars, timerVars, disposed, conn, link, told, ready, dropped>>

\* The documents of a synchronize are those that are open when its loop begins.
AfterReconcile == IF Job.kind = "sync" THEN Goto([at |-> "docs", todo |-> open]) ELSE EndJob

\* Mistake: the workspace is announced, and then the notification sent.
ReconcilesEarly(was, now) ==
    /\ setAnnouncedWorkspace(now)
    /\ \/ CanNotify /\ daemon' = now /\ AfterReconcile /\ UNCHANGED <<ready, conn>>
       \/ ~CanNotify /\ JobFails /\ UNCHANGED <<daemon, ready>>

\* synchronize begins with the workspace that was registered.
BeginsWith(was) ==
    IF Job.kind = "sync" THEN setAnnouncedWorkspace(was) ELSE UNCHANGED <<announced, projected>>

\* #reconcileWorkspace: an announcement stands once its notification is written.
Reconciles(was, now) ==
    LET differ == was # NoWorkspace /\ now # NoWorkspace
                    /\ (was.roots # now.roots \/ was.epoch # now.epoch)
        same == was # NoWorkspace /\ now # NoWorkspace /\ ~differ
    IN  \/ /\ same \/ (was = NoWorkspace /\ now = NoWorkspace)
           /\ AfterReconcile
           /\ IF same /\ was.trusted = now.trusted THEN setAnnouncedWorkspace(now)
                                                  ELSE BeginsWith(was)
           /\ UNCHANGED <<daemon, ready, conn>>
        \/ /\ was = NoWorkspace /\ now # NoWorkspace /\ CanNotify
           /\ daemon' = now
           /\ Goto([at |-> "opened", ws |-> now])
           /\ BeginsWith(was) /\ UNCHANGED <<ready, conn>>
        \/ /\ was # NoWorkspace /\ now = NoWorkspace /\ CanNotify
           /\ daemon' = NoWorkspace /\ ready' = FALSE
           /\ Goto([at |-> "announce", ws |-> NoWorkspace])
           /\ BeginsWith(was) /\ UNCHANGED conn
        \/ /\ differ /\ CanNotify
           /\ daemon' = IF daemon = NoWorkspace THEN daemon
                        ELSE [daemon EXCEPT !.roots = now.roots, !.epoch = now.epoch]
           /\ Goto([at |-> "announce",
                    ws |-> [was EXCEPT !.roots = now.roots, !.epoch = now.epoch]])
           /\ BeginsWith(was) /\ UNCHANGED <<ready, conn>>
        \/ /\ differ \/ (was = NoWorkspace) # (now = NoWorkspace)
           /\ ~CanNotify /\ JobFails
           /\ BeginsWith(was) /\ UNCHANGED <<daemon, ready>>

\* A change of the folders; a synchronize announces what was registered first.
ReconcileWorkspace ==
    /\ Runs("reconcile", "begin") \/ Runs("sync", "begin")
    /\ TakeSnapshot
    /\ Reconciles(IF Job.kind = "sync" THEN Job.ws ELSE announced, Snapshot)
    /\ UNCHANGED <<editorVars, timerVars, disposed, link, told, dropped>>

Announced ==
    /\ queue # <<>> /\ stage.at = "announce"
    /\ setAnnouncedWorkspace(stage.ws)
    /\ AfterReconcile
    /\ UNCHANGED <<editorVars, modelVars, timerVars, disposed, conn, link, daemonVars, dropped>>

\* #announceReadiness after workspace/opened.
OpenedReady ==
    /\ queue # <<>> /\ stage.at = "opened"
    /\ IF CanNotify
       THEN /\ ready' = TRUE /\ setAnnouncedWorkspace(stage.ws)
            /\ AfterReconcile /\ UNCHANGED conn
       ELSE JobFails /\ UNCHANGED <<ready, announced, projected>>
    /\ UNCHANGED <<editorVars, modelVars, timerVars, disposed, link, daemon, told, dropped>>

\* synchronize announces each open document.
SyncDocument(d) ==
    /\ Runs("sync", "docs") /\ d \in stage.todo
    /\ \/ /\ disposed \/ ~Mappable
          /\ Dropped("opened", d, version[d])
          /\ Goto([stage EXCEPT !.todo = @ \ {d}])
       \/ /\ ~disposed /\ Mappable
          /\ Goto([at |-> "sendDoc", doc |-> d, v |-> version[d], todo |-> stage.todo \ {d}])
          /\ dropped' = dropped
    /\ UNCHANGED <<editorVars, modelVars, announced, projected, timerVars, disposed,
                   conn, link, daemonVars>>

SyncNotify ==
    /\ Runs("sync", "sendDoc")
    /\ IF CanNotify
       THEN /\ told' = [told EXCEPT ![stage.doc] = stage.v]
            /\ Goto([at |-> "docs", todo |-> stage.todo]) /\ UNCHANGED conn
       ELSE JobFails /\ told' = told
    /\ UNCHANGED <<editorVars, modelVars, announced, projected, timerVars, disposed, link,
                   daemon, ready, dropped>>

\* Mistake: only workspace/opened is followed by a status.
SyncSilent ==
    /\ Runs("sync", "docs") /\ stage.todo = {}
    /\ EndJob
    /\ UNCHANGED <<editorVars, modelVars, announced, projected, timerVars, disposed, link,
                   conn, daemonVars, dropped>>

\* #announceReadiness at the end of synchronize.
SyncReady ==
    /\ Runs("sync", "docs") /\ stage.todo = {}
    /\ \/ /\ announced = NoWorkspace
          /\ EndJob /\ UNCHANGED <<ready, conn>>
       \/ /\ announced # NoWorkspace /\ CanNotify
          /\ ready' = TRUE
          /\ EndJob /\ UNCHANGED conn
       \/ /\ announced # NoWorkspace /\ ~CanNotify
          /\ JobFails /\ ready' = ready
    /\ UNCHANGED <<editorVars, modelVars, announced, projected, timerVars, disposed, link,
                   daemon, told, dropped>>

-----------------------------------------------------------------------------
(* The connection, reduced to its stages.                                  *)

\* The daemon forgets the session with the connection.
ConnectionLost ==
    /\ conn # "down"
    /\ conn' = "down"
    /\ daemon' = NoWorkspace /\ told' = [d \in Docs |-> 0] /\ ready' = FALSE
    /\ UNCHANGED <<editorVars, modelVars, announced, projected, timerVars, queue, stage,
                   disposed, link, dropped>>

\* registration("reconnect") takes the snapshot; ide/register carries it.
Register ==
    /\ conn = "down" /\ ~disposed /\ link < MaxLinks
    /\ active' = folders
    /\ LET w == IF folders = {} THEN NoWorkspace
                ELSE [Snapshot EXCEPT !.epoch = SnapshotEpoch + 1]
       IN  projected' = w /\ daemon' = w
    /\ epoch' = SnapshotEpoch + 1
    /\ conn' = "registering" /\ link' = link + 1
    /\ UNCHANGED <<editorVars, announced, timerVars, queue, stage, disposed, told, ready, dropped>>

Registered ==
    /\ conn = "registering"
    /\ conn' = "restoring"
    /\ queue' = IF disposed THEN queue ELSE Append(queue, synchronize(link, daemon))
    /\ UNCHANGED <<editorVars, modelVars, announced, projected, timerVars, stage, disposed,
                   link, daemonVars, dropped>>

\* restoreSession returned: the reconnecting connection is open to everyone.
Published ==
    /\ conn = "restoring"
    /\ \A i \in DOMAIN queue : queue[i].kind = "sync" => queue[i].link # link
    /\ conn' = "up"
    /\ UNCHANGED <<editorVars, modelVars, announced, projected, timerVars, queue, stage,
                   disposed, link, daemonVars, dropped>>

-----------------------------------------------------------------------------

DocumentEvent(d) ==
    \/ onDidOpenTextDocument(d) \/ onDidChangeTextDocument(d)
    \/ onDidSaveTextDocument(d) \/ onDidCloseTextDocument(d)
    \/ onDidRenameFiles(d) \/ onDidDeleteFiles(d) \/ onDidChangeDiagnostics(d)

WorkspaceEvent ==
    (\E f \in FolderSets : onDidChangeWorkspaceFolders(f)) \/ onDidGrantWorkspaceTrust

Timer(d) == ChangeTimer(d) \/ DiagnosticsTimer(d)

JobStep ==
    \/ MapDocument \/ NotifyDocument \/ DeleteJob \/ TrustJob
    \/ ReconcileWorkspace \/ Announced \/ OpenedReady
    \/ (\E d \in Docs : SyncDocument(d)) \/ SyncNotify \/ SyncReady

ConnectionStep == ConnectionLost \/ Register \/ Registered \/ Published

BridgeNext ==
    \/ \E d \in Docs : DocumentEvent(d) \/ Timer(d)
    \/ WorkspaceEvent \/ dispose \/ JobStep \/ ConnectionStep

BridgeSpec == BridgeInit /\ [][BridgeNext]_vars

\* Node runs what is due: the continuations of the queue and the restoration of a
\* connection whose registration was answered.
BridgeFairness == WF_vars(JobStep) /\ WF_vars(Registered) /\ WF_vars(Published)

FairBridgeSpec == BridgeSpec /\ BridgeFairness

-----------------------------------------------------------------------------
(* Properties.                                                             *)

\* A job that is going to read the document as it is now, or has read it so.
WillTell(i, d) ==
    LET job == queue[i]
        suspended == i = 1 /\ stage.at # "begin"
    IN  \/ job.kind = "doc" /\ job.doc = d /\ job.method \in Carries
            /\ (suspended => stage.v = version[d])
        \/ job.kind = "sync" /\ job.link = link
            /\ (suspended => \/ stage.at \in {"opened", "announce"}
                             \/ stage.at \in {"docs", "sendDoc"} /\ d \in stage.todo
                             \/ stage.at = "sendDoc" /\ stage.doc = d /\ stage.v = version[d])

\* No change of an open document is lost in silence: the daemon has been told of
\* the current text, or a timer or a job is going to tell it, or a drop was
\* reported (#dropped).  Through bursts, flushes, reconnections, the overflow of
\* the timers and changes of the folders.
NoChangeForgotten ==
    \A d \in open : conn = "up" /\ ~disposed /\ told[d] # version[d] =>
        \/ d \in pending \/ dropped[d] = version[d]
        \/ \E i \in DOMAIN queue : WillTell(i, d)

\* ADR-0015: "Routed document mapping uses the last workspace projection written to
\* the daemon, not a newer VS Code folder snapshot".  Holds until trust is granted.
ProjectionNotNewer ==
    conn = "up" /\ ~trusted /\ projected # NoWorkspace /\ daemon # NoWorkspace =>
        projected.epoch <= daemon.epoch

\* A workspace that the daemon knows becomes ready, unless the connection, the
\* workspace or the bridge goes first.
ReadyReached ==
    (conn = "up" /\ daemon # NoWorkspace)
        ~> (ready \/ conn # "up" \/ daemon = NoWorkspace \/ disposed)

\* ADR-0015: "A non-empty root change emits workspace/rootsChanged with the
\* advanced epoch": once nothing is left to do, the daemon's roots are the editor's.
\* It does not hold: a trust job records roots that it does not announce, and a
\* reconciliation between the end of synchronize and the return of the restoration
\* has no connection to send on.
RootChangesAnnounced ==
    conn = "up" /\ ~disposed /\ queue = <<>> /\ daemon # NoWorkspace /\ folders # {} =>
        daemon.roots = folders

\* event-bridge.ts: "Saying it after the projection means a consumer that acts on
\* `ready` finds the open documents already announced".
ReadyAfterDocuments ==
    ready /\ conn = "up" /\ ~disposed /\ queue = <<>> /\ Mappable =>
        \A d \in open : told[d] > 0

=============================================================================
