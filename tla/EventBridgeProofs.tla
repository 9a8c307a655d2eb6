-------------------------- MODULE EventBridgeProofs ---------------------------
(***************************************************************************)
(* Proofs about the event bridge, for all documents, folders, events and   *)
(* reconnections.                                                          *)
(*                                                                         *)
(* NoChangeForgotten has to hold from the moment a connection is restored, *)
(* before it is up, and has to say more of a notification that is already  *)
(* on its way: when the text it carries is no longer the current one, a    *)
(* timer or a later job has to be there, since sending it, or dropping it, *)
(* overwrites what the daemon was told of and what was reported.           *)
(* ProjectionNotNewer has to hold of every workspace that the bridge is    *)
(* going to announce as well.                                              *)
(***************************************************************************)
EXTENDS EventBridge, SequenceTheorems, TLAPS

Workspace == [roots : FolderSets, epoch : Nat, trusted : BOOLEAN]

Workspaces == Workspace \cup {NoWorkspace}

Methods == {"opened", "changed", "saved", "closed", "renamed", "diagnostics"}

Jobs == [kind : {"doc"}, method : Methods, doc : Docs] \cup [kind : {"delete"}, doc : Docs]
        \cup [kind : {"reconcile", "trust"}] \cup [kind : {"sync"}, link : Nat, ws : Workspaces]

Stages == [at : {"begin"}] \cup [at : {"send"}, v : Nat] \cup [at : {"opened", "announce"}, ws : Workspaces]
          \cup [at : {"docs"}, todo : SUBSET Docs]
          \cup [at : {"sendDoc"}, doc : Docs, v : Nat, todo : SUBSET Docs]

EditorTypeOK ==
    /\ folders \in FolderSets
    /\ trusted \in BOOLEAN
    /\ open \subseteq Docs
    /\ version \in [Docs -> Nat]
    /\ events \in Nat
    /\ pending \subseteq Docs
    /\ pendingDiagnostics \subseteq Docs
    /\ disposed \in BOOLEAN

WorkspaceTypeOK ==
    /\ active \in FolderSets
    /\ epoch \in Nat
    /\ announced \in Workspaces
    /\ projected \in Workspaces
    /\ daemon \in Workspaces
    /\ conn \in {"up", "down", "registering", "restoring"}
    /\ link \in Nat
    /\ ready \in BOOLEAN

\* Where a job may be suspended.
JobTypeOK ==
    /\ queue \in Seq(Jobs)
    /\ stage \in Stages
    /\ queue = << >> => stage.at = "begin"
    /\ queue # << >> => /\ stage.at = "send" => Job.kind = "doc"
                        /\ stage.at \in {"docs", "sendDoc"} => Job.kind = "sync"
                        /\ stage.at \in {"opened", "announce"} => Job.kind \in {"sync", "reconcile"}
    /\ told \in [Docs -> Nat]
    /\ dropped \in [Docs -> Nat]

\* A timer or a job is going to tell the daemon of d as it is now.
Covered(d) == d \in pending \/ \E i \in DOMAIN queue : WillTell(i, d)

\* The notification on its way says less than there is to say of d.
Outdated(d) ==
    \/ stage.at = "send" /\ Job.doc = d /\ stage.v # version[d]
    \/ stage.at = "sendDoc" /\ stage.doc = d /\ stage.v # version[d]

Served == ~disposed /\ conn \in {"restoring", "up"}

Accounted(d) ==
    /\ told[d] # version[d] => Covered(d) \/ dropped[d] = version[d]
    /\ Outdated(d) => Covered(d)

ChangesCovered == Served => \A d \in open : Accounted(d)

\* Workspace w was known when the epoch was e.
KnownAt(w, e) == w # NoWorkspace => w.epoch <= e

AllKnownAt(w1, w2, at, jobs, e) ==
    /\ KnownAt(w1, e)
    /\ KnownAt(w2, e)
    /\ at.at \in {"opened", "announce"} => KnownAt(at.ws, e)
    /\ \A i \in DOMAIN jobs : jobs[i].kind = "sync" => KnownAt(jobs[i].ws, e)

\* Nothing the bridge knows is newer than the model, or than the daemon's.
EpochsOrdered ==
    /\ AllKnownAt(announced, projected, stage, queue, epoch)
    /\ KnownAt(daemon, epoch)
    /\ \A i \in DOMAIN queue : queue[i].kind = "trust" => trusted
    /\ ~trusted /\ daemon # NoWorkspace =>
            AllKnownAt(announced, projected, stage, queue, daemon.epoch)

BridgeInvariant ==
    /\ EditorTypeOK
    /\ WorkspaceTypeOK
    /\ JobTypeOK
    /\ ChangesCovered
    /\ EpochsOrdered

-----------------------------------------------------------------------------
(* What a step does to the queue: it adds jobs, ends the first one, or moves *)
(* it to another stage.                                                    *)

Adds(S) ==
    /\ queue' \in Seq(Jobs) /\ stage' = stage
    /\ \A i \in DOMAIN queue : i \in DOMAIN queue' /\ queue'[i] = queue[i]
    /\ \A i \in DOMAIN queue' \ DOMAIN queue : queue'[i] \in S /\ (i = 1 => stage.at = "begin")
    /\ \A x \in S : \E i \in DOMAIN queue' \ DOMAIN queue : queue'[i] = x

Ends == queue # << >> /\ queue' = Tail(queue) /\ stage' = Begin

Moves == queue # << >> /\ queue' = queue /\ stage' \in Stages

\* What a job and a stage hold.
LEMMA JobShape ==
    ASSUME NEW j \in Jobs
    PROVE  /\ j.kind \in {"doc", "delete", "reconcile", "trust", "sync"}
           /\ j.kind = "doc" => j.method \in Methods /\ j.doc \in Docs
           /\ j.kind = "sync" => j.link \in Nat /\ j.ws \in Workspaces
  BY DEF Jobs

\* What a stage holds.
LEMMA StageShape ==
    ASSUME NEW s \in Stages
    PROVE  /\ s.at \in {"begin", "send", "opened", "announce", "docs", "sendDoc"}
           /\ s.at \in {"send", "sendDoc"} => s.v \in Nat
           /\ s.at \in {"opened", "announce"} => s.ws \in Workspaces
           /\ s.at \in {"docs", "sendDoc"} => s.todo \in SUBSET Docs
           /\ s.at = "sendDoc" => s.doc \in Docs
  BY DEF Stages

\* The first job.
LEMMA FirstJob ==
    ASSUME JobTypeOK, queue # << >>
    PROVE  1 \in DOMAIN queue /\ Job = queue[1] /\ Job \in Jobs
  BY DEF JobTypeOK, Job

\* One job more, and two.
LEMMA AddsOne ==
    ASSUME JobTypeOK, NEW x \in Jobs, queue' = Append(queue, x), stage' = stage
    PROVE  Adds({x})
PROOF
  <1>1. /\ queue' \in Seq(Jobs) /\ Len(queue) \in Nat
        /\ DOMAIN queue = 1 .. Len(queue) /\ DOMAIN queue' = 1 .. (Len(queue) + 1)
        /\ \A i \in DOMAIN queue : queue'[i] = queue[i]
        /\ queue'[Len(queue) + 1] = x
    BY DEF JobTypeOK
  <1>2. Len(queue) = 0 => queue = << >>
    BY DEF JobTypeOK
  <1>3. DOMAIN queue' \ DOMAIN queue = {Len(queue) + 1}
    BY <1>1
  <1>4. Len(queue) + 1 = 1 => stage.at = "begin"
    BY <1>1, <1>2 DEF JobTypeOK
  <1> QED BY <1>1, <1>3, <1>4 DEF Adds

\* Two jobs more.
LEMMA AddsTwo ==
    ASSUME JobTypeOK, NEW x \in Jobs, NEW y \in Jobs,
           queue' = Append(Append(queue, x), y), stage' = stage
    PROVE  Adds({x, y})
PROOF
  <1> DEFINE q == Append(queue, x)
  <1>1. /\ q \in Seq(Jobs) /\ Len(queue) \in Nat /\ Len(q) = Len(queue) + 1
        /\ DOMAIN queue = 1 .. Len(queue) /\ DOMAIN q = 1 .. (Len(queue) + 1)
        /\ \A i \in DOMAIN queue : q[i] = queue[i]
        /\ q[Len(queue) + 1] = x
    BY DEF JobTypeOK
  <1>2. Len(queue) = 0 => stage.at = "begin"
    BY DEF JobTypeOK
  <1>3. queue' = Append(q, y)
    OBVIOUS
  <1> HIDE DEF q
  <1>4. /\ queue' \in Seq(Jobs) /\ DOMAIN queue' = 1 .. (Len(queue) + 2)
        /\ \A i \in DOMAIN q : queue'[i] = q[i]
        /\ queue'[Len(queue) + 2] = y
    BY <1>1, <1>3
  <1>5. DOMAIN queue' \ DOMAIN queue = {Len(queue) + 1, Len(queue) + 2}
    BY <1>1, <1>4
  <1>6. \A i \in DOMAIN queue : i \in DOMAIN queue' /\ queue'[i] = queue[i]
    BY <1>1, <1>4
  <1>7. queue'[Len(queue) + 1] = x /\ (Len(queue) + 1 = 1 => stage.at = "begin") /\ Len(queue) + 2 # 1
    BY <1>1, <1>2, <1>4
  <1> QED BY <1>4, <1>5, <1>6, <1>7 DEF Adds

\* No job more.
LEMMA AddsNone ==
    ASSUME JobTypeOK, queue' = queue, stage' = stage
    PROVE  Adds({})
  BY DEF Adds, JobTypeOK

\* The jobs that stay when the first one ends.
LEMMA EndsShifts ==
    ASSUME JobTypeOK, Ends
    PROVE  /\ queue' \in Seq(Jobs) /\ stage' = Begin /\ stage' \in Stages /\ stage'.at = "begin"
           /\ \A i \in DOMAIN queue' : i + 1 \in DOMAIN queue /\ queue'[i] = queue[i + 1]
           /\ \A i \in DOMAIN queue : i # 1 => i - 1 \in DOMAIN queue' /\ queue'[i - 1] = queue[i]
PROOF
  <1>1. queue \in Seq(Jobs) /\ queue # << >> /\ queue' = Tail(queue) /\ stage' = Begin
    BY DEF JobTypeOK, Ends
  <1>2. /\ queue' \in Seq(Jobs) /\ Len(queue) \in Nat /\ Len(queue) >= 1
        /\ DOMAIN queue = 1 .. Len(queue) /\ DOMAIN queue' = 1 .. (Len(queue) - 1)
        /\ \A i \in DOMAIN queue' : queue'[i] = queue[i + 1]
    BY <1>1
  <1>3. stage' \in Stages /\ stage'.at = "begin"
    BY <1>1 DEF Begin, Stages
  <1>4. \A i \in DOMAIN queue' : i + 1 \in DOMAIN queue
    BY <1>2
  <1>5. ASSUME NEW i \in DOMAIN queue, i # 1 PROVE i - 1 \in DOMAIN queue' /\ queue'[i - 1] = queue[i]
    BY <1>2, <1>5
  <1> QED BY <1>1, <1>2, <1>3, <1>4, <1>5

\* Each keeps jobs and stages in their types.
LEMMA JobTypesKept ==
    ASSUME JobTypeOK, told' \in [Docs -> Nat], dropped' \in [Docs -> Nat],
           \/ \E S : Adds(S)
           \/ Ends
           \/ /\ Moves
              /\ stage'.at = "send" => Job.kind = "doc"
              /\ stage'.at \in {"docs", "sendDoc"} => Job.kind = "sync"
              /\ stage'.at \in {"opened", "announce"} => Job.kind \in {"sync", "reconcile"}
    PROVE  JobTypeOK'
PROOF
  <1>1. ASSUME NEW S, Adds(S) PROVE JobTypeOK'
    <2>1. queue' \in Seq(Jobs) /\ stage' = stage
      BY <1>1 DEF Adds
    <2>2. CASE queue = << >>
      <3>1. stage'.at = "begin"
        BY <2>1, <2>2 DEF JobTypeOK
      <3> QED BY <2>1, <3>1 DEF JobTypeOK
    <2>3. CASE queue # << >>
      <3>1. 1 \in DOMAIN queue' /\ queue'[1] = Job /\ queue' # << >>
        BY <1>1, <2>1, <2>3, FirstJob DEF Adds
      <3>2. Job' = Job
        BY <2>1, <3>1 DEF Job
      <3> QED BY <2>1, <2>3, <3>1, <3>2 DEF JobTypeOK
    <2> QED BY <2>2, <2>3
  <1>2. ASSUME Ends PROVE JobTypeOK'
    BY <1>2, EndsShifts DEF JobTypeOK
  <1>3. ASSUME Moves,
               stage'.at = "send" => Job.kind = "doc",
               stage'.at \in {"docs", "sendDoc"} => Job.kind = "sync",
               stage'.at \in {"opened", "announce"} => Job.kind \in {"sync", "reconcile"}
        PROVE  JobTypeOK'
    <2>1. queue' = queue /\ queue # << >> /\ Job' = Job /\ stage' \in Stages
      BY <1>3 DEF Moves, Job
    <2> QED BY <1>3, <2>1 DEF JobTypeOK
  <1> QED BY <1>1, <1>2, <1>3

-----------------------------------------------------------------------------
(* Changes of documents.                                                   *)

\* Jobs that are added leave a document accounted for, ...
LEMMA AddsAccounts ==
    ASSUME JobTypeOK, NEW S, Adds(S), NEW d \in Docs, Accounted(d),
           link' = link, version'[d] = version[d], told'[d] = told[d], dropped'[d] = dropped[d],
           d \in pending => d \in pending'
    PROVE  Accounted(d)'
PROOF
  <1>1. \A i \in DOMAIN queue : i \in DOMAIN queue' /\ queue'[i] = queue[i]
    BY DEF Adds
  <1>2. stage' = stage
    BY DEF Adds
  <1>3. ASSUME NEW i \in DOMAIN queue, WillTell(i, d) PROVE WillTell(i, d)'
    BY <1>1, <1>2, <1>3 DEF WillTell
  <1>4. Covered(d) => Covered(d)'
    BY <1>1, <1>3 DEF Covered
  <1>5. Outdated(d)' => Outdated(d)
    <2>1. CASE queue = << >>
      BY <1>2, <2>1 DEF JobTypeOK, Outdated
    <2>2. CASE queue # << >>
      <3>1. Job' = Job
        BY <1>1, <2>2, FirstJob DEF Job, Adds
      <3> QED BY <1>2, <3>1 DEF Outdated
    <2> QED BY <2>1, <2>2
  <1> QED BY <1>4, <1>5 DEF Accounted

\* ... and a job that carries it, or a synchronize, accounts for it.
LEMMA AddedTells ==
    ASSUME JobTypeOK, NEW S, Adds(S), NEW d \in Docs, NEW x \in S,
           \/ x.kind = "doc" /\ x.doc = d /\ x.method \in Carries
           \/ x.kind = "sync" /\ x.link = link'
    PROVE  Accounted(d)'
PROOF
  <1>1. PICK i \in DOMAIN queue' \ DOMAIN queue : queue'[i] = x
    BY DEF Adds
  <1>2. i = 1 => stage'.at = "begin"
    BY <1>1 DEF Adds
  <1>3. WillTell(i, d)'
    BY <1>1, <1>2 DEF WillTell
  <1> QED BY <1>1, <1>3 DEF Accounted, Covered

\* So does a timer.
LEMMA TimerAccounts ==
    ASSUME NEW d, d \in pending'
    PROVE  Accounted(d)'
  BY DEF Accounted, Covered

\* The end of the first job.
LEMMA EndsAccounts ==
    ASSUME JobTypeOK, Ends, NEW d \in Docs, Accounted(d),
           link' = link, version' = version, pending' = pending,
           \/ told'[d] = version[d]
           \/ dropped'[d] = version[d]
           \/ /\ ~WillTell(1, d)
              /\ Outdated(d) \/ (told'[d] = told[d] /\ dropped'[d] = dropped[d])
    PROVE  Accounted(d)'
PROOF
  <1>1. ~Outdated(d)'
    BY EndsShifts DEF Outdated
  <1>2. ASSUME NEW i \in DOMAIN queue, i # 1, WillTell(i, d) PROVE Covered(d)'
    <2>1. i - 1 \in DOMAIN queue' /\ queue'[i - 1] = queue[i] /\ stage'.at = "begin"
      BY <1>2, EndsShifts
    <2>2. WillTell(i - 1, d)'
      BY <1>2, <2>1 DEF WillTell
    <2> QED BY <2>1, <2>2 DEF Covered
  <1>3. Covered(d) /\ ~WillTell(1, d) => Covered(d)'
    BY <1>2 DEF Covered
  <1> QED BY <1>1, <1>3 DEF Accounted

\* The first job moves on.
LEMMA MovesAccounts ==
    ASSUME JobTypeOK, Moves, NEW d \in Docs, Accounted(d),
           link' = link, version' = version, pending' = pending,
           WillTell(1, d) => WillTell(1, d)',
           Outdated(d)' => Outdated(d),
           told'[d] = told[d] /\ dropped'[d] = dropped[d]
    PROVE  Accounted(d)'
PROOF
  <1>1. ASSUME NEW i \in DOMAIN queue, WillTell(i, d) PROVE Covered(d)'
    <2>1. i # 1 => WillTell(i, d)'
      BY <1>1 DEF WillTell, Moves
    <2> QED BY <1>1, <2>1 DEF Covered, Moves
  <1>2. Covered(d) => Covered(d)'
    BY <1>1 DEF Covered
  <1> QED BY <1>2 DEF Accounted

-----------------------------------------------------------------------------
(* Editor events and timers.                                               *)

\* The jobs of the bridge are jobs.
LEMMA JobsMade ==
    /\ \A m \in Methods, e \in Docs : DocJob(m, e) \in Jobs /\ DocJob(m, e).kind = "doc"
                                      /\ DocJob(m, e).method = m /\ DocJob(m, e).doc = e
    /\ \A e \in Docs : [kind |-> "delete", doc |-> e] \in Jobs
    /\ [kind |-> "reconcile"] \in Jobs /\ [kind |-> "trust"] \in Jobs
    /\ \A l \in Nat, w \in Workspaces : synchronize(l, w) \in Jobs /\ synchronize(l, w).kind = "sync"
                                        /\ synchronize(l, w).link = l /\ synchronize(l, w).ws = w
  BY DEF DocJob, Jobs, synchronize

\* A save and a close queue behind the pending change.
LEMMA FlushAdds ==
    ASSUME JobTypeOK, NEW e \in Docs, NEW m \in {"saved", "closed"}, FlushAndQueue(m, e), stage' = stage
    PROVE  \/ e \in pending /\ Adds({DocJob("changed", e), DocJob(m, e)})
           \/ e \notin pending /\ Adds({DocJob(m, e)})
PROOF
  <1> DEFINE x == DocJob("changed", e)
             y == DocJob(m, e)
  <1>1. x \in Jobs /\ y \in Jobs /\ queue \in Seq(Jobs)
    BY JobsMade DEF JobTypeOK, Methods
  <1>2. CASE e \in pending
    <2>1. queue' = (queue \o <<x>>) \o <<y>>
      BY <1>2 DEF FlushAndQueue
    <2> HIDE DEF x, y
    <2>2. Append(queue, x) = queue \o <<x>> /\ Append(queue, x) \in Seq(Jobs)
      BY <1>1, AppendIsConcat
    <2>3. queue' = Append(Append(queue, x), y)
      BY <1>1, <2>1, <2>2, AppendIsConcat
    <2>4. Adds({x, y})
      BY <1>1, <2>3, AddsTwo
    <2> QED BY <1>2, <2>4 DEF x, y
  <1>3. CASE e \notin pending
    <2>1. queue' = (queue \o << >>) \o <<y>>
      BY <1>3 DEF FlushAndQueue
    <2> HIDE DEF y
    <2>2. queue \o << >> = queue
      BY <1>1, ConcatEmptySeq
    <2>3. queue' = Append(queue, y)
      BY <1>1, <2>1, <2>2, AppendIsConcat
    <2>4. Adds({y})
      BY <1>1, <2>3, AddsOne
    <2> QED BY <1>3, <2>4 DEF y
  <1> QED BY <1>2, <1>3

\* The editor and the timers leave the connection and the workspaces alone.
LEMMA EventsLeave ==
    ASSUME \/ \E e \in Docs : DocumentEvent(e) \/ Timer(e)
           \/ WorkspaceEvent
           \/ dispose
    PROVE  UNCHANGED <<modelVars, announced, projected, stage, conn, link, daemonVars, dropped>>
PROOF
  <1>1. ASSUME NEW e \in Docs, DocumentEvent(e)
        PROVE  UNCHANGED <<modelVars, announced, projected, stage, conn, link, daemonVars, dropped>>
    BY <1>1 DEF DocumentEvent, onDidOpenTextDocument, onDidChangeTextDocument, onDidSaveTextDocument,
         onDidCloseTextDocument, onDidRenameFiles, onDidDeleteFiles, onDidChangeDiagnostics
  <1>2. ASSUME NEW e \in Docs, Timer(e)
        PROVE  UNCHANGED <<modelVars, announced, projected, stage, conn, link, daemonVars, dropped>>
    BY <1>2 DEF Timer, ChangeTimer, DiagnosticsTimer
  <1>3. ASSUME WorkspaceEvent \/ dispose
        PROVE  UNCHANGED <<modelVars, announced, projected, stage, conn, link, daemonVars, dropped>>
    BY <1>3 DEF WorkspaceEvent, onDidChangeWorkspaceFolders, onDidGrantWorkspaceTrust, dispose
  <1> QED BY <1>1, <1>2, <1>3

\* Which jobs they add.
LEMMA EventsAdd ==
    ASSUME JobTypeOK
    PROVE  /\ \A e \in Docs :
                /\ onDidOpenTextDocument(e) => Adds({DocJob("opened", e)})
                /\ onDidChangeTextDocument(e) => \/ Adds({}) /\ e \in pending'
                                                 \/ Adds({DocJob("changed", e)})
                /\ ChangeTimer(e) => Adds({DocJob("changed", e)})
                /\ onDidRenameFiles(e) => Adds({DocJob("renamed", e)})
                /\ onDidDeleteFiles(e) => Adds({[kind |-> "delete", doc |-> e]})
                /\ onDidChangeDiagnostics(e) => Adds({})
                /\ DiagnosticsTimer(e) => Adds({DocJob("diagnostics", e)})
           /\ \A f \in FolderSets : onDidChangeWorkspaceFolders(f) => Adds({[kind |-> "reconcile"]})
           /\ onDidGrantWorkspaceTrust => Adds({[kind |-> "trust"]})
           /\ dispose => Adds({})
PROOF
  <1>1. ASSUME NEW e \in Docs, NEW m \in Methods, queueDocument(m, e), stage' = stage
        PROVE  Adds({DocJob(m, e)})
    BY <1>1, JobsMade, AddsOne DEF queueDocument, Enqueue
  <1>2. ASSUME NEW e \in Docs
        PROVE  /\ onDidOpenTextDocument(e) => Adds({DocJob("opened", e)})
               /\ ChangeTimer(e) => Adds({DocJob("changed", e)})
               /\ onDidRenameFiles(e) => Adds({DocJob("renamed", e)})
               /\ DiagnosticsTimer(e) => Adds({DocJob("diagnostics", e)})
    BY <1>1, <1>2 DEF onDidOpenTextDocument, ChangeTimer, onDidRenameFiles, DiagnosticsTimer, Methods
  <1>3. ASSUME NEW e \in Docs, onDidChangeTextDocument(e)
        PROVE  (Adds({}) /\ e \in pending') \/ Adds({DocJob("changed", e)})
    BY <1>1, <1>3, AddsNone DEF onDidChangeTextDocument, Methods
  <1>4. ASSUME NEW e \in Docs, onDidDeleteFiles(e) PROVE Adds({[kind |-> "delete", doc |-> e]})
    <2> DEFINE x == [kind |-> "delete", doc |-> e]
    <2>1. x \in Jobs /\ queue' = Append(queue, x) /\ stage' = stage
      BY <1>4, JobsMade DEF onDidDeleteFiles, Enqueue
    <2> HIDE DEF x
    <2>2. Adds({x})
      BY <2>1, AddsOne
    <2> QED BY <2>2 DEF x
  <1>5. ASSUME NEW e \in Docs, onDidChangeDiagnostics(e) PROVE Adds({})
    BY <1>5, AddsNone DEF onDidChangeDiagnostics
  <1>6. ASSUME dispose PROVE Adds({})
    BY <1>6, AddsNone DEF dispose
  <1>7. ASSUME NEW f \in FolderSets, onDidChangeWorkspaceFolders(f) PROVE Adds({[kind |-> "reconcile"]})
    <2> DEFINE x == [kind |-> "reconcile"]
    <2>1. x \in Jobs /\ queue' = Append(queue, x) /\ stage' = stage
      BY <1>7, JobsMade DEF onDidChangeWorkspaceFolders, Enqueue
    <2> HIDE DEF x
    <2>2. Adds({x})
      BY <2>1, AddsOne
    <2> QED BY <2>2 DEF x
  <1>8. ASSUME onDidGrantWorkspaceTrust PROVE Adds({[kind |-> "trust"]})
    <2> DEFINE x == [kind |-> "trust"]
    <2>1. x \in Jobs /\ queue' = Append(queue, x) /\ stage' = stage
      BY <1>8, JobsMade DEF onDidGrantWorkspaceTrust, Enqueue
    <2> HIDE DEF x
    <2>2. Adds({x})
      BY <2>1, AddsOne
    <2> QED BY <2>2 DEF x
  <1> QED BY <1>2, <1>3, <1>4, <1>5, <1>6, <1>7, <1>8

\* The types of what the editor changes.
LEMMA EventTypes ==
    ASSUME BridgeInvariant,
           \/ \E e \in Docs : DocumentEvent(e) \/ Timer(e)
           \/ WorkspaceEvent
           \/ dispose
    PROVE  EditorTypeOK'
PROOF
  <1>0. EditorTypeOK
    BY DEF BridgeInvariant
  <1>1. ASSUME NEW e \in Docs, DocumentEvent(e) PROVE EditorTypeOK'
    <2>1. UNCHANGED <<folders, trusted, disposed>>
      BY <1>1 DEF DocumentEvent, onDidOpenTextDocument, onDidChangeTextDocument, onDidSaveTextDocument,
         onDidCloseTextDocument, onDidRenameFiles, onDidDeleteFiles, onDidChangeDiagnostics
    <2>2. events' \in Nat
      BY <1>0, <1>1 DEF EditorTypeOK, Event, DocumentEvent, onDidOpenTextDocument, onDidChangeTextDocument,
         onDidSaveTextDocument, onDidCloseTextDocument, onDidRenameFiles, onDidDeleteFiles, onDidChangeDiagnostics
    <2>3. open' \subseteq Docs /\ pending' \subseteq Docs /\ pendingDiagnostics' \subseteq Docs
      BY <1>0, <1>1 DEF EditorTypeOK, DocumentEvent, onDidOpenTextDocument, onDidChangeTextDocument,
         onDidSaveTextDocument, onDidCloseTextDocument, onDidRenameFiles, onDidDeleteFiles,
         onDidChangeDiagnostics, FlushAndQueue, timerVars
    <2>4. version' \in [Docs -> Nat]
      BY <1>0, <1>1 DEF EditorTypeOK, DocumentEvent, onDidOpenTextDocument, onDidChangeTextDocument,
         onDidSaveTextDocument, onDidCloseTextDocument, onDidRenameFiles, onDidDeleteFiles, onDidChangeDiagnostics
    <2> QED BY <1>0, <2>1, <2>2, <2>3, <2>4 DEF EditorTypeOK
  <1>2. ASSUME NEW e \in Docs, Timer(e) PROVE EditorTypeOK'
    BY <1>0, <1>2 DEF EditorTypeOK, Timer, ChangeTimer, DiagnosticsTimer, editorVars
  <1>3. ASSUME WorkspaceEvent PROVE EditorTypeOK'
    <2>1. trusted' \in BOOLEAN
      BY <1>0, <1>3 DEF EditorTypeOK, WorkspaceEvent, onDidChangeWorkspaceFolders, onDidGrantWorkspaceTrust
    <2>2. folders' \in FolderSets /\ events' \in Nat
      BY <1>0, <1>3 DEF EditorTypeOK, WorkspaceEvent, onDidChangeWorkspaceFolders, onDidGrantWorkspaceTrust, Event
    <2>3. UNCHANGED <<open, version, pending, pendingDiagnostics, disposed>>
      BY <1>3 DEF WorkspaceEvent, onDidChangeWorkspaceFolders, onDidGrantWorkspaceTrust, timerVars
    <2> QED BY <1>0, <2>1, <2>2, <2>3 DEF EditorTypeOK
  <1>4. ASSUME dispose PROVE EditorTypeOK'
    BY <1>0, <1>4 DEF EditorTypeOK, dispose, editorVars
  <1> QED BY <1>1, <1>2, <1>3, <1>4

\* They add jobs, and forget no change.
LEMMA EventsAccount ==
    ASSUME BridgeInvariant,
           \/ \E e \in Docs : DocumentEvent(e) \/ Timer(e)
           \/ WorkspaceEvent
           \/ dispose
    PROVE  /\ \E S : Adds(S) /\ \A x \in S : x.kind # "sync" /\ (x.kind = "trust" => trusted')
           /\ ChangesCovered'
PROOF
  <1>0. JobTypeOK /\ EditorTypeOK /\ ChangesCovered
    BY DEF BridgeInvariant
  <1>l. UNCHANGED <<conn, link, told, dropped>> /\ version \in [Docs -> Nat] /\ open \subseteq Docs
    BY <1>0, EventsLeave DEF daemonVars, EditorTypeOK
  <1>j. \A e \in Docs, m \in Methods : DocJob(m, e).kind = "doc" /\ DocJob(m, e).doc = e /\ DocJob(m, e).method = m
    BY JobsMade
  <1>m. /\ {"opened", "changed", "saved", "closed", "renamed", "diagnostics"} = Methods
        /\ "opened" \in Carries /\ "changed" \in Carries
    BY DEF Methods, Carries
  <1>q. ASSUME NEW S, Adds(S), NEW d \in open, Served', disposed' = disposed, version'[d] = version[d],
               d \in pending => d \in pending'
        PROVE  Accounted(d)'
    BY <1>0, <1>l, <1>q, AddsAccounts DEF ChangesCovered, Served
  <1>1. ASSUME NEW e \in Docs, onDidOpenTextDocument(e)
        PROVE  (\E S : Adds(S) /\ \A x \in S : x.kind # "sync" /\ x.kind # "trust") /\ ChangesCovered'
    <2>1. Adds({DocJob("opened", e)})
      BY <1>0, <1>1, EventsAdd
    <2>2. open' = open \cup {e} /\ UNCHANGED <<version, pending, disposed>>
      BY <1>1 DEF onDidOpenTextDocument, timerVars
    <2>3. Accounted(e)'
      BY <1>0, <1>j, <1>m, <2>1, AddedTells
    <2>4. ChangesCovered'
      BY <1>q, <2>1, <2>2, <2>3 DEF ChangesCovered
    <2> QED BY <1>j, <1>m, <2>1, <2>4
  <1>2. ASSUME NEW e \in Docs, onDidChangeTextDocument(e)
        PROVE  (\E S : Adds(S) /\ \A x \in S : x.kind # "sync" /\ x.kind # "trust") /\ ChangesCovered'
    <2>1. (Adds({}) /\ e \in pending') \/ Adds({DocJob("changed", e)})
      BY <1>0, <1>2, EventsAdd
    <2>2. /\ open' = open /\ disposed' = disposed /\ pending \subseteq pending'
          /\ \A d \in Docs : d # e => version'[d] = version[d]
      BY <1>l, <1>2 DEF onDidChangeTextDocument
    <2>3. Accounted(e)'
      BY <1>0, <1>j, <1>m, <2>1, AddedTells, TimerAccounts
    <2>4. ChangesCovered'
      BY <1>l, <1>q, <2>1, <2>2, <2>3 DEF ChangesCovered
    <2> QED BY <1>j, <1>m, <2>1, <2>4
  <1>3. ASSUME NEW e \in Docs, ChangeTimer(e)
        PROVE  (\E S : Adds(S) /\ \A x \in S : x.kind # "sync" /\ x.kind # "trust") /\ ChangesCovered'
    <2>1. Adds({DocJob("changed", e)})
      BY <1>0, <1>3, EventsAdd
    <2>2. pending' = pending \ {e} /\ UNCHANGED <<open, version, disposed>>
      BY <1>3 DEF ChangeTimer, editorVars
    <2>3. Accounted(e)'
      BY <1>0, <1>j, <1>m, <2>1, AddedTells
    <2>4. ChangesCovered'
      BY <1>q, <2>1, <2>2, <2>3 DEF ChangesCovered
    <2> QED BY <1>j, <1>m, <2>1, <2>4
  <1>4. ASSUME NEW e \in Docs, onDidSaveTextDocument(e) \/ onDidCloseTextDocument(e)
        PROVE  (\E S : Adds(S) /\ \A x \in S : x.kind # "sync" /\ x.kind # "trust") /\ ChangesCovered'
    <2>1. PICK m \in {"saved", "closed"} : FlushAndQueue(m, e)
      BY <1>4 DEF onDidSaveTextDocument, onDidCloseTextDocument
    <2>2. pending' = pending \ {e} /\ open' \subseteq open /\ UNCHANGED <<stage, version, disposed>>
      BY <1>4 DEF onDidSaveTextDocument, onDidCloseTextDocument, FlushAndQueue
    <2>3. \/ e \in pending /\ Adds({DocJob("changed", e), DocJob(m, e)})
          \/ e \notin pending /\ Adds({DocJob(m, e)})
      BY <1>0, <2>1, <2>2, FlushAdds
    <2>4. e \in pending => Accounted(e)'
      BY <1>0, <1>j, <1>m, <2>3, AddedTells
    <2>5. ChangesCovered'
      BY <1>q, <2>2, <2>3, <2>4 DEF ChangesCovered
    <2> QED BY <1>j, <1>m, <2>3, <2>5
  <1>5. ASSUME NEW e \in Docs, \/ onDidRenameFiles(e) \/ onDidDeleteFiles(e) \/ onDidChangeDiagnostics(e)
                               \/ DiagnosticsTimer(e)
        PROVE  (\E S : Adds(S) /\ \A x \in S : x.kind # "sync" /\ x.kind # "trust") /\ ChangesCovered'
    <2>1. PICK S : Adds(S) /\ \A x \in S : x.kind # "sync" /\ x.kind # "trust"
      <3>1. CASE onDidRenameFiles(e) \/ DiagnosticsTimer(e)
        <4>1. PICK m \in Methods : Adds({DocJob(m, e)})
          BY <1>0, <1>m, <3>1, EventsAdd
        <4> QED BY <1>j, <4>1
      <3>2. CASE onDidDeleteFiles(e)
        <4> DEFINE x == [kind |-> "delete", doc |-> e]
        <4>1. Adds({x}) /\ x.kind = "delete"
          BY <1>0, <3>2, EventsAdd
        <4> HIDE DEF x
        <4> QED BY <4>1
      <3>3. CASE onDidChangeDiagnostics(e)
        <4>1. Adds({})
          BY <1>0, <3>3, EventsAdd
        <4> QED BY <4>1
      <3> QED BY <1>5, <3>1, <3>2, <3>3
    <2>2. UNCHANGED <<pending, open, version, disposed>>
      BY <1>5 DEF onDidRenameFiles, onDidDeleteFiles, onDidChangeDiagnostics, DiagnosticsTimer, timerVars, editorVars
    <2>3. ChangesCovered'
      BY <1>q, <2>1, <2>2 DEF ChangesCovered
    <2> QED BY <2>1, <2>3
  <1>6. ASSUME WorkspaceEvent
        PROVE  /\ \E S : Adds(S) /\ \A x \in S : x.kind # "sync" /\ (x.kind = "trust" => trusted')
               /\ ChangesCovered'
    <2>1. \E S : Adds(S) /\ \A x \in S : x.kind # "sync" /\ (x.kind = "trust" => trusted')
      <3>1. ASSUME NEW f \in FolderSets, onDidChangeWorkspaceFolders(f)
            PROVE  \E S : Adds(S) /\ \A x \in S : x.kind # "sync" /\ (x.kind = "trust" => trusted')
        BY <1>0, <3>1, EventsAdd
      <3>2. ASSUME onDidGrantWorkspaceTrust
            PROVE  \E S : Adds(S) /\ \A x \in S : x.kind # "sync" /\ (x.kind = "trust" => trusted')
        <4>1. trusted'
          BY <3>2 DEF onDidGrantWorkspaceTrust
        <4>2. Adds({[kind |-> "trust"]})
          BY <1>0, <3>2, EventsAdd
        <4> QED BY <4>1, <4>2
      <3> QED BY <1>6, <3>1, <3>2 DEF WorkspaceEvent
    <2>2. UNCHANGED <<pending, open, version, disposed>>
      BY <1>6 DEF WorkspaceEvent, onDidChangeWorkspaceFolders, onDidGrantWorkspaceTrust, timerVars
    <2>3. ChangesCovered'
      BY <1>q, <2>1, <2>2 DEF ChangesCovered
    <2> QED BY <2>1, <2>3
  <1>7. ASSUME dispose PROVE Adds({}) /\ ChangesCovered'
    BY <1>0, <1>7, EventsAdd DEF dispose, ChangesCovered, Served
  <1> QED BY <1>1, <1>2, <1>3, <1>4, <1>5, <1>6, <1>7 DEF DocumentEvent, Timer

-----------------------------------------------------------------------------
(* Epochs.                                                                 *)

\* What was known stays known.
LEMMA KnownLater ==
    ASSUME NEW w \in Workspaces, NEW e \in Nat, NEW f \in Nat, KnownAt(w, e), e <= f
    PROVE  KnownAt(w, f)
  BY DEF KnownAt, Workspaces, Workspace

\* All of it.
LEMMA AllKnownLater ==
    ASSUME JobTypeOK, NEW w1 \in Workspaces, NEW w2 \in Workspaces, NEW e \in Nat, NEW f \in Nat, e <= f,
           AllKnownAt(w1, w2, stage, queue, e)
    PROVE  AllKnownAt(w1, w2, stage, queue, f)
PROOF
  <1>1. KnownAt(w1, f) /\ KnownAt(w2, f)
    BY KnownLater DEF AllKnownAt
  <1>2. stage.at \in {"opened", "announce"} => KnownAt(stage.ws, f)
    BY KnownLater, StageShape DEF AllKnownAt, JobTypeOK
  <1>3. ASSUME NEW i \in DOMAIN queue, queue[i].kind = "sync" PROVE KnownAt(queue[i].ws, f)
    <2>1. queue[i] \in Jobs
      BY DEF JobTypeOK
    <2> QED BY <1>3, <2>1, KnownLater, JobShape DEF AllKnownAt
  <1> QED BY <1>1, <1>2, <1>3 DEF AllKnownAt

\* What the steps of the queue know.
LEMMA AddsKnown ==
    ASSUME JobTypeOK, NEW S, Adds(S), NEW e, NEW w1, NEW w2,
           \A x \in S : x.kind = "sync" => KnownAt(x.ws, e),
           AllKnownAt(w1, w2, stage, queue, e)
    PROVE  AllKnownAt(w1, w2, stage', queue', e)
PROOF
  <1>1. ASSUME NEW i \in DOMAIN queue', queue'[i].kind = "sync" PROVE KnownAt(queue'[i].ws, e)
    BY <1>1 DEF Adds, AllKnownAt
  <1>2. stage' = stage
    BY DEF Adds
  <1> QED BY <1>1, <1>2 DEF AllKnownAt

\* The end of the first job makes nothing newer.
LEMMA EndsKnown ==
    ASSUME JobTypeOK, Ends, NEW e, NEW w1, NEW w2, NEW v1, NEW v2, KnownAt(v1, e), KnownAt(v2, e),
           AllKnownAt(w1, w2, stage, queue, e)
    PROVE  AllKnownAt(v1, v2, stage', queue', e)
PROOF
  <1>1. ASSUME NEW i \in DOMAIN queue', queue'[i].kind = "sync" PROVE KnownAt(queue'[i].ws, e)
    BY <1>1, EndsShifts DEF AllKnownAt
  <1>2. stage'.at = "begin"
    BY EndsShifts
  <1> QED BY <1>1, <1>2 DEF AllKnownAt

\* Nor does its next stage, if what is suspended there is not.
LEMMA MovesKnown ==
    ASSUME Moves, NEW e, NEW w1, NEW w2, NEW v1, NEW v2, KnownAt(v1, e), KnownAt(v2, e),
           AllKnownAt(w1, w2, stage, queue, e),
           stage'.at \in {"opened", "announce"} => KnownAt(stage'.ws, e)
    PROVE  AllKnownAt(v1, v2, stage', queue', e)
  BY DEF AllKnownAt, Moves

\* Trust is granted before its job.
LEMMA TrustFirst ==
    ASSUME JobTypeOK, \A i \in DOMAIN queue : queue[i].kind = "trust" => trusted, trusted => trusted',
           \/ Ends
           \/ Moves
           \/ \E S : Adds(S) /\ \A x \in S : x.kind = "trust" => trusted'
    PROVE  \A i \in DOMAIN queue' : queue'[i].kind = "trust" => trusted'
PROOF
  <1>1. ASSUME Ends PROVE \A i \in DOMAIN queue' : queue'[i].kind = "trust" => trusted'
    BY <1>1, EndsShifts
  <1>2. ASSUME Moves PROVE \A i \in DOMAIN queue' : queue'[i].kind = "trust" => trusted'
    BY <1>2 DEF Moves
  <1>3. ASSUME NEW S, Adds(S), \A x \in S : x.kind = "trust" => trusted'
        PROVE  \A i \in DOMAIN queue' : queue'[i].kind = "trust" => trusted'
    BY <1>3 DEF Adds
  <1> QED BY <1>1, <1>2, <1>3

\* The daemon's epoch.
LEMMA DaemonEpoch ==
    ASSUME WorkspaceTypeOK, daemon # NoWorkspace
    PROVE  daemon.epoch \in Nat
  BY DEF WorkspaceTypeOK, Workspaces, Workspace

\* The editor and the timers keep the invariant.
LEMMA EventsKeep ==
    ASSUME BridgeInvariant,
           \/ \E e \in Docs : DocumentEvent(e) \/ Timer(e)
           \/ WorkspaceEvent
           \/ dispose
    PROVE  BridgeInvariant'
PROOF
  <1>0. EditorTypeOK /\ WorkspaceTypeOK /\ JobTypeOK /\ EpochsOrdered
    BY DEF BridgeInvariant
  <1>1. UNCHANGED <<active, epoch, announced, projected, stage, conn, link, daemon, told, ready, dropped>>
    BY EventsLeave DEF modelVars, daemonVars
  <1>2. PICK S : Adds(S) /\ \A x \in S : x.kind # "sync" /\ (x.kind = "trust" => trusted')
    BY EventsAccount
  <1>3. EditorTypeOK' /\ ChangesCovered'
    BY EventTypes, EventsAccount
  <1>4. WorkspaceTypeOK'
    BY <1>0, <1>1 DEF WorkspaceTypeOK
  <1>5. JobTypeOK'
    <2>1. told' \in [Docs -> Nat] /\ dropped' \in [Docs -> Nat]
      BY <1>0, <1>1 DEF JobTypeOK
    <2> QED BY <1>0, <1>2, <2>1, JobTypesKept
  <1>6. trusted => trusted'
    <2>1. ASSUME NEW e \in Docs, DocumentEvent(e) \/ Timer(e) PROVE trusted' = trusted
      BY <2>1 DEF DocumentEvent, onDidOpenTextDocument, onDidChangeTextDocument, onDidSaveTextDocument,
         onDidCloseTextDocument, onDidRenameFiles, onDidDeleteFiles, onDidChangeDiagnostics,
         Timer, ChangeTimer, DiagnosticsTimer, editorVars
    <2>2. ASSUME WorkspaceEvent PROVE trusted => trusted'
      BY <2>2 DEF WorkspaceEvent, onDidChangeWorkspaceFolders, onDidGrantWorkspaceTrust
    <2>3. ASSUME dispose PROVE trusted' = trusted
      BY <2>3 DEF dispose, editorVars
    <2> QED BY <2>1, <2>2, <2>3
  <1>7. EpochsOrdered'
    <2>1. ASSUME NEW e, AllKnownAt(announced, projected, stage, queue, e)
          PROVE  AllKnownAt(announced', projected', stage', queue', e)
      BY <1>0, <1>1, <1>2, <2>1, AddsKnown
    <2>2. \A i \in DOMAIN queue' : queue'[i].kind = "trust" => trusted'
      BY <1>0, <1>2, <1>6, TrustFirst DEF EpochsOrdered
    <2> QED BY <1>0, <1>1, <1>6, <2>1, <2>2 DEF EpochsOrdered
  <1> QED BY <1>3, <1>4, <1>5, <1>7 DEF BridgeInvariant

-----------------------------------------------------------------------------
(* Jobs about documents.                                                   *)

\* A job that leaves the editor and the workspaces alone.
LEMMA QuietJobKeeps ==
    ASSUME BridgeInvariant,
           UNCHANGED <<editorVars, timerVars, disposed, modelVars, announced, projected, daemon, link>>,
           conn' \in {conn, "down"}, ready' \in BOOLEAN,
           told' \in [Docs -> Nat], dropped' \in [Docs -> Nat],
           \/ Ends
           \/ /\ Moves /\ stage'.at \in {"begin", "send", "docs", "sendDoc"}
              /\ stage'.at = "send" => Job.kind = "doc"
              /\ stage'.at \in {"docs", "sendDoc"} => Job.kind = "sync",
           \A d \in open : Served' => Accounted(d)'
    PROVE  BridgeInvariant'
PROOF
  <1>0. EditorTypeOK /\ WorkspaceTypeOK /\ JobTypeOK /\ EpochsOrdered
    BY DEF BridgeInvariant
  <1>1. EditorTypeOK'
    BY <1>0 DEF EditorTypeOK, editorVars, timerVars
  <1>2. WorkspaceTypeOK'
    BY <1>0 DEF WorkspaceTypeOK, modelVars
  <1>3. JobTypeOK'
    BY <1>0, JobTypesKept
  <1>4. ChangesCovered'
    BY DEF ChangesCovered, editorVars
  <1>5. EpochsOrdered'
    <2>0. UNCHANGED <<epoch, announced, projected, daemon, trusted>>
      BY DEF modelVars, editorVars
    <2>1. ASSUME NEW e, AllKnownAt(announced, projected, stage, queue, e)
          PROVE  AllKnownAt(announced', projected', stage', queue', e)
      <3>1. KnownAt(announced, e) /\ KnownAt(projected, e)
        BY <2>1 DEF AllKnownAt
      <3>2. ASSUME Ends PROVE AllKnownAt(announced, projected, stage', queue', e)
        BY <1>0, <2>1, <3>1, <3>2, EndsKnown
      <3>3. ASSUME Moves, stage'.at \notin {"opened", "announce"}
            PROVE  AllKnownAt(announced, projected, stage', queue', e)
        BY <2>1, <3>1, <3>3, MovesKnown
      <3> QED BY <2>0, <3>2, <3>3
    <2>2. \A i \in DOMAIN queue' : queue'[i].kind = "trust" => trusted'
      BY <1>0, <2>0, TrustFirst DEF EpochsOrdered
    <2> QED BY <1>0, <2>0, <2>1, <2>2 DEF EpochsOrdered
  <1> QED BY <1>1, <1>2, <1>3, <1>4, <1>5 DEF BridgeInvariant

\* Mapping a document: it is dropped, or read as it is now.
LEMMA MapDocumentKeeps ==
    ASSUME BridgeInvariant, MapDocument
    PROVE  BridgeInvariant'
PROOF
  <1>0. EditorTypeOK /\ WorkspaceTypeOK /\ JobTypeOK /\ ChangesCovered
    BY DEF BridgeInvariant
  <1>1. /\ UNCHANGED <<editorVars, timerVars, disposed, modelVars, announced, projected, daemon, link>>
        /\ UNCHANGED <<open, version, pending, conn, told, ready>>
    BY DEF MapDocument, editorVars, timerVars, daemonVars
  <1>2. queue # << >> /\ Job.kind = "doc" /\ stage.at = "begin" /\ Job = queue[1]
        /\ Job.method \in Methods /\ Job.doc \in Docs
    <2>1. queue # << >> /\ Job.kind = "doc" /\ stage.at = "begin"
      BY DEF MapDocument, Runs
    <2> QED BY <1>0, <2>1, FirstJob, JobShape
  <1>3. version \in [Docs -> Nat] /\ dropped \in [Docs -> Nat] /\ told \in [Docs -> Nat] /\ open \subseteq Docs
    BY <1>0 DEF EditorTypeOK, JobTypeOK
  <1>t. conn' \in {conn, "down"} /\ ready' \in BOOLEAN /\ told' \in [Docs -> Nat]
    BY <1>0, <1>1, <1>3 DEF WorkspaceTypeOK
  <1>a. ASSUME NEW d \in open, Served' PROVE Accounted(d)
    BY <1>0, <1>1, <1>a DEF ChangesCovered, Served
  <1>4. ASSUME EndJob, Dropped(Job.method, Job.doc, version[Job.doc]) PROVE BridgeInvariant'
    <2>1. Ends
      BY <1>2, <1>4 DEF EndJob, Ends
    <2>2. dropped' \in [Docs -> Nat]
      BY <1>2, <1>3, <1>4 DEF Dropped
    <2>3. ASSUME NEW d \in open, Served' PROVE Accounted(d)'
      <3>1. d = Job.doc /\ Job.method \in Carries => dropped'[d] = version[d]
        BY <1>2, <1>3, <1>4 DEF Dropped
      <3>2. ~(d = Job.doc /\ Job.method \in Carries) => dropped'[d] = dropped[d] /\ ~WillTell(1, d)
        BY <1>2, <1>3, <1>4 DEF Dropped, WillTell
      <3>3. Accounted(d)
        BY <1>a, <2>3
      <3> QED BY <1>0, <1>1, <1>3, <2>1, <3>1, <3>2, <3>3, EndsAccounts
    <2> QED BY <1>1, <1>t, <2>1, <2>2, <2>3, QuietJobKeeps
  <1>5. ASSUME Goto([at |-> "send", v |-> version[Job.doc]]), dropped' = dropped PROVE BridgeInvariant'
    <2>1. queue' = queue /\ stage' = [at |-> "send", v |-> version[Job.doc]]
      BY <1>5 DEF Goto
    <2>2. stage'.at = "send" /\ stage'.v = version[Job.doc] /\ version[Job.doc] \in Nat
      BY <1>2, <1>3, <2>1
    <2>3. Moves
      BY <1>2, <2>1, <2>2 DEF Moves, Stages
    <2>4. ASSUME NEW d \in open, Served' PROVE Accounted(d)'
      <3>1. WillTell(1, d) => WillTell(1, d)'
        BY <1>1, <1>2, <2>1, <2>2 DEF WillTell
      <3>2. ~Outdated(d)'
        BY <1>1, <2>1, <2>2 DEF Outdated, Job
      <3>3. Accounted(d)
        BY <1>a, <2>4
      <3> QED BY <1>0, <1>1, <1>3, <1>5, <2>3, <3>1, <3>2, <3>3, MovesAccounts
    <2> QED BY <1>1, <1>2, <1>3, <1>t, <1>5, <2>2, <2>3, <2>4, QuietJobKeeps
  <1> QED BY <1>4, <1>5 DEF MapDocument

\* Sending it, which may fail.
LEMMA NotifyDocumentKeeps ==
    ASSUME BridgeInvariant, NotifyDocument
    PROVE  BridgeInvariant'
PROOF
  <1>0. EditorTypeOK /\ WorkspaceTypeOK /\ JobTypeOK /\ ChangesCovered
    BY DEF BridgeInvariant
  <1>1. /\ UNCHANGED <<editorVars, timerVars, disposed, modelVars, announced, projected, daemon, link>>
        /\ UNCHANGED <<open, version, pending, conn, ready>>
    BY DEF NotifyDocument, editorVars, timerVars
  <1>2. queue # << >> /\ Job.kind = "doc" /\ stage.at = "send" /\ Job = queue[1]
        /\ Job.method \in Methods /\ Job.doc \in Docs /\ stage.v \in Nat
    <2>1. queue # << >> /\ Job.kind = "doc" /\ stage.at = "send"
      BY DEF NotifyDocument, Runs
    <2>2. stage \in Stages
      BY <1>0 DEF JobTypeOK
    <2> QED BY <1>0, <2>1, <2>2, FirstJob, JobShape, StageShape
  <1>3. version \in [Docs -> Nat] /\ dropped \in [Docs -> Nat] /\ told \in [Docs -> Nat] /\ open \subseteq Docs
    BY <1>0 DEF EditorTypeOK, JobTypeOK
  <1>4. Ends
    BY <1>2 DEF NotifyDocument, EndJob, Ends
  <1>5. \/ /\ dropped' = dropped
           /\ told' = IF Job.method = "diagnostics" THEN told ELSE [told EXCEPT ![Job.doc] = stage.v]
        \/ told' = told /\ Dropped(Job.method, Job.doc, stage.v)
    BY DEF NotifyDocument
  <1>6. told' \in [Docs -> Nat] /\ dropped' \in [Docs -> Nat]
    BY <1>2, <1>3, <1>5 DEF Dropped
  <1>7. ASSUME NEW d \in open, Served' PROVE Accounted(d)'
    <2>1. Accounted(d)
      BY <1>0, <1>1, <1>7 DEF ChangesCovered, Served
    <2>2. CASE d # Job.doc
      <3>1. told'[d] = told[d] /\ dropped'[d] = dropped[d]
        BY <1>2, <1>3, <1>5, <2>2 DEF Dropped
      <3>2. ~WillTell(1, d)
        BY <1>2, <2>2 DEF WillTell
      <3> QED BY <1>0, <1>1, <1>3, <1>4, <2>1, <3>1, <3>2, EndsAccounts
    <2>3. CASE d = Job.doc /\ stage.v = version[d]
      <3>1. \/ told'[d] = version[d]
            \/ dropped'[d] = version[d]
            \/ told'[d] = told[d] /\ dropped'[d] = dropped[d] /\ Job.method \notin Carries
        BY <1>2, <1>3, <1>5, <2>3 DEF Dropped, Carries
      <3>2. Job.method \notin Carries => ~WillTell(1, d)
        BY <1>2 DEF WillTell
      <3> QED BY <1>0, <1>1, <1>3, <1>4, <2>1, <3>1, <3>2, EndsAccounts
    <2>4. CASE d = Job.doc /\ stage.v # version[d]
      <3>1. Outdated(d) /\ ~WillTell(1, d)
        BY <1>2, <2>4 DEF Outdated, WillTell
      <3> QED BY <1>0, <1>1, <1>3, <1>4, <2>1, <3>1, EndsAccounts
    <2> QED BY <2>2, <2>3, <2>4
  <1>8. conn' \in {conn, "down"} /\ ready' \in BOOLEAN
    BY <1>0, <1>1 DEF WorkspaceTypeOK
  <1> QED BY <1>1, <1>4, <1>6, <1>7, <1>8, QuietJobKeeps

\* The name of a deleted document.
LEMMA DeleteJobKeeps ==
    ASSUME BridgeInvariant, DeleteJob
    PROVE  BridgeInvariant'
PROOF
  <1>0. EditorTypeOK /\ WorkspaceTypeOK /\ JobTypeOK /\ ChangesCovered
    BY DEF BridgeInvariant
  <1>1. /\ UNCHANGED <<editorVars, timerVars, disposed, modelVars, announced, projected, daemon, link>>
        /\ UNCHANGED <<open, version, pending, conn, told, ready, dropped>>
    BY DEF DeleteJob, editorVars, timerVars, daemonVars
  <1>2. queue # << >> /\ Job.kind = "delete" /\ Ends
    BY DEF DeleteJob, Runs, EndJob, Ends
  <1>3. ASSUME NEW d \in open, Served' PROVE Accounted(d)'
    <2>1. ~WillTell(1, d)
      BY <1>0, <1>2, FirstJob DEF WillTell
    <2>2. Accounted(d) /\ d \in Docs
      BY <1>0, <1>1, <1>3 DEF ChangesCovered, Served, EditorTypeOK
    <2> QED BY <1>0, <1>1, <1>2, <2>1, <2>2, EndsAccounts
  <1>4. /\ conn' \in {conn, "down"} /\ ready' \in BOOLEAN
        /\ told' \in [Docs -> Nat] /\ dropped' \in [Docs -> Nat]
    BY <1>0, <1>1 DEF WorkspaceTypeOK, JobTypeOK
  <1> QED BY <1>1, <1>2, <1>3, <1>4, QuietJobKeeps

-----------------------------------------------------------------------------
(* The documents of a synchronize.                                         *)

\* A synchronize that fails loses its connection; that of an older one tells nothing.
LEMMA FailureAccounts ==
    ASSUME BridgeInvariant, queue # << >>, JobFails, Job.kind \in {"sync", "reconcile"},
           UNCHANGED <<open, version, pending, disposed, link, told, dropped>>
    PROVE  Ends /\ conn' \in {conn, "down"} /\ \A d \in open : Served' => Accounted(d)'
PROOF
  <1>0. EditorTypeOK /\ JobTypeOK /\ ChangesCovered
    BY DEF BridgeInvariant
  <1>1. Ends /\ conn' \in {conn, "down"}
    BY DEF JobFails, EndJob, Ends
  <1>2. ASSUME NEW d \in open, Served' PROVE Accounted(d)'
    <2>1. conn' = conn /\ ~(Job.kind = "sync" /\ Job.link = link)
      BY <1>2 DEF JobFails, Served
    <2>2. ~WillTell(1, d)
      BY <1>0, <2>1, FirstJob DEF WillTell
    <2>3. Accounted(d) /\ d \in Docs
      BY <1>0, <1>2, <2>1 DEF ChangesCovered, Served, EditorTypeOK
    <2> QED BY <1>0, <1>1, <2>2, <2>3, EndsAccounts
  <1> QED BY <1>1, <1>2

\* Mapping one of them.
LEMMA SyncDocumentKeeps ==
    ASSUME BridgeInvariant, NEW e \in Docs, SyncDocument(e)
    PROVE  BridgeInvariant'
PROOF
  <1>0. EditorTypeOK /\ WorkspaceTypeOK /\ JobTypeOK /\ ChangesCovered
    BY DEF BridgeInvariant
  <1>1. /\ UNCHANGED <<editorVars, timerVars, disposed, modelVars, announced, projected, daemon, link>>
        /\ UNCHANGED <<open, version, pending, conn, told, ready>>
    BY DEF SyncDocument, editorVars, timerVars, daemonVars
  <1>2. queue # << >> /\ Job.kind = "sync" /\ stage.at = "docs" /\ Job = queue[1] /\ stage.todo \in SUBSET Docs
    <2>1. queue # << >> /\ Job.kind = "sync" /\ stage.at = "docs"
      BY DEF SyncDocument, Runs
    <2>2. stage \in Stages
      BY <1>0 DEF JobTypeOK
    <2> QED BY <1>0, <2>1, <2>2, FirstJob, StageShape
  <1>3. version \in [Docs -> Nat] /\ dropped \in [Docs -> Nat] /\ told \in [Docs -> Nat] /\ open \subseteq Docs
    BY <1>0 DEF EditorTypeOK, JobTypeOK
  <1>t. conn' \in {conn, "down"} /\ ready' \in BOOLEAN /\ told' \in [Docs -> Nat]
    BY <1>0, <1>1, <1>3 DEF WorkspaceTypeOK
  <1>a. ASSUME NEW d \in open, Served' PROVE Accounted(d)
    BY <1>0, <1>1, <1>a DEF ChangesCovered, Served
  <1>4. ASSUME Dropped("opened", e, version[e]), Goto([stage EXCEPT !.todo = @ \ {e}]) PROVE BridgeInvariant'
    <2>1. queue' = queue /\ stage' = [stage EXCEPT !.todo = stage.todo \ {e}]
      BY <1>4 DEF Goto
    <2>2. stage'.at = "docs" /\ stage'.todo = stage.todo \ {e} /\ stage' \in Stages
      <3>1. stage \in [at : {"docs"}, todo : SUBSET Docs]
        BY <1>0, <1>2 DEF JobTypeOK, Stages
      <3>2. stage' \in [at : {"docs"}, todo : SUBSET Docs] /\ stage'.at = "docs" /\ stage'.todo = stage.todo \ {e}
        BY <1>2, <2>1, <3>1
      <3> QED BY <3>2 DEF Stages
    <2>3. Moves
      BY <1>2, <2>1, <2>2 DEF Moves
    <2>4. dropped' = [dropped EXCEPT ![e] = version[e]]
      BY <1>4 DEF Dropped, Carries
    <2>5. ASSUME NEW d \in open, Served' PROVE Accounted(d)'
      <3>0. ~Outdated(d)'
        BY <2>2 DEF Outdated
      <3>1. CASE d = e
        BY <1>1, <1>3, <2>4, <3>0, <3>1 DEF Accounted
      <3>2. CASE d # e
        <4>1. WillTell(1, d) => WillTell(1, d)'
          BY <1>1, <1>2, <2>1, <2>2, <3>2 DEF WillTell
        <4>2. dropped'[d] = dropped[d]
          BY <1>3, <2>4, <3>2
        <4>3. Accounted(d)
          BY <1>a, <2>5
        <4> QED BY <1>0, <1>1, <1>3, <2>3, <3>0, <4>1, <4>2, <4>3, MovesAccounts
      <3> QED BY <3>1, <3>2
    <2>6. dropped' \in [Docs -> Nat]
      BY <1>3, <2>4
    <2> QED BY <1>1, <1>2, <1>t, <2>2, <2>3, <2>5, <2>6, QuietJobKeeps
  <1>5. ASSUME Goto([at |-> "sendDoc", doc |-> e, v |-> version[e], todo |-> stage.todo \ {e}]), dropped' = dropped
        PROVE  BridgeInvariant'
    <2>1. queue' = queue /\ stage' = [at |-> "sendDoc", doc |-> e, v |-> version[e], todo |-> stage.todo \ {e}]
      BY <1>5 DEF Goto
    <2>2. /\ stage'.at = "sendDoc" /\ stage'.doc = e /\ stage'.v = version[e] /\ stage'.todo = stage.todo \ {e}
          /\ version[e] \in Nat /\ stage.todo \ {e} \in SUBSET Docs
      BY <1>2, <1>3, <2>1
    <2>3. Moves
      BY <1>2, <2>1, <2>2 DEF Moves, Stages
    <2>4. ASSUME NEW d \in open, Served' PROVE Accounted(d)'
      <3>1. WillTell(1, d) => WillTell(1, d)'
        BY <1>1, <1>2, <2>1, <2>2 DEF WillTell
      <3>2. ~Outdated(d)'
        BY <1>1, <2>1, <2>2 DEF Outdated
      <3>3. Accounted(d)
        BY <1>a, <2>4
      <3> QED BY <1>0, <1>1, <1>3, <1>5, <2>3, <3>1, <3>2, <3>3, MovesAccounts
    <2> QED BY <1>1, <1>2, <1>3, <1>t, <1>5, <2>2, <2>3, <2>4, QuietJobKeeps
  <1> QED BY <1>4, <1>5 DEF SyncDocument

\* Sending it.
LEMMA SyncNotifyKeeps ==
    ASSUME BridgeInvariant, SyncNotify
    PROVE  BridgeInvariant'
PROOF
  <1>0. EditorTypeOK /\ WorkspaceTypeOK /\ JobTypeOK /\ ChangesCovered
    BY DEF BridgeInvariant
  <1>1. /\ UNCHANGED <<editorVars, timerVars, disposed, modelVars, announced, projected, daemon, link>>
        /\ UNCHANGED <<open, version, pending, ready, dropped>>
    BY DEF SyncNotify, editorVars, timerVars
  <1>2. /\ queue # << >> /\ Job.kind = "sync" /\ stage.at = "sendDoc" /\ Job = queue[1]
        /\ stage.todo \in SUBSET Docs /\ stage.v \in Nat /\ stage.doc \in Docs
    <2>1. queue # << >> /\ Job.kind = "sync" /\ stage.at = "sendDoc"
      BY DEF SyncNotify, Runs
    <2>2. stage \in Stages
      BY <1>0 DEF JobTypeOK
    <2> QED BY <1>0, <2>1, <2>2, FirstJob, StageShape
  <1>3. version \in [Docs -> Nat] /\ dropped' \in [Docs -> Nat] /\ told \in [Docs -> Nat] /\ open \subseteq Docs
        /\ ready' \in BOOLEAN
    BY <1>0, <1>1 DEF EditorTypeOK, JobTypeOK, WorkspaceTypeOK
  <1>4. ASSUME told' = [told EXCEPT ![stage.doc] = stage.v], Goto([at |-> "docs", todo |-> stage.todo]),
               conn' = conn
        PROVE  BridgeInvariant'
    <2>1. queue' = queue /\ stage' = [at |-> "docs", todo |-> stage.todo]
      BY <1>4 DEF Goto
    <2>2. stage'.at = "docs" /\ stage'.todo = stage.todo
      BY <2>1
    <2>3. Moves
      BY <1>2, <2>1 DEF Moves, Stages
    <2>4. ASSUME NEW d \in open, Served' PROVE Accounted(d)'
      <3>0. ~Outdated(d)' /\ Accounted(d)
        BY <1>0, <1>1, <1>4, <2>2, <2>4 DEF Outdated, ChangesCovered, Served
      <3>1. CASE d # stage.doc
        <4>1. WillTell(1, d) => WillTell(1, d)'
          BY <1>1, <1>2, <2>1, <2>2, <3>1 DEF WillTell
        <4>2. told'[d] = told[d]
          BY <1>3, <1>4, <3>1
        <4> QED BY <1>0, <1>1, <1>3, <2>3, <3>0, <4>1, <4>2, MovesAccounts
      <3>2. CASE d = stage.doc /\ stage.v = version[d]
        BY <1>1, <1>3, <1>4, <3>0, <3>2 DEF Accounted
      <3>3. CASE d = stage.doc /\ stage.v # version[d]
        <4>1. Covered(d)
          BY <1>2, <3>0, <3>3 DEF Accounted, Outdated
        <4>2. ASSUME NEW i \in DOMAIN queue, WillTell(i, d) PROVE WillTell(i, d)'
          <5>1. CASE i = 1
            BY <1>1, <1>2, <2>1, <2>2, <3>3, <4>2, <5>1 DEF WillTell
          <5>2. CASE i # 1
            BY <1>1, <2>1, <4>2, <5>2 DEF WillTell
          <5> QED BY <5>1, <5>2
        <4>3. Covered(d)'
          BY <1>1, <2>1, <4>1, <4>2 DEF Covered
        <4> QED BY <4>3 DEF Accounted
      <3> QED BY <3>1, <3>2, <3>3
    <2>5. told' \in [Docs -> Nat]
      BY <1>2, <1>3, <1>4
    <2> QED BY <1>1, <1>2, <1>3, <1>4, <2>2, <2>3, <2>4, <2>5, QuietJobKeeps
  <1>5. ASSUME JobFails, told' = told PROVE BridgeInvariant'
    <2>1. Ends /\ conn' \in {conn, "down"} /\ \A d \in open : Served' => Accounted(d)'
      BY <1>1, <1>2, <1>5, FailureAccounts
    <2> QED BY <1>1, <1>3, <1>5, <2>1, QuietJobKeeps
  <1> QED BY <1>4, <1>5 DEF SyncNotify

\* The end of the loop.
LEMMA SyncReadyKeeps ==
    ASSUME BridgeInvariant, SyncReady
    PROVE  BridgeInvariant'
PROOF
  <1>0. EditorTypeOK /\ WorkspaceTypeOK /\ JobTypeOK /\ ChangesCovered
    BY DEF BridgeInvariant
  <1>1. /\ UNCHANGED <<editorVars, timerVars, disposed, modelVars, announced, projected, daemon, link>>
        /\ UNCHANGED <<open, version, pending, told, dropped>>
    BY DEF SyncReady, editorVars, timerVars
  <1>2. queue # << >> /\ Job.kind = "sync" /\ stage.at = "docs" /\ stage.todo = {} /\ Job = queue[1]
    BY <1>0, FirstJob DEF SyncReady, Runs
  <1>3. ready' \in BOOLEAN /\ told' \in [Docs -> Nat] /\ dropped' \in [Docs -> Nat]
    <2>1. ready' \in BOOLEAN
      BY <1>0 DEF SyncReady, WorkspaceTypeOK
    <2> QED BY <1>0, <1>1, <2>1 DEF JobTypeOK
  <1>4. ASSUME EndJob, conn' = conn PROVE BridgeInvariant'
    <2>1. Ends
      BY <1>2, <1>4 DEF EndJob, Ends
    <2>2. ASSUME NEW d \in open, Served' PROVE Accounted(d)'
      <3>1. ~WillTell(1, d)
        BY <1>2 DEF WillTell
      <3>2. Accounted(d) /\ d \in Docs
        BY <1>0, <1>1, <1>4, <2>2 DEF ChangesCovered, Served, EditorTypeOK
      <3> QED BY <1>0, <1>1, <2>1, <3>1, <3>2, EndsAccounts
    <2> QED BY <1>1, <1>3, <1>4, <2>1, <2>2, QuietJobKeeps
  <1>5. ASSUME JobFails PROVE BridgeInvariant'
    <2>1. Ends /\ conn' \in {conn, "down"} /\ \A d \in open : Served' => Accounted(d)'
      BY <1>1, <1>2, <1>5, FailureAccounts
    <2> QED BY <1>1, <1>3, <2>1, QuietJobKeeps
  <1> QED BY <1>4, <1>5 DEF SyncReady

-----------------------------------------------------------------------------
(* Jobs about the workspace.                                               *)

\* A snapshot is as new as the epoch it advances to.
LEMMA SnapshotKnown ==
    ASSUME EditorTypeOK, WorkspaceTypeOK
    PROVE  /\ SnapshotEpoch \in Nat /\ epoch <= SnapshotEpoch
           /\ Snapshot \in Workspaces /\ KnownAt(Snapshot, SnapshotEpoch)
           /\ Snapshot # NoWorkspace => Snapshot.epoch = SnapshotEpoch
PROOF
  <1>1. SnapshotEpoch \in Nat /\ epoch <= SnapshotEpoch
    BY DEF SnapshotEpoch, WorkspaceTypeOK
  <1>2. CASE folders = {}
    BY <1>1, <1>2 DEF Snapshot, Workspaces, KnownAt
  <1>3. CASE folders # {}
    <2> DEFINE w == [roots |-> folders, epoch |-> SnapshotEpoch, trusted |-> trusted]
    <2>1. w \in Workspace /\ w.epoch = SnapshotEpoch
      BY <1>1 DEF Workspace, EditorTypeOK
    <2>2. Snapshot = w
      BY <1>3 DEF Snapshot
    <2> QED BY <1>1, <2>1, <2>2 DEF Workspaces, KnownAt
  <1> QED BY <1>2, <1>3

\* A workspace with the epoch of another one.
LEMMA Renewed ==
    ASSUME NEW w \in Workspaces, w # NoWorkspace, NEW v \in Workspaces, v # NoWorkspace
    PROVE  /\ [w EXCEPT !.roots = v.roots, !.epoch = v.epoch] \in Workspaces
           /\ [w EXCEPT !.roots = v.roots, !.epoch = v.epoch].epoch = v.epoch
           /\ [w EXCEPT !.trusted = TRUE] \in Workspaces
           /\ [w EXCEPT !.trusted = TRUE].epoch = w.epoch
PROOF
  <1>1. w \in Workspace /\ v \in Workspace
    BY DEF Workspaces
  <1>2. /\ [w EXCEPT !.roots = v.roots, !.epoch = v.epoch] \in Workspace
        /\ [w EXCEPT !.roots = v.roots, !.epoch = v.epoch].epoch = v.epoch
    BY <1>1 DEF Workspace
  <1>3. [w EXCEPT !.trusted = TRUE] \in Workspace /\ [w EXCEPT !.trusted = TRUE].epoch = w.epoch
    BY <1>1 DEF Workspace
  <1> QED BY <1>2, <1>3 DEF Workspaces

\* Where the first job goes when the workspace is settled, or suspended.
LEMMA ReconcileAccounts ==
    ASSUME BridgeInvariant, queue # << >>, Job.kind \in {"sync", "reconcile"},
           stage.at \in {"begin", "opened", "announce"},
           UNCHANGED <<open, version, pending, disposed, link, told, dropped, conn>>,
           \/ AfterReconcile
           \/ \E at \in {"opened", "announce"}, w \in Workspaces : Goto([at |-> at, ws |-> w])
    PROVE  JobTypeOK' /\ \A d \in open : Served' => Accounted(d)'
PROOF
  <1>0. EditorTypeOK /\ JobTypeOK /\ ChangesCovered
    BY DEF BridgeInvariant
  <1>1. Job = queue[1] /\ told' \in [Docs -> Nat] /\ dropped' \in [Docs -> Nat] /\ open \subseteq Docs
    BY <1>0, FirstJob DEF JobTypeOK, EditorTypeOK
  <1>a. ASSUME NEW d \in open, Served' PROVE Accounted(d)
    BY <1>0, <1>a DEF ChangesCovered, Served
  <1>2. ASSUME Job.kind = "sync", Goto([at |-> "docs", todo |-> open])
        PROVE  JobTypeOK' /\ \A d \in open : Served' => Accounted(d)'
    <2>1. queue' = queue /\ stage' = [at |-> "docs", todo |-> open]
      BY <1>2 DEF Goto
    <2>2. stage'.at = "docs" /\ stage'.todo = open
      BY <2>1
    <2>3. Moves
      BY <1>1, <2>1 DEF Moves, Stages
    <2>4. JobTypeOK'
      BY <1>0, <1>1, <1>2, <2>2, <2>3, JobTypesKept
    <2>5. ASSUME NEW d \in open, Served' PROVE Accounted(d)'
      <3>1. WillTell(1, d) => WillTell(1, d)'
        BY <1>1, <1>2, <2>1, <2>2 DEF WillTell
      <3>2. ~Outdated(d)'
        BY <2>2 DEF Outdated
      <3>3. Accounted(d)
        BY <1>a, <2>5
      <3> QED BY <1>0, <1>1, <2>3, <3>1, <3>2, <3>3, MovesAccounts
    <2> QED BY <2>4, <2>5
  <1>3. ASSUME Job.kind # "sync", EndJob
        PROVE  JobTypeOK' /\ \A d \in open : Served' => Accounted(d)'
    <2>1. Ends
      BY <1>3 DEF EndJob, Ends
    <2>2. JobTypeOK'
      BY <1>0, <1>1, <2>1, JobTypesKept
    <2>3. ASSUME NEW d \in open, Served' PROVE Accounted(d)'
      <3>1. ~WillTell(1, d)
        BY <1>1, <1>3 DEF WillTell
      <3>2. Accounted(d)
        BY <1>a, <2>3
      <3> QED BY <1>0, <1>1, <2>1, <3>1, <3>2, EndsAccounts
    <2> QED BY <2>2, <2>3
  <1>4. ASSUME NEW at \in {"opened", "announce"}, NEW w \in Workspaces, Goto([at |-> at, ws |-> w])
        PROVE  JobTypeOK' /\ \A d \in open : Served' => Accounted(d)'
    <2>1. queue' = queue /\ stage' = [at |-> at, ws |-> w]
      BY <1>4 DEF Goto
    <2>2. stage'.at = at
      BY <2>1
    <2>3. Moves
      BY <2>1 DEF Moves, Stages
    <2>4. JobTypeOK'
      BY <1>0, <1>1, <2>2, <2>3, JobTypesKept
    <2>5. ASSUME NEW d \in open, Served' PROVE Accounted(d)'
      <3>1. WillTell(1, d) => WillTell(1, d)'
        BY <1>1, <2>1, <2>2 DEF WillTell
      <3>2. ~Outdated(d)'
        BY <2>2 DEF Outdated
      <3>3. Accounted(d)
        BY <1>a, <2>5
      <3> QED BY <1>0, <1>1, <2>3, <3>1, <3>2, <3>3, MovesAccounts
    <2> QED BY <2>4, <2>5
  <1> QED BY <1>2, <1>3, <1>4 DEF AfterReconcile

\* The types of the workspaces, the order of their epochs and the documents make
\* up the invariant.
LEMMA WorkspaceJobKeeps ==
    ASSUME BridgeInvariant, UNCHANGED <<editorVars, timerVars, disposed>>,
           WorkspaceTypeOK', JobTypeOK', EpochsOrdered',
           \A d \in open : Served' => Accounted(d)'
    PROVE  BridgeInvariant'
PROOF
  <1>1. EditorTypeOK'
    BY DEF BridgeInvariant, EditorTypeOK, editorVars, timerVars
  <1>2. ChangesCovered'
    BY DEF ChangesCovered, editorVars
  <1> QED BY <1>1, <1>2 DEF BridgeInvariant

\* How a step of a job moves the queue, as far as epochs are concerned.
LEMMA StepKnown ==
    ASSUME BridgeInvariant, Ends \/ Moves, NEW e \in Nat, NEW w1, NEW w2, KnownAt(w1, e), KnownAt(w2, e),
           AllKnownAt(announced, projected, stage, queue, e),
           Moves => (stage'.at \in {"opened", "announce"} => KnownAt(stage'.ws, e))
    PROVE  AllKnownAt(w1, w2, stage', queue', e)
  BY EndsKnown, MovesKnown DEF BridgeInvariant

\* The trust job, which comes after the trust.
LEMMA TrustJobKeeps ==
    ASSUME BridgeInvariant, TrustJob
    PROVE  BridgeInvariant'
PROOF
  <1>0. EditorTypeOK /\ WorkspaceTypeOK /\ JobTypeOK /\ ChangesCovered /\ EpochsOrdered
    BY DEF BridgeInvariant
  <1>1. /\ UNCHANGED <<editorVars, timerVars, disposed>>
        /\ UNCHANGED <<open, version, pending, trusted, conn, link, told, ready, dropped>>
    BY DEF TrustJob, editorVars, timerVars
  <1>2. queue # << >> /\ Job.kind = "trust" /\ Ends
    BY DEF TrustJob, Runs, EndJob, Ends
  <1>3. trusted
    BY <1>0, <1>2, FirstJob DEF EpochsOrdered
  <1>s. /\ SnapshotEpoch \in Nat /\ epoch <= SnapshotEpoch /\ epoch \in Nat
        /\ Snapshot \in Workspaces /\ KnownAt(Snapshot, SnapshotEpoch)
    BY <1>0, SnapshotKnown DEF WorkspaceTypeOK
  <1>w. announced \in Workspaces /\ projected \in Workspaces /\ daemon \in Workspaces
    BY <1>0 DEF WorkspaceTypeOK
  <1>4. (active' = active /\ epoch' = epoch) \/ (active' = folders /\ epoch' = SnapshotEpoch)
    BY DEF TrustJob, TakeSnapshot, modelVars
  <1>5. \/ announced' = announced /\ projected' = projected
        \/ announced' = Snapshot /\ projected' = Snapshot /\ epoch' = SnapshotEpoch
    BY DEF TrustJob, setAnnouncedWorkspace, TakeSnapshot
  <1>6. daemon' = daemon \/ (daemon # NoWorkspace /\ daemon' = [daemon EXCEPT !.trusted = TRUE])
    BY DEF TrustJob
  <1>7. epoch' \in Nat /\ epoch <= epoch' /\ active' \in FolderSets
    BY <1>0, <1>4, <1>s DEF EditorTypeOK, WorkspaceTypeOK
  <1>8. daemon' \in Workspaces /\ KnownAt(daemon', epoch')
    <2>1. KnownAt(daemon, epoch')
      BY <1>0, <1>7, <1>s, <1>w, KnownLater DEF EpochsOrdered
    <2>2. daemon # NoWorkspace => /\ [daemon EXCEPT !.trusted = TRUE] \in Workspaces
                                  /\ [daemon EXCEPT !.trusted = TRUE].epoch = daemon.epoch
      BY <1>w, Renewed
    <2> QED BY <1>6, <1>w, <2>1, <2>2 DEF KnownAt
  <1>9. announced' \in Workspaces /\ projected' \in Workspaces
    BY <1>5, <1>s, <1>w
  <1>10. AllKnownAt(announced', projected', stage', queue', epoch')
    <2>1. AllKnownAt(announced, projected, stage, queue, epoch')
      BY <1>0, <1>7, <1>s, <1>w, AllKnownLater DEF EpochsOrdered
    <2>2. KnownAt(announced', epoch') /\ KnownAt(projected', epoch')
      BY <1>5, <1>s, <2>1 DEF AllKnownAt
    <2>3. ~Moves
      BY <1>2, EndsShifts, <1>0 DEF Moves, Ends
    <2> QED BY <1>2, <1>7, <2>1, <2>2, <2>3, StepKnown
  <1>11. EpochsOrdered'
    <2>1. \A i \in DOMAIN queue' : queue'[i].kind = "trust" => trusted'
      BY <1>1, <1>3
    <2> QED BY <1>1, <1>3, <1>8, <1>10, <2>1 DEF EpochsOrdered
  <1>12. WorkspaceTypeOK'
    BY <1>0, <1>1, <1>7, <1>8, <1>9 DEF WorkspaceTypeOK
  <1>13. JobTypeOK'
    <2>1. told' \in [Docs -> Nat] /\ dropped' \in [Docs -> Nat]
      BY <1>0, <1>1 DEF JobTypeOK
    <2> QED BY <1>0, <1>2, <2>1, JobTypesKept
  <1>14. ASSUME NEW d \in open, Served' PROVE Accounted(d)'
    <2>1. ~WillTell(1, d)
      BY <1>0, <1>2, FirstJob DEF WillTell
    <2>2. Accounted(d) /\ d \in Docs
      BY <1>0, <1>1, <1>14 DEF ChangesCovered, Served, EditorTypeOK
    <2> QED BY <1>0, <1>1, <1>2, <2>1, <2>2, EndsAccounts
  <1> QED BY <1>1, <1>11, <1>12, <1>13, <1>14, WorkspaceJobKeeps

\* What #reconcileWorkspace makes of the workspaces: the daemon keeps its own, or
\* gets one as new as the model.
LEMMA ReconcilesWorkspaces ==
    ASSUME BridgeInvariant, queue # << >>, NEW was \in Workspaces, TakeSnapshot, Reconciles(was, Snapshot),
           Job.kind # "sync" => was = announced
    PROVE  /\ announced' \in {was, Snapshot} /\ projected' \in {announced', projected}
           /\ daemon' \in Workspaces /\ KnownAt(daemon', epoch')
           /\ \/ /\ daemon' = daemon
                 /\ AfterReconcile \/ JobFails
                 /\ announced' = Snapshot /\ Snapshot # NoWorkspace
                        => was # NoWorkspace /\ was.epoch = Snapshot.epoch
              \/ /\ daemon' # NoWorkspace => daemon'.epoch = epoch'
                 /\ conn' = conn
                 /\ \E at \in {"opened", "announce"}, w \in Workspaces :
                        Goto([at |-> at, ws |-> w]) /\ KnownAt(w, epoch')
           /\ conn' = conn \/ JobFails
PROOF
  <1> DEFINE now == Snapshot
  <1>0. EditorTypeOK /\ WorkspaceTypeOK /\ JobTypeOK /\ EpochsOrdered
    BY DEF BridgeInvariant
  <1>s. /\ SnapshotEpoch \in Nat /\ epoch <= SnapshotEpoch /\ epoch \in Nat /\ epoch' = SnapshotEpoch
        /\ now \in Workspaces /\ KnownAt(now, epoch')
        /\ now # NoWorkspace => now.epoch = epoch'
    BY <1>0, SnapshotKnown DEF WorkspaceTypeOK, TakeSnapshot
  <1>d. daemon \in Workspaces /\ KnownAt(daemon, epoch')
    BY <1>0, <1>s, KnownLater DEF WorkspaceTypeOK, EpochsOrdered
  <1>n. NoWorkspace \in Workspaces /\ KnownAt(NoWorkspace, epoch')
    BY DEF Workspaces, KnownAt
  <1>r. Reconciles(was, now)
    OBVIOUS
  <1> HIDE DEF now
  <1> DEFINE differ == was # NoWorkspace /\ now # NoWorkspace /\ (was.roots # now.roots \/ was.epoch # now.epoch)
             same == was # NoWorkspace /\ now # NoWorkspace /\ ~differ
  <1>1. \/ /\ same \/ (was = NoWorkspace /\ now = NoWorkspace)
           /\ AfterReconcile
           /\ IF same /\ was.trusted = now.trusted THEN setAnnouncedWorkspace(now) ELSE BeginsWith(was)
           /\ daemon' = daemon /\ conn' = conn
        \/ /\ now # NoWorkspace
           /\ daemon' = now /\ conn' = conn
           /\ Goto([at |-> "opened", ws |-> now])
           /\ BeginsWith(was)
        \/ /\ daemon' = NoWorkspace /\ conn' = conn
           /\ Goto([at |-> "announce", ws |-> NoWorkspace])
           /\ BeginsWith(was)
        \/ /\ differ /\ conn' = conn
           /\ daemon' = IF daemon = NoWorkspace THEN daemon
                        ELSE [daemon EXCEPT !.roots = now.roots, !.epoch = now.epoch]
           /\ Goto([at |-> "announce", ws |-> [was EXCEPT !.roots = now.roots, !.epoch = now.epoch]])
           /\ BeginsWith(was)
        \/ JobFails /\ BeginsWith(was) /\ daemon' = daemon
    BY <1>r DEF Reconciles
  <1>2. CASE /\ same \/ (was = NoWorkspace /\ now = NoWorkspace)
             /\ AfterReconcile
             /\ IF same /\ was.trusted = now.trusted THEN setAnnouncedWorkspace(now) ELSE BeginsWith(was)
             /\ daemon' = daemon /\ conn' = conn
    BY <1>2, <1>d DEF BeginsWith, setAnnouncedWorkspace, now
  <1>3. CASE /\ now # NoWorkspace
             /\ daemon' = now /\ conn' = conn
             /\ Goto([at |-> "opened", ws |-> now])
             /\ BeginsWith(was)
    BY <1>3, <1>s DEF BeginsWith, setAnnouncedWorkspace, now
  <1>4. CASE /\ daemon' = NoWorkspace /\ conn' = conn
             /\ Goto([at |-> "announce", ws |-> NoWorkspace])
             /\ BeginsWith(was)
    BY <1>4, <1>n DEF BeginsWith, setAnnouncedWorkspace, now
  <1>5. CASE /\ differ /\ conn' = conn
             /\ daemon' = IF daemon = NoWorkspace THEN daemon
                          ELSE [daemon EXCEPT !.roots = now.roots, !.epoch = now.epoch]
             /\ Goto([at |-> "announce", ws |-> [was EXCEPT !.roots = now.roots, !.epoch = now.epoch]])
             /\ BeginsWith(was)
    <2> DEFINE w == [was EXCEPT !.roots = now.roots, !.epoch = now.epoch]
    <2>1. w \in Workspaces /\ w.epoch = now.epoch
      BY <1>5, <1>s, Renewed
    <2>2. daemon # NoWorkspace => daemon' \in Workspaces /\ daemon'.epoch = now.epoch
      BY <1>5, <1>s, <1>d, Renewed
    <2>3. Goto([at |-> "announce", ws |-> w])
      BY <1>5
    <2> HIDE DEF w
    <2>4. KnownAt(w, epoch') /\ now.epoch = epoch'
      BY <1>5, <1>s, <2>1 DEF KnownAt
    <2>5. daemon' \in Workspaces /\ KnownAt(daemon', epoch') /\ (daemon' # NoWorkspace => daemon'.epoch = epoch')
      BY <1>5, <1>s, <1>n, <2>2, <2>4 DEF KnownAt
    <2>6. announced' = was /\ projected' \in {was, projected} /\ conn' = conn
      BY <1>5 DEF BeginsWith, setAnnouncedWorkspace
    <2> QED BY <2>1, <2>3, <2>4, <2>5, <2>6
  <1>6. CASE JobFails /\ BeginsWith(was) /\ daemon' = daemon
    BY <1>6, <1>d DEF BeginsWith, setAnnouncedWorkspace, now
  <1> QED BY <1>1, <1>2, <1>3, <1>4, <1>5, <1>6

\* Reconciling.
LEMMA ReconcileKeeps ==
    ASSUME BridgeInvariant, ReconcileWorkspace
    PROVE  BridgeInvariant'
PROOF
  <1>0. EditorTypeOK /\ WorkspaceTypeOK /\ JobTypeOK /\ ChangesCovered /\ EpochsOrdered
    BY DEF BridgeInvariant
  <1>1. /\ UNCHANGED <<editorVars, timerVars, disposed>>
        /\ UNCHANGED <<open, version, pending, trusted, link, told, dropped>>
        /\ TakeSnapshot
    BY DEF ReconcileWorkspace, editorVars, timerVars
  <1>2. queue # << >> /\ Job.kind \in {"sync", "reconcile"} /\ stage.at = "begin" /\ Job = queue[1]
        /\ Job \in Jobs
    BY <1>0, FirstJob DEF ReconcileWorkspace, Runs
  <1> DEFINE was == IF Job.kind = "sync" THEN Job.ws ELSE announced
  <1>3. /\ was \in Workspaces
        /\ \A e : AllKnownAt(announced, projected, stage, queue, e) => KnownAt(was, e)
    <2>1. Job.kind = "sync" => Job.ws \in Workspaces
      BY <1>2, JobShape
    <2>2. 1 \in DOMAIN queue /\ announced \in Workspaces
      BY <1>0, <1>2, FirstJob DEF WorkspaceTypeOK
    <2> QED BY <1>2, <2>1, <2>2 DEF AllKnownAt
  <1>4. Reconciles(was, Snapshot)
    BY DEF ReconcileWorkspace
  <1>b. Job.kind # "sync" => was = announced
    OBVIOUS
  <1> HIDE DEF was
  <1>s. /\ SnapshotEpoch \in Nat /\ epoch <= SnapshotEpoch /\ epoch \in Nat /\ epoch' = SnapshotEpoch
        /\ Snapshot \in Workspaces /\ KnownAt(Snapshot, epoch') /\ active' = folders
    BY <1>0, <1>1, SnapshotKnown DEF WorkspaceTypeOK, TakeSnapshot
  <1>w. announced \in Workspaces /\ projected \in Workspaces /\ daemon \in Workspaces
    BY <1>0 DEF WorkspaceTypeOK
  <1>5. /\ announced' \in {was, Snapshot} /\ projected' \in {announced', projected}
        /\ daemon' \in Workspaces /\ KnownAt(daemon', epoch')
        /\ conn' = conn \/ JobFails
    BY <1>1, <1>2, <1>3, <1>4, <1>b, ReconcilesWorkspaces
  <1>6. \/ /\ daemon' = daemon
           /\ AfterReconcile \/ JobFails
           /\ announced' = Snapshot /\ Snapshot # NoWorkspace
                  => was # NoWorkspace /\ was.epoch = Snapshot.epoch
        \/ /\ daemon' # NoWorkspace => daemon'.epoch = epoch'
           /\ conn' = conn
           /\ \E at \in {"opened", "announce"}, w \in Workspaces :
                  Goto([at |-> at, ws |-> w]) /\ KnownAt(w, epoch')
    BY <1>1, <1>2, <1>3, <1>4, <1>b, ReconcilesWorkspaces
  <1>7. JobTypeOK' /\ conn' \in {conn, "down"} /\ \A d \in open : Served' => Accounted(d)'
    <2>1. CASE JobFails
      <3>1. Ends /\ conn' \in {conn, "down"} /\ \A d \in open : Served' => Accounted(d)'
        BY <1>1, <1>2, <2>1, FailureAccounts
      <3>2. told' \in [Docs -> Nat] /\ dropped' \in [Docs -> Nat]
        BY <1>0, <1>1 DEF JobTypeOK
      <3> QED BY <1>0, <3>1, <3>2, JobTypesKept
    <2>2. CASE ~JobFails
      <3>1. \/ AfterReconcile
            \/ \E at \in {"opened", "announce"}, w \in Workspaces : Goto([at |-> at, ws |-> w])
        BY <1>6, <2>2
      <3> QED BY <1>1, <1>2, <1>5, <2>2, <3>1, ReconcileAccounts
    <2> QED BY <2>1, <2>2
  <1>8. WorkspaceTypeOK'
    <2>1. ready' \in BOOLEAN
      BY <1>0, <1>4 DEF Reconciles, WorkspaceTypeOK
    <2> QED BY <1>0, <1>1, <1>3, <1>5, <1>7, <1>s, <1>w, <2>1 DEF WorkspaceTypeOK, EditorTypeOK
  <1>9. ASSUME AfterReconcile \/ JobFails
        PROVE  (Ends \/ Moves) /\ stage'.at \notin {"opened", "announce"}
    <2>1. EndJob \/ Goto([at |-> "docs", todo |-> open])
      BY <1>9 DEF AfterReconcile, JobFails
    <2>2. CASE EndJob
      BY <1>2, <2>2 DEF EndJob, Ends, Begin
    <2>3. CASE Goto([at |-> "docs", todo |-> open])
      <3>1. open \in SUBSET Docs
        BY <1>0 DEF EditorTypeOK
      <3> QED BY <1>2, <2>3, <3>1 DEF Goto, Moves, Stages
    <2> QED BY <2>1, <2>2, <2>3
  <1>10. ASSUME NEW at \in {"opened", "announce"}, NEW w \in Workspaces, Goto([at |-> at, ws |-> w])
         PROVE  Moves /\ stage'.ws = w
    BY <1>2, <1>10 DEF Goto, Moves, Stages
  <1>11. Ends \/ Moves
    BY <1>6, <1>9, <1>10
  <1>12. AllKnownAt(announced', projected', stage', queue', epoch')
    <2>1. AllKnownAt(announced, projected, stage, queue, epoch') /\ epoch' \in Nat
      BY <1>0, <1>s, <1>w, AllKnownLater DEF EpochsOrdered
    <2>2. KnownAt(announced', epoch') /\ KnownAt(projected', epoch')
      BY <1>3, <1>5, <1>s, <2>1 DEF AllKnownAt
    <2>3. stage'.at \in {"opened", "announce"} => KnownAt(stage'.ws, epoch')
      BY <1>6, <1>9, <1>10
    <2> QED BY <1>11, <2>1, <2>2, <2>3, StepKnown
  <1>13. ~trusted' /\ daemon' # NoWorkspace => AllKnownAt(announced', projected', stage', queue', daemon'.epoch)
    <2>1. SUFFICES ASSUME ~trusted', daemon' # NoWorkspace, daemon'.epoch # epoch'
                   PROVE  AllKnownAt(announced', projected', stage', queue', daemon'.epoch)
      BY <1>12
    <2>2. /\ daemon' = daemon /\ (AfterReconcile \/ JobFails)
          /\ announced' = Snapshot /\ Snapshot # NoWorkspace
                  => was # NoWorkspace /\ was.epoch = Snapshot.epoch
      BY <1>6, <2>1
    <2>3. AllKnownAt(announced, projected, stage, queue, daemon.epoch) /\ daemon.epoch \in Nat
      BY <1>0, <1>1, <2>1, <2>2, DaemonEpoch DEF EpochsOrdered
    <2>4. KnownAt(was, daemon.epoch)
      BY <1>3, <2>3
    <2>5. KnownAt(announced', daemon.epoch) /\ KnownAt(projected', daemon.epoch)
      BY <1>5, <2>2, <2>3, <2>4 DEF KnownAt, AllKnownAt
    <2>6. stage'.at \notin {"opened", "announce"}
      BY <1>9, <2>2
    <2> QED BY <1>11, <2>2, <2>3, <2>5, <2>6, StepKnown
  <1>14. EpochsOrdered'
    <2>1. \A i \in DOMAIN queue' : queue'[i].kind = "trust" => trusted'
      BY <1>0, <1>1, <1>11, TrustFirst DEF EpochsOrdered
    <2> QED BY <1>5, <1>12, <1>13, <2>1 DEF EpochsOrdered
  <1> QED BY <1>1, <1>7, <1>8, <1>14, WorkspaceJobKeeps

\* The announcement that was suspended stands, or fails.
LEMMA AnnouncedKeeps ==
    ASSUME BridgeInvariant, Announced \/ OpenedReady
    PROVE  BridgeInvariant'
PROOF
  <1>0. EditorTypeOK /\ WorkspaceTypeOK /\ JobTypeOK /\ ChangesCovered /\ EpochsOrdered
    BY DEF BridgeInvariant
  <1>1. /\ UNCHANGED <<editorVars, timerVars, disposed>>
        /\ UNCHANGED <<open, version, pending, trusted, active, epoch, link, daemon, told, dropped>>
    BY DEF Announced, OpenedReady, editorVars, timerVars, modelVars, daemonVars
  <1>2. queue # << >> /\ stage.at \in {"opened", "announce"} /\ Job.kind \in {"sync", "reconcile"}
        /\ stage.ws \in Workspaces
    <2>1. queue # << >> /\ stage.at \in {"opened", "announce"}
      BY DEF Announced, OpenedReady
    <2> QED BY <1>0, <2>1, StageShape DEF JobTypeOK
  <1>3. \/ announced' = stage.ws /\ projected' = stage.ws /\ AfterReconcile /\ conn' = conn
        \/ UNCHANGED <<announced, projected>> /\ JobFails
    BY DEF Announced, OpenedReady, setAnnouncedWorkspace
  <1>4. JobTypeOK' /\ conn' \in {conn, "down"} /\ \A d \in open : Served' => Accounted(d)'
    <2>1. CASE JobFails
      <3>1. Ends /\ conn' \in {conn, "down"} /\ \A d \in open : Served' => Accounted(d)'
        BY <1>1, <1>2, <2>1, FailureAccounts
      <3>2. told' \in [Docs -> Nat] /\ dropped' \in [Docs -> Nat]
        BY <1>0, <1>1 DEF JobTypeOK
      <3> QED BY <1>0, <3>1, <3>2, JobTypesKept
    <2>2. CASE AfterReconcile /\ conn' = conn
      BY <1>1, <1>2, <2>2, ReconcileAccounts
    <2> QED BY <1>3, <2>1, <2>2
  <1>5. announced' \in Workspaces /\ projected' \in Workspaces
    BY <1>0, <1>2, <1>3 DEF WorkspaceTypeOK
  <1>6. WorkspaceTypeOK'
    <2>1. ready' \in BOOLEAN
      BY <1>0 DEF Announced, OpenedReady, WorkspaceTypeOK, daemonVars
    <2> QED BY <1>0, <1>1, <1>4, <1>5, <2>1 DEF WorkspaceTypeOK
  <1>7. (Ends \/ Moves) /\ stage'.at \notin {"opened", "announce"}
    <2>1. EndJob \/ Goto([at |-> "docs", todo |-> open])
      BY <1>3 DEF AfterReconcile, JobFails
    <2>2. CASE EndJob
      BY <1>2, <2>2 DEF EndJob, Ends, Begin
    <2>3. CASE Goto([at |-> "docs", todo |-> open])
      <3>1. open \in SUBSET Docs
        BY <1>0 DEF EditorTypeOK
      <3> QED BY <1>2, <2>3, <3>1 DEF Goto, Moves, Stages
    <2> QED BY <2>1, <2>2, <2>3
  <1>8. ASSUME NEW e \in Nat, AllKnownAt(announced, projected, stage, queue, e)
        PROVE  AllKnownAt(announced', projected', stage', queue', e)
    <2>1. KnownAt(announced', e) /\ KnownAt(projected', e)
      BY <1>2, <1>3, <1>8 DEF AllKnownAt
    <2> QED BY <1>7, <1>8, <2>1, StepKnown
  <1>9. EpochsOrdered'
    <2>1. \A i \in DOMAIN queue' : queue'[i].kind = "trust" => trusted'
      BY <1>0, <1>1, <1>7, TrustFirst DEF EpochsOrdered
    <2>2. epoch \in Nat /\ (daemon # NoWorkspace => daemon.epoch \in Nat)
      BY <1>0, DaemonEpoch DEF WorkspaceTypeOK
    <2> QED BY <1>0, <1>1, <1>8, <2>1, <2>2 DEF EpochsOrdered
  <1> QED BY <1>1, <1>4, <1>6, <1>9, WorkspaceJobKeeps

-----------------------------------------------------------------------------
(* The connection.                                                         *)

\* A session that ends is forgotten.
LEMMA LostKeeps ==
    ASSUME BridgeInvariant, ConnectionLost
    PROVE  BridgeInvariant'
PROOF
  <1>0. EditorTypeOK /\ WorkspaceTypeOK /\ JobTypeOK /\ EpochsOrdered
    BY DEF BridgeInvariant
  <1>1. /\ UNCHANGED <<editorVars, timerVars, disposed>>
        /\ UNCHANGED <<trusted, active, epoch, announced, projected, queue, stage, link, dropped>>
        /\ conn' = "down" /\ daemon' = NoWorkspace /\ told' = [d \in Docs |-> 0] /\ ready' = FALSE
    BY DEF ConnectionLost, editorVars, modelVars
  <1>2. WorkspaceTypeOK'
    BY <1>0, <1>1 DEF WorkspaceTypeOK, Workspaces
  <1>3. JobTypeOK'
    BY <1>0, <1>1 DEF JobTypeOK, Job
  <1>4. EpochsOrdered'
    BY <1>0, <1>1 DEF EpochsOrdered, KnownAt
  <1>5. ~Served'
    BY <1>1 DEF Served
  <1> QED BY <1>1, <1>2, <1>3, <1>4, <1>5, WorkspaceJobKeeps

\* The workspace that is registered is newer than all before it.
LEMMA RegisterKeeps ==
    ASSUME BridgeInvariant, Register
    PROVE  BridgeInvariant'
PROOF
  <1>0. EditorTypeOK /\ WorkspaceTypeOK /\ JobTypeOK /\ EpochsOrdered
    BY DEF BridgeInvariant
  <1>1. /\ UNCHANGED <<editorVars, timerVars, disposed>>
        /\ UNCHANGED <<trusted, announced, queue, stage, told, ready, dropped>>
        /\ conn' = "registering" /\ link' = link + 1 /\ active' = folders /\ epoch' = SnapshotEpoch + 1
    BY DEF Register, editorVars
  <1>2. SnapshotEpoch \in Nat /\ epoch \in Nat /\ epoch' \in Nat /\ epoch <= epoch'
    BY <1>0, <1>1, SnapshotKnown DEF WorkspaceTypeOK
  <1>3. /\ daemon' = projected' /\ daemon' \in Workspaces
        /\ daemon' # NoWorkspace => daemon'.epoch = epoch'
    <2>1. CASE folders = {}
      BY <2>1 DEF Register, Workspaces
    <2>2. CASE folders # {}
      <3> DEFINE w == [Snapshot EXCEPT !.epoch = SnapshotEpoch + 1]
      <3>1. Snapshot = [roots |-> folders, epoch |-> SnapshotEpoch, trusted |-> trusted]
        BY <2>2 DEF Snapshot
      <3>2. w \in Workspace /\ w.epoch = epoch'
        BY <1>0, <1>1, <1>2, <3>1 DEF Workspace, EditorTypeOK
      <3>3. daemon' = w /\ projected' = w
        BY <2>2 DEF Register
      <3> QED BY <3>2, <3>3 DEF Workspaces
    <2> QED BY <2>1, <2>2
  <1>4. WorkspaceTypeOK'
    BY <1>0, <1>1, <1>2, <1>3 DEF WorkspaceTypeOK, EditorTypeOK
  <1>5. JobTypeOK'
    BY <1>0, <1>1 DEF JobTypeOK, Job
  <1>6. AllKnownAt(announced', projected', stage', queue', epoch')
    <2>1. announced \in Workspaces /\ projected \in Workspaces
      BY <1>0 DEF WorkspaceTypeOK
    <2>2. AllKnownAt(announced, projected, stage, queue, epoch')
      BY <1>0, <1>2, <2>1, AllKnownLater DEF EpochsOrdered
    <2>3. KnownAt(projected', epoch')
      BY <1>2, <1>3 DEF KnownAt
    <2> QED BY <1>1, <2>2, <2>3 DEF AllKnownAt
  <1>7. EpochsOrdered'
    <2>1. KnownAt(daemon', epoch')
      BY <1>2, <1>3 DEF KnownAt
    <2>2. \A i \in DOMAIN queue' : queue'[i].kind = "trust" => trusted'
      BY <1>0, <1>1 DEF EpochsOrdered
    <2> QED BY <1>3, <1>6, <2>1, <2>2 DEF EpochsOrdered
  <1>8. ~Served'
    BY <1>1 DEF Served
  <1> QED BY <1>1, <1>4, <1>5, <1>7, <1>8, WorkspaceJobKeeps

\* The synchronize of the new connection is queued before anything is promised.
LEMMA RegisteredKeeps ==
    ASSUME BridgeInvariant, Registered
    PROVE  BridgeInvariant'
PROOF
  <1>0. EditorTypeOK /\ WorkspaceTypeOK /\ JobTypeOK /\ EpochsOrdered
    BY DEF BridgeInvariant
  <1>1. /\ UNCHANGED <<editorVars, timerVars, disposed>>
        /\ UNCHANGED <<trusted, active, epoch, announced, projected, stage, link, daemon, told, ready, dropped>>
        /\ conn' = "restoring"
    BY DEF Registered, editorVars, modelVars, daemonVars
  <1> DEFINE x == synchronize(link, daemon)
  <1>2. link \in Nat /\ daemon \in Workspaces /\ told' \in [Docs -> Nat] /\ dropped' \in [Docs -> Nat]
    BY <1>0, <1>1 DEF WorkspaceTypeOK, JobTypeOK
  <1>3. x \in Jobs /\ x.kind = "sync" /\ x.link = link /\ x.ws = daemon
    BY <1>2, JobsMade
  <1>4. IF disposed THEN queue' = queue ELSE queue' = Append(queue, x)
    BY DEF Registered
  <1> HIDE DEF x
  <1>5. \/ disposed /\ Adds({})
        \/ ~disposed /\ Adds({x})
    BY <1>0, <1>1, <1>3, <1>4, AddsOne, AddsNone
  <1>6. PICK S : Adds(S) /\ (S = {} \/ S = {x}) /\ (~disposed => S = {x})
    BY <1>5
  <1>7. JobTypeOK'
    BY <1>0, <1>2, <1>6, JobTypesKept
  <1>8. ASSUME NEW d \in open, Served' PROVE Accounted(d)'
    <2>1. d \in Docs /\ S = {x} /\ link' = link
      BY <1>0, <1>1, <1>6, <1>8 DEF EditorTypeOK, Served
    <2> QED BY <1>0, <1>3, <1>6, <2>1, AddedTells
  <1>9. WorkspaceTypeOK'
    BY <1>0, <1>1 DEF WorkspaceTypeOK
  <1>10. ASSUME NEW e, KnownAt(daemon, e), AllKnownAt(announced, projected, stage, queue, e)
         PROVE  AllKnownAt(announced', projected', stage', queue', e)
    BY <1>0, <1>1, <1>3, <1>6, <1>10, AddsKnown
  <1>11. EpochsOrdered'
    <2>1. \A i \in DOMAIN queue' : queue'[i].kind = "trust" => trusted'
      <3>1. \A y \in S : y.kind # "trust"
        BY <1>3, <1>6
      <3> QED BY <1>0, <1>1, <1>6, <3>1, TrustFirst DEF EpochsOrdered
    <2>2. daemon # NoWorkspace => KnownAt(daemon, daemon.epoch)
      BY <1>0, DaemonEpoch DEF KnownAt
    <2> QED BY <1>0, <1>1, <1>10, <2>1, <2>2 DEF EpochsOrdered
  <1> QED BY <1>1, <1>7, <1>8, <1>9, <1>11, WorkspaceJobKeeps

\* Opening the connection to everyone changes nothing else.
LEMMA PublishedKeeps ==
    ASSUME BridgeInvariant, Published
    PROVE  BridgeInvariant'
PROOF
  <1>0. EditorTypeOK /\ WorkspaceTypeOK /\ JobTypeOK /\ ChangesCovered /\ EpochsOrdered
    BY DEF BridgeInvariant
  <1>1. /\ UNCHANGED <<editorVars, timerVars, disposed>>
        /\ UNCHANGED <<open, version, pending, trusted, active, epoch, announced, projected, queue, stage,
                       link, daemon, told, ready, dropped>>
        /\ conn = "restoring" /\ conn' = "up"
    BY DEF Published, editorVars, timerVars, modelVars, daemonVars
  <1>2. WorkspaceTypeOK' /\ JobTypeOK' /\ EpochsOrdered'
    BY <1>0, <1>1 DEF WorkspaceTypeOK, JobTypeOK, EpochsOrdered, Job
  <1>3. ASSUME NEW d \in open, Served' PROVE Accounted(d)'
    <2>1. Accounted(d) /\ d \in Docs
      BY <1>0, <1>1, <1>3 DEF ChangesCovered, Served, EditorTypeOK
    <2>2. Adds({})
      BY <1>0, <1>1, AddsNone
    <2> QED BY <1>0, <1>1, <2>1, <2>2, AddsAccounts
  <1> QED BY <1>1, <1>2, <1>3, WorkspaceJobKeeps

-----------------------------------------------------------------------------
(* The theorems.                                                           *)

\* It all holds when the first registration has succeeded.
LEMMA BridgeStarts ==
    ASSUME BridgeInit
    PROVE  BridgeInvariant
PROOF
  <1>1. /\ folders \in FolderSets /\ trusted = FALSE /\ events = 0 /\ active \in FolderSets /\ epoch = 0
        /\ projected = daemon /\ announced = NoWorkspace /\ open \in SUBSET Docs
        /\ version = [d \in Docs |-> 1] /\ pending = {} /\ pendingDiagnostics = {}
        /\ stage = Begin /\ disposed = FALSE /\ conn = "up" /\ link = 1
        /\ told = [d \in Docs |-> 0] /\ ready = FALSE /\ dropped = [d \in Docs |-> 0]
    BY DEF BridgeInit
  <1>2. daemon \in Workspaces /\ (daemon # NoWorkspace => daemon.epoch = 0)
    <2>1. daemon = IF active = {} THEN NoWorkspace ELSE [roots |-> active, epoch |-> 0, trusted |-> FALSE]
      BY DEF BridgeInit
    <2>2. [roots |-> active, epoch |-> 0, trusted |-> FALSE] \in Workspace
      BY <1>1 DEF Workspace
    <2> QED BY <2>1, <2>2 DEF Workspaces
  <1> DEFINE x == synchronize(1, daemon)
  <1>3. x \in Jobs /\ x.kind = "sync" /\ x.link = 1 /\ x.ws = daemon
    BY <1>2, JobsMade
  <1>4. queue = <<x>>
    BY DEF BridgeInit
  <1> HIDE DEF x
  <1>5. queue \in Seq(Jobs) /\ DOMAIN queue = {1} /\ queue[1] = x /\ queue # << >>
    BY <1>3, <1>4
  <1>6. stage \in Stages /\ stage.at = "begin"
    BY <1>1 DEF Begin, Stages
  <1>7. EditorTypeOK
    BY <1>1 DEF EditorTypeOK
  <1>8. WorkspaceTypeOK
    BY <1>1, <1>2 DEF WorkspaceTypeOK, Workspaces
  <1>9. JobTypeOK
    BY <1>1, <1>5, <1>6 DEF JobTypeOK
  <1>10. ChangesCovered
    <2>1. ASSUME NEW d \in open PROVE Covered(d)
      <3>1. WillTell(1, d)
        BY <1>1, <1>3, <1>5, <1>6 DEF WillTell
      <3> QED BY <1>5, <3>1 DEF Covered
    <2> QED BY <2>1 DEF ChangesCovered, Accounted
  <1>11. EpochsOrdered
    <2>1. KnownAt(daemon, 0) /\ KnownAt(NoWorkspace, 0)
      BY <1>2 DEF KnownAt
    <2>2. AllKnownAt(announced, projected, stage, queue, 0)
      BY <1>1, <1>3, <1>5, <1>6, <2>1 DEF AllKnownAt
    <2>3. \A i \in DOMAIN queue : queue[i].kind # "trust"
      BY <1>3, <1>5
    <2> QED BY <1>1, <1>2, <2>1, <2>2, <2>3 DEF EpochsOrdered
  <1> QED BY <1>7, <1>8, <1>9, <1>10, <1>11 DEF BridgeInvariant

\* Every step keeps it.
LEMMA BridgeSteps ==
    ASSUME BridgeInvariant, [BridgeNext]_vars
    PROVE  BridgeInvariant'
PROOF
  <1>1. CASE (\E e \in Docs : DocumentEvent(e) \/ Timer(e)) \/ WorkspaceEvent \/ dispose
    BY <1>1, EventsKeep
  <1>2. CASE JobStep
    BY <1>2, MapDocumentKeeps, NotifyDocumentKeeps, DeleteJobKeeps, TrustJobKeeps, ReconcileKeeps,
       AnnouncedKeeps, SyncDocumentKeeps, SyncNotifyKeeps, SyncReadyKeeps DEF JobStep
  <1>3. CASE ConnectionStep
    BY <1>3, LostKeeps, RegisterKeeps, RegisteredKeeps, PublishedKeeps DEF ConnectionStep
  <1>4. CASE UNCHANGED vars
    <2>1. /\ UNCHANGED <<editorVars, timerVars, disposed>>
          /\ UNCHANGED <<open, version, pending, trusted, active, epoch, announced, projected, queue, stage,
                         conn, link, daemon, told, ready, dropped>>
      BY <1>4 DEF vars, editorVars, timerVars, modelVars, daemonVars
    <2>2. EditorTypeOK /\ WorkspaceTypeOK /\ JobTypeOK /\ ChangesCovered /\ EpochsOrdered
      BY DEF BridgeInvariant
    <2>3. WorkspaceTypeOK' /\ JobTypeOK' /\ EpochsOrdered'
      BY <2>1, <2>2 DEF WorkspaceTypeOK, JobTypeOK, EpochsOrdered, Job
    <2>4. ASSUME NEW d \in open, Served' PROVE Accounted(d)'
      <3>1. Accounted(d) /\ d \in Docs
        BY <2>1, <2>2, <2>4 DEF ChangesCovered, Served, EditorTypeOK
      <3>2. Adds({})
        BY <2>1, <2>2, AddsNone
      <3> QED BY <2>1, <2>2, <3>1, <3>2, AddsAccounts
    <2> QED BY <2>1, <2>3, <2>4, WorkspaceJobKeeps
  <1> QED BY <1>1, <1>2, <1>3, <1>4 DEF BridgeNext

\* The types of the bridge, where its jobs may be suspended, which changes are
\* accounted for and which workspaces are newer hold throughout.
THEOREM BridgeInvariantAlways == BridgeSpec => []BridgeInvariant
PROOF
  <1>1. BridgeInit => BridgeInvariant
    BY BridgeStarts
  <1>2. BridgeInvariant /\ [BridgeNext]_vars => BridgeInvariant'
    BY BridgeSteps
  <1> QED BY <1>1, <1>2, PTL DEF BridgeSpec

\* Through bursts, flushes, reconnections, the overflow of the timers and changes
\* of the folders, the text of no open document is forgotten in silence.
THEOREM BridgeForgetsNothing == BridgeSpec => []NoChangeForgotten
PROOF
  <1>1. BridgeInvariant => NoChangeForgotten
    BY DEF BridgeInvariant, ChangesCovered, Accounted, Covered, Served, NoChangeForgotten
  <1> QED BY <1>1, BridgeInvariantAlways, PTL

\* Until trust is granted, documents are mapped in no workspace that is newer than
\* the one the daemon knows.
THEOREM BridgeProjectsKnown == BridgeSpec => []ProjectionNotNewer
PROOF
  <1>1. BridgeInvariant => ProjectionNotNewer
    BY DEF BridgeInvariant, EpochsOrdered, AllKnownAt, KnownAt, ProjectionNotNewer
  <1> QED BY <1>1, BridgeInvariantAlways, PTL

=============================================================================
