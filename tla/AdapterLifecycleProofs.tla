------------------------- MODULE AdapterLifecycleProofs ------------------------
(***************************************************************************)
(* Proofs about the daemons that share a path, and about the windows that  *)
(* start and use them, for any number of both, of attempts and crashes.    *)
(*                                                                         *)
(* OwnersHoldLock is not inductive: an owner keeps its lock against a      *)
(* competitor that is about to rename because what the competitor has seen *)
(* is a process that ended (StaleSeen), and such a process never owns      *)
(* again.  CleanExit needs to know who may have written the two files      *)
(* (LockWriter, DiscoveryWriter), at every await before the exit.          *)
(*                                                                         *)
(* What the daemons guarantee carries over to the windows.                 *)
(* NothingLeftBehind needs ChildrenOwned, since the process of a window    *)
(* runs only between its spawn and its reaping, and Unconnected, for the   *)
(* phases from closing the connection to the end.  ConnectedMeansRegistered *)
(* has to hold already while a restoration is awaited (RegisteredOnceUp).  *)
(***************************************************************************)
EXTENDS AdapterLifecycle, TLAPS

\* acquireDaemonOwnership has published the lock of p.
Holding == Owning \cup {"chmod"}

Ended == {"exited", "dead"}

\* What a process at label has to know before it exits.
LockWriter == \A p \in Daemons : lock = p => at[p] \in Holding \cup {"dead"}

DiscoveryWriter ==
    \A p \in Daemons :
        /\ discovery = p => /\ at[p] \in {"confirm", "withdraw", "serving", "close",
                                          "matchDiscovery", "unlinkDiscovery", "dead"}
                            /\ at[p] = "close" => p \in wrote
        /\ at[p] = "serving" => p \in wrote

HoldersLock == \A p \in Daemons \ robbed : at[p] \in Holding => lock = p

StaleSeen ==
    \A q \in Daemons :
        /\ at[q] = "check" => seen[q] \in Daemons /\ at[seen[q]] # "off"
        /\ at[q] = "rename" => seen[q] \in Daemons /\ at[seen[q]] \in Ended

AttemptsLeft ==
    \A p \in Daemons : at[p] \in Acquiring \cup {"off"} => attempt[p] < MAX_ACQUISITION_ATTEMPTS

OwnershipInvariant ==
    /\ OwnershipTypeOK
    /\ AttemptsLeft
    /\ LockWriter
    /\ DiscoveryWriter
    /\ HoldersLock
    /\ StaleSeen

\* It holds before any daemon runs.
LEMMA OwnershipInitially == OwnershipInit => OwnershipInvariant
  BY OwnershipConstants
  DEF OwnershipInit, OwnershipInvariant, OwnershipTypeOK, AttemptsLeft, LockWriter,
      DiscoveryWriter, HoldersLock, StaleSeen, Files, Holding, Owning, Acquiring, Ended

-----------------------------------------------------------------------------
(* One lemma per group of steps; each covers all parts of the invariant.   *)

\* The command before it acquires.
LEMMA CommandStep ==
    ASSUME OwnershipInvariant, NEW p \in Daemons, DaemonCommand(p)
    PROVE  OwnershipInvariant'
  BY OwnershipConstants
  DEF DaemonCommand, Goto, OwnershipInvariant, OwnershipTypeOK, AttemptsLeft, LockWriter,
      DiscoveryWriter, HoldersLock, StaleSeen, Files, Holding, Owning, Acquiring, Ended

\* acquireDaemonOwnership, from one await to the next.
LEMMA AcquisitionStep ==
    ASSUME OwnershipInvariant, NEW p \in Daemons, acquireDaemonOwnership(p)
    PROVE  OwnershipInvariant'
  <1>1. CASE publishOwner(p)
    BY <1>1, OwnershipConstants
    DEF publishOwner, Goto, OwnershipInvariant, OwnershipTypeOK, AttemptsLeft, LockWriter,
        DiscoveryWriter, HoldersLock, StaleSeen, Files, Holding, Owning, Acquiring, Ended
  <1>2. CASE OwnerPublished(p)
    BY <1>2, OwnershipConstants
    DEF OwnerPublished, Goto, OwnershipInvariant, OwnershipTypeOK, AttemptsLeft, LockWriter,
        DiscoveryWriter, HoldersLock, StaleSeen, Files, Holding, Owning, Acquiring, Ended
  <1>3. CASE readOwner(p)
    BY <1>3, OwnershipConstants
    DEF readOwner, NextAttempt, Goto, OwnershipInvariant, OwnershipTypeOK, AttemptsLeft,
        LockWriter, DiscoveryWriter, HoldersLock, StaleSeen, Files, Holding, Owning,
        Acquiring, Ended
  <1>4. CASE CheckOwner(p)
    BY <1>4, OwnershipConstants
    DEF CheckOwner, Running, Goto, OwnershipInvariant, OwnershipTypeOK, AttemptsLeft,
        LockWriter, DiscoveryWriter, HoldersLock, StaleSeen, Files, Holding, Owning,
        Acquiring, Ended
  <1>5. CASE RenameStale(p)
    BY <1>5, OwnershipConstants
    DEF RenameStale, NextAttempt, Goto, OwnershipInvariant, OwnershipTypeOK, AttemptsLeft,
        LockWriter, DiscoveryWriter, HoldersLock, StaleSeen, Files, Holding, Owning,
        Acquiring, Ended
  <1>6. CASE AcquisitionFails(p)
    BY <1>6, OwnershipConstants
    DEF AcquisitionFails, Goto, OwnershipInvariant, OwnershipTypeOK, AttemptsLeft, LockWriter,
        DiscoveryWriter, HoldersLock, StaleSeen, Files, Holding, Owning, Acquiring, Ended
  <1>7. QED
    BY <1>1, <1>2, <1>3, <1>4, <1>5, <1>6 DEF acquireDaemonOwnership

\* From the listening server to the published discovery file and back.
LEMMA ServingStep ==
    ASSUME OwnershipInvariant, NEW p \in Daemons, NEW ok \in BOOLEAN,
           \/ StartServer(p, ok) \/ PublishDiscovery(p, ok) \/ ConfirmDiscovery(p, ok)
           \/ WithdrawDiscovery(p) \/ Shutdown(p) \/ CloseServer(p)
    PROVE  OwnershipInvariant'
  <1>1. CASE StartServer(p, ok)
    BY <1>1, OwnershipConstants
    DEF StartServer, Goto, OwnershipInvariant, OwnershipTypeOK, AttemptsLeft, LockWriter,
        DiscoveryWriter, HoldersLock, StaleSeen, Files, Holding, Owning, Acquiring, Ended
  <1>2. CASE PublishDiscovery(p, ok)
    BY <1>2, OwnershipConstants
    DEF PublishDiscovery, Goto, OwnershipInvariant, OwnershipTypeOK, AttemptsLeft, LockWriter,
        DiscoveryWriter, HoldersLock, StaleSeen, Files, Holding, Owning, Acquiring, Ended
  <1>3. CASE ConfirmDiscovery(p, ok)
    BY <1>3, OwnershipConstants
    DEF ConfirmDiscovery, Goto, OwnershipInvariant, OwnershipTypeOK, AttemptsLeft, LockWriter,
        DiscoveryWriter, HoldersLock, StaleSeen, Files, Holding, Owning, Acquiring, Ended
  <1>4. CASE Shutdown(p)
    BY <1>4, OwnershipConstants
    DEF Shutdown, Goto, OwnershipInvariant, OwnershipTypeOK, AttemptsLeft, LockWriter,
        DiscoveryWriter, HoldersLock, StaleSeen, Files, Holding, Owning, Acquiring, Ended
  <1>5. CASE CloseServer(p)
    BY <1>5, OwnershipConstants
    DEF CloseServer, Goto, OwnershipInvariant, OwnershipTypeOK, AttemptsLeft, LockWriter,
        DiscoveryWriter, HoldersLock, StaleSeen, Files, Holding, Owning, Acquiring, Ended
  <1>6. CASE WithdrawDiscovery(p)
    BY <1>6, OwnershipConstants
    DEF WithdrawDiscovery, Goto, OwnershipInvariant, OwnershipTypeOK, AttemptsLeft, LockWriter,
        DiscoveryWriter, HoldersLock, StaleSeen, Files, Holding, Owning, Acquiring, Ended
  <1>7. QED
    BY <1>1, <1>2, <1>3, <1>4, <1>5, <1>6

\* The release of the two files.
LEMMA ReleaseStep ==
    ASSUME OwnershipInvariant, NEW p \in Daemons,
           removeOwnedDiscoveryFile(p) \/ releaseDaemonOwnership(p)
    PROVE  OwnershipInvariant'
  <1>1. CASE removeOwnedDiscoveryFile(p)
    BY <1>1, OwnershipConstants
    DEF removeOwnedDiscoveryFile, Goto, OwnershipInvariant, OwnershipTypeOK, AttemptsLeft,
        LockWriter, DiscoveryWriter, HoldersLock, StaleSeen, Files, Holding, Owning,
        Acquiring, Ended
  <1>2. CASE releaseDaemonOwnership(p)
    BY <1>2, OwnershipConstants
    DEF releaseDaemonOwnership, Goto, OwnershipInvariant, OwnershipTypeOK, AttemptsLeft,
        LockWriter, DiscoveryWriter, HoldersLock, StaleSeen, Files, Holding, Owning,
        Acquiring, Ended
  <1>3. QED
    BY <1>1, <1>2

\* A process that ends where it stands, by a crash or killed by the window that
\* spawned it.
LEMMA DeathStep ==
    ASSUME OwnershipInvariant, NEW p \in Daemons, Running(p), Goto(p, "dead"),
           UNCHANGED <<lock, discovery, attempt, seen, wrote, signalled, robbed>>,
           crashes' \in 0 .. MaxCrashes
    PROVE  OwnershipInvariant'
  BY OwnershipConstants
  DEF Running, Goto, OwnershipInvariant, OwnershipTypeOK, AttemptsLeft, LockWriter,
      DiscoveryWriter, HoldersLock, StaleSeen, Files, Holding, Owning, Acquiring, Ended

\* A signal is only remembered.
LEMMA SignalStep ==
    ASSUME OwnershipInvariant, signalled' \in SUBSET Daemons,
           UNCHANGED <<lock, discovery, at, attempt, seen, wrote, crashes, robbed>>
    PROVE  OwnershipInvariant'
  BY DEF OwnershipInvariant, OwnershipTypeOK, AttemptsLeft, LockWriter, DiscoveryWriter,
         HoldersLock, StaleSeen

\* Every step of a daemon and of the environment keeps the invariant.
LEMMA DaemonKeepsInvariant ==
    ASSUME OwnershipInvariant, NEW p \in Daemons,
           DaemonCommand(p) \/ DaemonStep(p) \/ Signal(p) \/ Crash(p)
    PROVE  OwnershipInvariant'
  <1>1. CASE DaemonCommand(p)
    BY <1>1, CommandStep
  <1>2. CASE DaemonStep(p)
    BY <1>2, AcquisitionStep, ServingStep, ReleaseStep DEF DaemonStep
  <1>3. CASE Signal(p)
    <2>1. signalled' \in SUBSET Daemons
      BY <1>3 DEF Signal, OwnershipInvariant, OwnershipTypeOK
    <2>2. QED
      BY <1>3, <2>1, SignalStep DEF Signal
  <1>4. CASE Crash(p)
    <2>1. crashes' \in 0 .. MaxCrashes
      BY <1>4, OwnershipConstants DEF Crash, OwnershipInvariant, OwnershipTypeOK
    <2>2. QED
      BY <1>4, <2>1, DeathStep DEF Crash
  <1>5. QED
    BY <1>1, <1>2, <1>3, <1>4

\* No step, no change.
LEMMA OwnershipStutters ==
    OwnershipInvariant /\ UNCHANGED ownershipVars => OwnershipInvariant'
  BY DEF ownershipVars, OwnershipInvariant, OwnershipTypeOK, AttemptsLeft, LockWriter,
         DiscoveryWriter, HoldersLock, StaleSeen

\* What the invariant is for.
LEMMA OwnershipImplies == OwnershipInvariant => OwnersHoldLock /\ CleanExit
  BY OwnershipConstants
  DEF OwnershipInvariant, OwnersHoldLock, CleanExit, Owners, LockWriter, DiscoveryWriter,
      HoldersLock, Holding, Owning

-----------------------------------------------------------------------------

\* The inductive invariant holds for daemons started from a shell.
THEOREM OwnershipInvariantAlways == OwnershipSpec => []OwnershipInvariant
  <1>1. OwnershipInvariant /\ [OwnershipNext]_ownershipVars => OwnershipInvariant'
    BY DaemonKeepsInvariant, OwnershipStutters DEF OwnershipNext
  <1>2. QED
    BY <1>1, OwnershipInitially, PTL DEF OwnershipSpec

\* Of any number of daemons on one path, each that owns it has its own lock in
\* place unless a competitor took it after checking a dead owner's: owners that
\* were not robbed in this way are one at most (ownership.ts).
THEOREM OwnersKeepLock == OwnershipSpec => []OwnersHoldLock
  BY OwnershipInvariantAlways, OwnershipImplies, PTL

\* A daemon command that ended by itself leaves neither file behind
\* (daemon-command.ts).
THEOREM ExitsAreClean == OwnershipSpec => []CleanExit
  BY OwnershipInvariantAlways, OwnershipImplies, PTL

-----------------------------------------------------------------------------
(* The windows of the extension.                                           *)

\* The child process of a window is in #ownedDaemon as long as it lives.
ChildrenOwned == \A w \in Windows : Running(w) => w \in owned

ReapedPhases == {"failed", "stopped"}

ClosedPhases == ReapedPhases \cup {"failReap", "stopReap"}

Unconnected ==
    \A w \in Windows :
        /\ phase[w] \in ClosedPhases \cup {"idle", "connect", "allow", "retry"} => conn[w] = NoProc
        /\ phase[w] \in ReapedPhases => w \notin owned

RegisteredConnected == \A w \in registered : conn[w] \in Daemons

RegisteredOnceUp ==
    \A w \in Windows :
        phase[w] \in {"restore", "started"} /\ w \notin stopping /\ conn[w] \in Daemons
            => w \in registered

LifecycleInvariant ==
    /\ LifecycleTypeOK
    /\ ChildrenOwned
    /\ Unconnected
    /\ RegisteredConnected
    /\ RegisteredOnceUp

\* It holds before any window starts.
LEMMA LifecycleInitially == LifecycleInit => OwnershipInvariant /\ LifecycleInvariant
  <1>1. LifecycleInit => OwnershipInvariant
    BY OwnershipInitially DEF LifecycleInit
  <1>2. LifecycleInit => LifecycleInvariant
    BY WindowsAssumption, OwnershipConstants
    DEF LifecycleInit, OwnershipInit, Running, LifecycleInvariant, LifecycleTypeOK,
        ChildrenOwned, Unconnected, RegisteredConnected, RegisteredOnceUp, Files, ReapedPhases,
        ClosedPhases
  <1>3. QED
    BY <1>1, <1>2

\* A window's own steps that no process takes part in.
LEMMA WindowStep ==
    ASSUME OwnershipTypeOK, LifecycleInvariant, NEW w \in Windows, UNCHANGED at,
           \/ Start(w) \/ Connected(w) \/ FirstConnectFails(w) \/ AutoStartRefused(w)
           \/ StartupGivesUp(w) \/ Registered(w) \/ RegistrationFails(w) \/ Restored(w)
           \/ RestorationFails(w) \/ ConnectionStep(w) \/ Stop(w) \/ StopResumes(w)
           \/ Unregistered(w)
    PROVE  LifecycleInvariant'
  <1> USE OwnershipConstants, WindowsAssumption
      DEF Running, LifecycleInvariant, LifecycleTypeOK, ChildrenOwned, Unconnected,
          RegisteredConnected, RegisteredOnceUp, isConnected, Enter, Starting, Files,
          ReapedPhases, ClosedPhases
  <1>1. CASE Start(w)
    BY <1>1 DEF Start
  <1>2. CASE Connected(w)
    BY <1>2 DEF Connected, CanConnect, OwnershipTypeOK
  <1>3. CASE FirstConnectFails(w)
    BY <1>3 DEF FirstConnectFails
  <1>4. CASE AutoStartRefused(w)
    BY <1>4 DEF AutoStartRefused
  <1>5. CASE StartupGivesUp(w)
    BY <1>5 DEF StartupGivesUp
  <1>6. CASE Registered(w)
    BY <1>6 DEF Registered
  <1>7. CASE RegistrationFails(w)
    BY <1>7 DEF RegistrationFails
  <1>8. CASE Restored(w)
    BY <1>8 DEF Restored
  <1>9. CASE RestorationFails(w)
    BY <1>9 DEF RestorationFails
  <1>10. CASE ConnectionStep(w)
    BY <1>10 DEF ConnectionStep, ConnectionLost, Reconnected, ReconnectEnds, CanConnect,
        OwnershipTypeOK
  <1>11. CASE Stop(w)
    BY <1>11 DEF Stop
  <1>12. CASE StopResumes(w)
    BY <1>12 DEF StopResumes
  <1>13. CASE Unregistered(w)
    BY <1>13 DEF Unregistered
  <1>14. QED
    BY <1>1, <1>2, <1>3, <1>4, <1>5, <1>6, <1>7, <1>8, <1>9, <1>10, <1>11, <1>12, <1>13

\* A process that ends leaves the windows as they are: ChildrenOwned only asks
\* less, and a process that goes on was alive before.
LEMMA ProcessesLeaveWindows ==
    ASSUME LifecycleInvariant, UNCHANGED lifecycleVars,
           \A w \in Windows : Running(w)' => Running(w)
    PROVE  LifecycleInvariant'
  BY DEF lifecycleVars, LifecycleInvariant, LifecycleTypeOK, ChildrenOwned, Unconnected,
         RegisteredConnected, RegisteredOnceUp

\* No step of a running daemon starts another one.
LEMMA DaemonStepsStartNone ==
    ASSUME OwnershipTypeOK, NEW p \in Daemons, DaemonStep(p) \/ Signal(p) \/ Crash(p),
           NEW w \in Daemons, Running(w)'
    PROVE  Running(w)
  <1>1. CASE Signal(p)
    BY <1>1 DEF Signal, Running
  <1>2. CASE Crash(p)
    BY <1>2 DEF Crash, Goto, Running, OwnershipTypeOK
  <1>3. CASE DaemonStep(p)
    <2>1. Running(p) /\ \E label : Goto(p, label)
      BY <1>3
      DEF DaemonStep, acquireDaemonOwnership, publishOwner, OwnerPublished, readOwner, NextAttempt,
          CheckOwner, RenameStale, AcquisitionFails, StartServer, PublishDiscovery,
          ConfirmDiscovery, WithdrawDiscovery, Shutdown, CloseServer,
          removeOwnedDiscoveryFile, releaseDaemonOwnership, Running, Goto
    <2>2. QED
      BY <2>1 DEF Goto, Running, OwnershipTypeOK
  <1>4. QED
    BY <1>1, <1>2, <1>3

\* The process of a window is a daemon like another.
LEMMA ProcessStep ==
    ASSUME OwnershipInvariant, LifecycleInvariant, ProcessNext
    PROVE  OwnershipInvariant' /\ LifecycleInvariant'
  <1>1. PICK p \in Daemons : \/ p \notin Windows /\ (DaemonCommand(p) \/ Signal(p))
                             \/ DaemonStep(p)
                             \/ Crash(p)
    BY DEF ProcessNext
  <1>2. OwnershipInvariant'
    BY <1>1, DaemonKeepsInvariant
  <1>3. OwnershipTypeOK
    BY DEF OwnershipInvariant
  <1>4. ASSUME NEW w \in Windows, Running(w)'
        PROVE  Running(w)
    <2>1. CASE p \notin Windows /\ DaemonCommand(p)
      BY <2>1, <1>3, <1>4 DEF DaemonCommand, Goto, Running, OwnershipTypeOK
    <2>2. CASE DaemonStep(p) \/ Signal(p) \/ Crash(p)
      BY <2>2, <1>3, <1>4, DaemonStepsStartNone, WindowsAssumption
    <2>3. QED
      BY <1>1, <2>1, <2>2
  <1>5. LifecycleInvariant'
    BY <1>4, ProcessesLeaveWindows DEF ProcessNext
  <1>6. QED
    BY <1>2, <1>5

\* The steps in which a window starts, signals, reaps or kills its child.
LEMMA SpawnStep ==
    ASSUME OwnershipInvariant, LifecycleInvariant, NEW w \in Windows, spawnOwnedDaemon(w)
    PROVE  OwnershipInvariant' /\ LifecycleInvariant'
  <1>1. OwnershipInvariant'
    BY CommandStep, WindowsAssumption DEF spawnOwnedDaemon
  <1>2. LifecycleInvariant'
    BY OwnershipConstants, WindowsAssumption
    DEF spawnOwnedDaemon, DaemonCommand, OwnershipInvariant, OwnershipTypeOK,
        LifecycleInvariant, LifecycleTypeOK, ChildrenOwned, Unconnected,
        RegisteredConnected, RegisteredOnceUp, isConnected, Running, Enter, Goto, Starting,
        Files, ReapedPhases, ClosedPhases
  <1>3. QED
    BY <1>1, <1>2

\* Closing, reaping and the end.
LEMMA CleanupStep ==
    ASSUME OwnershipInvariant, LifecycleInvariant, NEW w \in Windows, Cleanup(w)
    PROVE  OwnershipInvariant' /\ LifecycleInvariant'
  <1>1. ASSUME NEW from \in {"failClose", "stopClose"}, NEW to \in {"failReap", "stopReap"},
               CloseConnection(w, from, to)
        PROVE  OwnershipInvariant' /\ LifecycleInvariant'
    <2>1. signalled' \in SUBSET Daemons
      BY <1>1, WindowsAssumption DEF CloseConnection, OwnershipInvariant, OwnershipTypeOK
    <2>2. OwnershipInvariant'
      BY <1>1, <2>1, SignalStep DEF CloseConnection
    <2>3. LifecycleInvariant'
      BY <1>1, OwnershipConstants, WindowsAssumption
      DEF CloseConnection, LifecycleInvariant, LifecycleTypeOK, ChildrenOwned, Unconnected,
        RegisteredConnected, RegisteredOnceUp, isConnected, Running, Enter, Goto, Starting,
        Files, ReapedPhases, ClosedPhases
    <2>4. QED
      BY <2>2, <2>3
  <1>2. ASSUME NEW from \in {"failReap", "stopReap"}, NEW to \in ReapedPhases,
               DaemonReaped(w, from, to)
        PROVE  OwnershipInvariant' /\ LifecycleInvariant'
    <2>1. OwnershipInvariant'
      BY <1>2, OwnershipStutters DEF DaemonReaped
    <2>2. LifecycleInvariant'
      BY <1>2, OwnershipConstants, WindowsAssumption
      DEF DaemonReaped, ownershipVars, LifecycleInvariant, LifecycleTypeOK, ChildrenOwned,
        Unconnected, RegisteredConnected, RegisteredOnceUp, isConnected, Running, Enter,
        Goto, Starting, Files, ReapedPhases, ClosedPhases
    <2>3. QED
      BY <2>1, <2>2
  <1>3. CASE KillDaemon(w)
    <2>1. crashes' \in 0 .. MaxCrashes
      BY <1>3 DEF KillDaemon, OwnershipInvariant, OwnershipTypeOK
    <2>2. OwnershipInvariant'
      BY <1>3, <2>1, DeathStep, WindowsAssumption DEF KillDaemon
    <2>3. \A x \in Windows : Running(x)' => Running(x)
      BY <1>3, WindowsAssumption
      DEF KillDaemon, Goto, Running, OwnershipInvariant, OwnershipTypeOK
    <2>4. LifecycleInvariant'
      BY <1>3, <2>3, ProcessesLeaveWindows DEF KillDaemon
    <2>5. QED
      BY <2>2, <2>4
  <1>4. QED
    BY <1>1, <1>2, <1>3 DEF Cleanup, ReapedPhases

-----------------------------------------------------------------------------

\* The two inductive invariants hold together in every behaviour of the windows
\* and the daemons.
THEOREM LifecycleInvariantAlways == LifecycleSpec => [](OwnershipInvariant /\ LifecycleInvariant)
  <1>1. ASSUME OwnershipInvariant, LifecycleInvariant, [LifecycleNext]_vars
        PROVE  OwnershipInvariant' /\ LifecycleInvariant'
    <2>1. CASE ProcessNext
      BY <1>1, <2>1, ProcessStep
    <2>2. ASSUME NEW w \in Windows,
                 Start(w) \/ StartStep(w) \/ ConnectionStep(w) \/ Stop(w) \/ StopStep(w)
          PROVE  OwnershipInvariant' /\ LifecycleInvariant'
      <3>1. CASE spawnOwnedDaemon(w)
        BY <1>1, <3>1, SpawnStep
      <3>2. CASE Cleanup(w)
        BY <1>1, <3>2, CleanupStep
      <3>3. CASE \/ Start(w) \/ Connected(w) \/ FirstConnectFails(w) \/ AutoStartRefused(w)
                 \/ StartupGivesUp(w) \/ Registered(w) \/ RegistrationFails(w) \/ Restored(w)
                 \/ RestorationFails(w) \/ ConnectionStep(w) \/ Stop(w) \/ StopResumes(w)
                 \/ Unregistered(w)
        <4>1. UNCHANGED ownershipVars
          BY <3>3
          DEF Start, Connected, FirstConnectFails, AutoStartRefused, StartupGivesUp, Registered,
              RegistrationFails, Restored, RestorationFails, ConnectionStep, ConnectionLost,
              Reconnected, ReconnectEnds, Stop, StopResumes, Unregistered
        <4>2. OwnershipInvariant'
          BY <1>1, <4>1, OwnershipStutters
        <4>3. OwnershipTypeOK /\ UNCHANGED at
          BY <1>1, <4>1 DEF OwnershipInvariant, ownershipVars
        <4>4. LifecycleInvariant'
          BY <1>1, <3>3, <4>3, WindowStep
        <4>5. QED
          BY <4>2, <4>4
      <3>4. QED
        BY <2>2, <3>1, <3>2, <3>3 DEF StartStep, StopStep
    <2>3. CASE UNCHANGED vars
      <3>1. OwnershipInvariant'
        BY <1>1, <2>3, OwnershipStutters DEF vars
      <3>2. LifecycleInvariant'
        BY <1>1, <2>3, ProcessesLeaveWindows DEF vars, ownershipVars, Running
      <3>3. QED
        BY <3>1, <3>2
    <2>4. QED
      BY <1>1, <2>1, <2>2, <2>3 DEF LifecycleNext
  <1>2. QED
    BY <1>1, LifecycleInitially, PTL DEF LifecycleSpec

\* What the daemons guarantee each other holds also when windows spawn, signal
\* and kill some of them.
THEOREM LifecycleOwners == LifecycleSpec => [](OwnersHoldLock /\ CleanExit)
  BY LifecycleInvariantAlways, OwnershipImplies, PTL

\* A stopped window, and one whose start failed, has no connection, no
\* registration and no child process left (stop, #cleanup and stopOwnedProcess).
THEOREM LifecycleLeavesNothing == LifecycleSpec => []NothingLeftBehind
  <1>1. LifecycleInvariant => NothingLeftBehind
    BY OwnershipConstants
    DEF LifecycleInvariant, NothingLeftBehind, ChildrenOwned, Unconnected, RegisteredConnected,
        ClosedPhases, ReapedPhases
  <1>2. QED
    BY <1>1, LifecycleInvariantAlways, PTL

\* A window that is up and connected is registered where it is connected
\* (restoreSession registers before the connection is published).
THEOREM LifecycleRegisters == LifecycleSpec => []ConnectedMeansRegistered
  <1>1. LifecycleInvariant => ConnectedMeansRegistered
    BY DEF LifecycleInvariant, ConnectedMeansRegistered, RegisteredOnceUp, isConnected
  <1>2. QED
    BY <1>1, LifecycleInvariantAlways, PTL

=============================================================================
