--------------------------- MODULE AdapterLifecycle ---------------------------
(***************************************************************************)
(* The VS Code extension's adapter lifecycle                               *)
(* (packages/vscode-extension/src/adapter-lifecycle.ts and                 *)
(* daemon-process.ts) in several windows that share a discovery path: each *)
(* connects, or starts a daemon of its own and waits for whichever daemon  *)
(* wins the lock, registers, and on deactivation takes down everything it  *)
(* started.                                                                *)
(*                                                                         *)
(* The daemon that window w may spawn is the process w of DaemonOwnership; *)
(* the other processes are started from a shell.  The connection is the    *)
(* reconnecting one of ReconnectingConnection, reduced to which daemon it  *)
(* is connected to.                                                        *)
(***************************************************************************)
EXTENDS DaemonOwnership

CONSTANT Windows    \* the windows, named as the daemons they may spawn

ASSUME WindowsAssumption ==
    /\ Windows \subseteq Daemons
    /\ Files \cap {"reconnecting", "closed"} = {}

VARIABLES
    phase,      \* where start() or stop() of each window is suspended
    stopping,   \* windows with #stopping
    conn,       \* #connection: the daemon, or the state it is in without one
    owned,      \* windows with an #ownedDaemon
    registered  \* windows registered with the daemon they are connected to

lifecycleVars == <<phase, stopping, conn, owned, registered>>
vars == <<ownershipVars, lifecycleVars>>

\* start() has not settled.
Starting == {"connect", "allow", "retry", "register", "restore", "failClose", "failReap"}

LifecycleTypeOK ==
    /\ phase \in [Windows -> Starting \cup {"idle", "started", "failed", "unregister",
                                            "stopClose", "stopReap", "stopped"}]
    /\ stopping \in SUBSET Windows
    /\ conn \in [Windows -> Files \cup {"reconnecting", "closed"}]
    /\ owned \in SUBSET Windows
    /\ registered \in SUBSET Windows

LifecycleInit ==
    /\ OwnershipInit
    /\ phase = [w \in Windows |-> "idle"]
    /\ stopping = {} /\ owned = {} /\ registered = {}
    /\ conn = [w \in Windows |-> NoProc]

\* Handshake with the daemon that the discovery file names.
CanConnect == discovery # NoProc /\ Listening(discovery)

isConnected(w) == conn[w] \in Daemons

Enter(w, label) == phase' = [phase EXCEPT ![w] = label]

-----------------------------------------------------------------------------
(* start().                                                                *)

Start(w) ==
    /\ phase[w] = "idle"
    /\ Enter(w, "connect")
    /\ UNCHANGED <<ownershipVars, stopping, conn, owned, registered>>

\* #connect succeeded: the connection is kept and registration begins, or it is
\* closed again because stop() was called meanwhile.
Connected(w) ==
    /\ phase[w] \in {"connect", "retry"}
    /\ CanConnect
    /\ \/ /\ w \in stopping
          /\ Enter(w, "started")
          /\ conn' = conn
       \/ /\ w \notin stopping
          /\ Enter(w, "register")
          /\ conn' = [conn EXCEPT ![w] = discovery]
    /\ UNCHANGED <<ownershipVars, stopping, owned, registered>>

FirstConnectFails(w) ==
    /\ phase[w] = "connect"
    /\ Enter(w, "allow")
    /\ UNCHANGED <<ownershipVars, stopping, conn, owned, registered>>

\* The configuration and #assertAutoStartAllowed.
AutoStartRefused(w) ==
    /\ phase[w] = "allow"
    /\ Enter(w, "failClose")
    /\ UNCHANGED <<ownershipVars, stopping, conn, owned, registered>>

spawnOwnedDaemon(w) ==
    /\ phase[w] = "allow"
    /\ DaemonCommand(w)
    /\ owned' = owned \cup {w}
    /\ Enter(w, "retry")
    /\ UNCHANGED <<stopping, conn, registered>>

\* The retry loop ends at its deadline, or once stop() was called.
StartupGivesUp(w) ==
    /\ phase[w] = "retry"
    /\ Enter(w, "failClose")
    /\ UNCHANGED <<ownershipVars, stopping, conn, owned, registered>>

Registered(w) ==
    /\ phase[w] = "register" /\ isConnected(w)
    /\ registered' = registered \cup {w}
    /\ Enter(w, "started")
    /\ UNCHANGED <<ownershipVars, stopping, conn, owned>>

\* The request failed: fatal while connected, else the restoration is awaited.
RegistrationFails(w) ==
    /\ phase[w] = "register"
    /\ Enter(w, IF isConnected(w) THEN "failClose" ELSE "restore")
    /\ UNCHANGED <<ownershipVars, stopping, conn, owned, registered>>

\* #waitForRestoredConnection.
Restored(w) ==
    /\ phase[w] = "restore" /\ isConnected(w)
    /\ Enter(w, "started")
    /\ UNCHANGED <<ownershipVars, stopping, conn, owned, registered>>

\* The connection closed for good, or five seconds passed.
RestorationFails(w) ==
    /\ phase[w] = "restore"
    /\ Enter(w, "failClose")
    /\ UNCHANGED <<ownershipVars, stopping, conn, owned, registered>>

-----------------------------------------------------------------------------
(* The reconnecting connection and restoreSession.                         *)

\* The daemon stopped listening or the socket broke.
ConnectionLost(w) ==
    /\ isConnected(w)
    /\ conn' = [conn EXCEPT ![w] = "reconnecting"]
    /\ registered' = registered \ {w}
    /\ UNCHANGED <<ownershipVars, phase, stopping, owned>>

\* Mistake: the restored connection is published without a registration.
ReconnectedBare(w) ==
    /\ conn[w] = "reconnecting" /\ CanConnect
    /\ conn' = [conn EXCEPT ![w] = discovery]
    /\ UNCHANGED <<ownershipVars, phase, stopping, owned, registered>>

\* restoreSession registers on the candidate connection before it is published;
\* while stopping it does not register.
Reconnected(w) ==
    /\ conn[w] = "reconnecting" /\ CanConnect
    /\ conn' = [conn EXCEPT ![w] = discovery]
    /\ registered' = IF w \in stopping THEN registered ELSE registered \cup {w}
    /\ UNCHANGED <<ownershipVars, phase, stopping, owned>>

\* A restoration failure that is not retried.
ReconnectEnds(w) ==
    /\ conn[w] = "reconnecting"
    /\ conn' = [conn EXCEPT ![w] = "closed"]
    /\ UNCHANGED <<ownershipVars, phase, stopping, owned, registered>>

-----------------------------------------------------------------------------
(* stop() and #cleanup.                                                    *)

Stop(w) ==
    /\ phase[w] # "idle" /\ w \notin stopping
    /\ stopping' = stopping \cup {w}
    /\ UNCHANGED <<ownershipVars, phase, conn, owned, registered>>

\* Mistake: a start that failed rejects the await of stop().
StopResumesStarted(w) ==
    /\ w \in stopping /\ phase[w] = "started"
    /\ Enter(w, IF isConnected(w) THEN "unregister" ELSE "stopClose")
    /\ UNCHANGED <<ownershipVars, stopping, conn, owned, registered>>

\* #stopInternal resumes when start() has settled.
StopResumes(w) ==
    /\ w \in stopping /\ phase[w] \in {"started", "failed"}
    /\ Enter(w, IF isConnected(w) THEN "unregister" ELSE "stopClose")
    /\ UNCHANGED <<ownershipVars, stopping, conn, owned, registered>>

\* ide/unregister answered, refused or timed out.
Unregistered(w) ==
    /\ phase[w] = "unregister"
    /\ registered' = registered \ {w}
    /\ Enter(w, "stopClose")
    /\ UNCHANGED <<ownershipVars, stopping, conn, owned>>

\* The listeners and the connection go; then an owned daemon that still runs
\* gets SIGTERM.
CloseConnection(w, from, to) ==
    /\ phase[w] = from
    /\ Enter(w, to)
    /\ conn' = [conn EXCEPT ![w] = NoProc]
    /\ registered' = registered \ {w}
    /\ signalled' = IF w \in owned /\ Running(w)
                    THEN signalled \cup {w} ELSE signalled
    /\ UNCHANGED <<lock, discovery, at, attempt, seen, wrote, crashes, robbed, stopping, owned>>

\* Mistake: SIGTERM is sent and the exit not awaited.
DaemonAbandoned(w, from, to) ==
    /\ phase[w] = from
    /\ owned' = owned \ {w}
    /\ Enter(w, to)
    /\ UNCHANGED <<ownershipVars, stopping, conn, registered>>

\* stopOwnedProcess awaits the exit of the child.
DaemonReaped(w, from, to) ==
    /\ phase[w] = from
    /\ w \in owned => ~Running(w)
    /\ owned' = owned \ {w}
    /\ Enter(w, to)
    /\ UNCHANGED <<ownershipVars, stopping, conn, registered>>

\* After three seconds the child is killed; a child that has not installed its
\* handlers dies of the SIGTERM.  Its files stay.
KillDaemon(w) ==
    /\ phase[w] \in {"failReap", "stopReap"} /\ w \in owned /\ Running(w)
    /\ Goto(w, "dead")
    /\ UNCHANGED <<lock, discovery, attempt, seen, wrote, signalled, crashes, robbed,
                   lifecycleVars>>

Cleanup(w) ==
    \/ CloseConnection(w, "failClose", "failReap")
    \/ DaemonReaped(w, "failReap", "failed")
    \/ CloseConnection(w, "stopClose", "stopReap")
    \/ DaemonReaped(w, "stopReap", "stopped")
    \/ KillDaemon(w)

-----------------------------------------------------------------------------

ConnectionStep(w) == ConnectionLost(w) \/ Reconnected(w) \/ ReconnectEnds(w)

StartStep(w) ==
    \/ Connected(w) \/ FirstConnectFails(w)
    \/ AutoStartRefused(w) \/ spawnOwnedDaemon(w) \/ StartupGivesUp(w)
    \/ Registered(w) \/ RegistrationFails(w)
    \/ Restored(w) \/ RestorationFails(w)

StopStep(w) == StopResumes(w) \/ Unregistered(w) \/ Cleanup(w)

ProcessNext ==
    /\ \E p \in Daemons :
        \/ p \notin Windows /\ (DaemonCommand(p) \/ Signal(p))
        \/ DaemonStep(p)
        \/ Crash(p)
    /\ UNCHANGED lifecycleVars

LifecycleNext ==
    \/ ProcessNext
    \/ \E w \in Windows :
        Start(w) \/ StartStep(w) \/ ConnectionStep(w) \/ Stop(w) \/ StopStep(w)

LifecycleSpec == LifecycleInit /\ [][LifecycleNext]_vars

\* Node resumes the awaits of start and stop: each is bounded by a timer (the
\* handshake, the startup deadline, the request timeouts, the grace of a child).
\* Nothing is assumed of the daemons: KillDaemon ends one that does not stop.
LifecycleFairness ==
    \A w \in Windows : WF_vars(StartStep(w)) /\ WF_vars(StopStep(w))

FairLifecycleSpec == LifecycleSpec /\ LifecycleFairness

-----------------------------------------------------------------------------
(* Properties.                                                             *)

\* A lifecycle that has stopped, and one whose start failed, leaves nothing
\* running: no connection, no registration and no daemon child, whatever
\* stop() met start() doing (connecting, spawning, registering, restoring).
NothingLeftBehind ==
    \A w \in Windows : phase[w] \in {"failed", "stopped"} =>
        /\ conn[w] = NoProc /\ w \notin registered
        /\ w \notin owned /\ ~Running(w)

\* A window that is up and connected is registered with the daemon it is
\* connected to, also after its daemon was replaced by another window's.
ConnectedMeansRegistered ==
    \A w \in Windows : phase[w] = "started" /\ w \notin stopping /\ isConnected(w)
        => w \in registered

\* activate() settles and deactivate() returns: start() never hangs on a daemon that
\* does not come up, a lost race for the lock or a connection that keeps breaking,
\* and stop() completes from every state it meets.
StartAndStopSettle ==
    \A w \in Windows : /\ (phase[w] = "connect") ~> (phase[w] \notin Starting)
                       /\ (w \in stopping) ~> (phase[w] = "stopped")

=============================================================================
