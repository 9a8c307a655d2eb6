--------------------------- MODULE DaemonOwnership ----------------------------
(***************************************************************************)
(* Daemon processes that compete for one discovery path: the ownership     *)
(* file of packages/cli/src/ownership.ts, the daemon command of            *)
(* daemon-command.ts and the discovery file of                             *)
(* packages/bridge-daemon/src/discovery/discovery-file.ts.                 *)
(*                                                                         *)
(* A process is started once; a restart is another member of Daemons.  A   *)
(* file is the process that wrote it: a lock holds pid and startedAt, the  *)
(* discovery file also the endpoint and the token, and each of them names  *)
(* one process.  Every await on the file system is a step, so that the     *)
(* processes interleave between any two of them.                           *)
(***************************************************************************)
EXTENDS Naturals, FiniteSets

CONSTANTS
    Daemons,                    \* daemon processes
    MAX_ACQUISITION_ATTEMPTS,   \* 8 in the code
    MaxCrashes,                 \* bound on processes that die without cleaning up
    NoProc                      \* an absent file

ASSUME OwnershipConstants ==
    /\ MAX_ACQUISITION_ATTEMPTS \in Nat \ {0}
    /\ MaxCrashes \in Nat
    /\ NoProc \notin Daemons

VARIABLES
    lock,       \* `${discoveryFile}.lock`
    discovery,  \* the discovery file
    at,         \* the await each process is suspended at
    attempt,    \* acquireDaemonOwnership's loop counter
    seen,       \* the owner that readOwner returned
    wrote,      \* processes whose `discovery` variable is set
    signalled,  \* processes that received SIGINT or SIGTERM
    crashes,    \* processes that died so far
    robbed      \* history: owners whose lock was removed for another's

ownershipVars == <<lock, discovery, at, attempt, seen, wrote, signalled, crashes, robbed>>

Files == Daemons \cup {NoProc}

Acquiring == {"link", "chmod", "read", "check", "rename"}

\* acquireDaemonOwnership returned and the lock is not yet given back.
Owning == {"start", "publish", "confirm", "withdraw", "serving", "close", "matchDiscovery",
           "unlinkDiscovery", "matchLock", "unlinkLock"}

OwnershipTypeOK ==
    /\ lock \in Files /\ discovery \in Files
    /\ at \in [Daemons -> {"off", "exited", "dead"} \cup Acquiring \cup Owning]
    /\ attempt \in [Daemons -> 0 .. MAX_ACQUISITION_ATTEMPTS]
    /\ seen \in [Daemons -> Files]
    /\ wrote \in SUBSET Daemons /\ signalled \in SUBSET Daemons
    /\ crashes \in 0 .. MaxCrashes
    /\ robbed \in SUBSET Daemons

OwnershipInit ==
    /\ lock = NoProc /\ discovery = NoProc
    /\ at = [p \in Daemons |-> "off"]
    /\ attempt = [p \in Daemons |-> 0]
    /\ seen = [p \in Daemons |-> NoProc]
    /\ wrote = {} /\ signalled = {}
    /\ crashes = 0
    /\ robbed = {}

\* The process exists.
Running(p) == at[p] \notin {"off", "exited", "dead"}

\* The server accepts connections.
Listening(p) == at[p] \in {"publish", "confirm", "withdraw", "serving"}

Goto(p, label) == at' = [at EXCEPT ![p] = label]

-----------------------------------------------------------------------------
(* acquireDaemonOwnership.                                                 *)

\* The command installs the signal handlers and makes its first attempt.
DaemonCommand(p) ==
    /\ at[p] = "off"
    /\ Goto(p, "link")
    /\ UNCHANGED <<lock, discovery, attempt, seen, wrote, signalled, crashes, robbed>>

\* link() publishes the complete file, or fails with EEXIST.
publishOwner(p) ==
    /\ at[p] = "link"
    /\ IF lock = NoProc
       THEN lock' = p /\ Goto(p, "chmod")
       ELSE lock' = lock /\ Goto(p, "read")
    /\ UNCHANGED <<discovery, attempt, seen, wrote, signalled, crashes, robbed>>

\* chmod() of the published lock fails with ENOENT when a competitor has renamed
\* it away: the error is not EEXIST, and the command ends without ownership.
OwnerPublished(p) ==
    /\ at[p] = "chmod"
    /\ Goto(p, IF lock = NoProc THEN "exited" ELSE "start")
    /\ UNCHANGED <<lock, discovery, attempt, seen, wrote, signalled, crashes, robbed>>

\* The next turn of the loop, or "already-running" after the last.
NextAttempt(p) ==
    /\ attempt' = [attempt EXCEPT ![p] = @ + 1]
    /\ Goto(p, IF attempt[p] + 1 = MAX_ACQUISITION_ATTEMPTS THEN "exited" ELSE "link")

readOwner(p) ==
    /\ at[p] = "read"
    /\ \/ /\ lock = NoProc
          /\ NextAttempt(p)
          /\ seen' = seen
       \/ /\ lock # NoProc
          /\ seen' = [seen EXCEPT ![p] = lock]
          /\ Goto(p, "check")
          /\ attempt' = attempt
    /\ UNCHANGED <<lock, discovery, wrote, signalled, crashes, robbed>>

\* Mistake: whoever is read as owner is taken for a stale one.
CheckOwnerStale(p) ==
    /\ at[p] = "check"
    /\ Goto(p, "rename")
    /\ UNCHANGED <<lock, discovery, attempt, seen, wrote, signalled, crashes, robbed>>

\* A live owner: "already-running".  process.kill(pid, 0) also succeeds for another
\* process that has got the pid of a dead owner.
CheckOwner(p) ==
    /\ at[p] = "check"
    /\ \/ Goto(p, "exited")
       \/ ~Running(seen[p]) /\ Goto(p, "rename")
    /\ UNCHANGED <<lock, discovery, attempt, seen, wrote, signalled, crashes, robbed>>

\* rename() takes whatever lock is there now, which need not be the one that was
\* read; the renamed file is unlinked.  ENOENT is ignored.
RenameStale(p) ==
    /\ at[p] = "rename"
    /\ lock' = NoProc
    /\ robbed' = robbed \cup ({lock} \ {NoProc, seen[p]})
    /\ NextAttempt(p)
    /\ UNCHANGED <<discovery, seen, wrote, signalled, crashes>>

\* Any other error of the file system, and a lock that readOwner refuses.
AcquisitionFails(p) ==
    /\ at[p] \in {"link", "read", "rename"}
    /\ Goto(p, "exited")
    /\ UNCHANGED <<lock, discovery, attempt, seen, wrote, signalled, crashes, robbed>>

acquireDaemonOwnership(p) ==
    \/ publishOwner(p)
    \/ OwnerPublished(p)
    \/ readOwner(p)
    \/ CheckOwner(p)
    \/ RenameStale(p)
    \/ AcquisitionFails(p)

-----------------------------------------------------------------------------
(* runDaemonCommand once it owns the path.                                 *)

StartServer(p, ok) ==
    /\ at[p] = "start"
    /\ Goto(p, IF ok THEN "publish" ELSE "close")
    /\ UNCHANGED <<lock, discovery, attempt, seen, wrote, signalled, crashes, robbed>>

\* writePrivateDiscoveryFile: the temporary file is renamed over the path.
PublishDiscovery(p, ok) ==
    /\ at[p] = "publish"
    /\ discovery' = IF ok THEN p ELSE discovery
    /\ Goto(p, IF ok THEN "confirm" ELSE "close")
    /\ UNCHANGED <<lock, attempt, seen, wrote, signalled, crashes, robbed>>

\* chmod() and stat() of the published file fail when it was removed or is not
\* private.  Once it is confirmed, a dashboard that does not start ends the command.
ConfirmDiscovery(p, ok) ==
    /\ at[p] = "confirm"
    /\ \/ /\ ~ok \/ discovery = NoProc
          /\ Goto(p, "withdraw")
          /\ wrote' = wrote
       \/ /\ discovery # NoProc
          /\ Goto(p, IF ok THEN "serving" ELSE "close")
          /\ wrote' = wrote \cup {p}
    /\ UNCHANGED <<lock, discovery, attempt, seen, signalled, crashes, robbed>>

\* The failed write unlinks the path, which another daemon may have taken since; the
\* command goes on to clean up without a discovery file of its own.
WithdrawDiscovery(p) ==
    /\ at[p] = "withdraw"
    /\ discovery' = NoProc
    /\ Goto(p, "close")
    /\ UNCHANGED <<lock, attempt, seen, wrote, signalled, crashes, robbed>>

\* createShutdownSignal: a signal is remembered, and awaited only once the
\* daemon is ready.
Signal(p) ==
    /\ Running(p) /\ p \notin signalled
    /\ signalled' = signalled \cup {p}
    /\ UNCHANGED <<lock, discovery, at, attempt, seen, wrote, crashes, robbed>>

\* The shutdown signal resolved.
Shutdown(p) ==
    /\ at[p] = "serving" /\ p \in signalled
    /\ Goto(p, "close")
    /\ UNCHANGED <<lock, discovery, attempt, seen, wrote, signalled, crashes, robbed>>

\* Mistake: the discovery file is left for the next daemon to replace.
CloseServerOnly(p) ==
    /\ at[p] = "close"
    /\ Goto(p, "matchLock")
    /\ UNCHANGED <<lock, discovery, attempt, seen, wrote, signalled, crashes, robbed>>

CloseServer(p) ==
    /\ at[p] = "close"
    /\ Goto(p, IF p \in wrote THEN "matchDiscovery" ELSE "matchLock")
    /\ UNCHANGED <<lock, discovery, attempt, seen, wrote, signalled, crashes, robbed>>

\* removeOwnedDiscoveryFile reads, compares, and unlinks in another step.
removeOwnedDiscoveryFile(p) ==
    \/ /\ at[p] = "matchDiscovery"
       /\ Goto(p, IF discovery = p THEN "unlinkDiscovery" ELSE "matchLock")
       /\ UNCHANGED <<lock, discovery, attempt, seen, wrote, signalled, crashes, robbed>>
    \/ /\ at[p] = "unlinkDiscovery"
       /\ discovery' = NoProc
       /\ Goto(p, "matchLock")
       /\ UNCHANGED <<lock, attempt, seen, wrote, signalled, crashes, robbed>>

releaseDaemonOwnership(p) ==
    \/ /\ at[p] = "matchLock"
       /\ Goto(p, IF lock = p THEN "unlinkLock" ELSE "exited")
       /\ UNCHANGED <<lock, discovery, attempt, seen, wrote, signalled, crashes, robbed>>
    \/ /\ at[p] = "unlinkLock"
       /\ lock' = NoProc
       /\ robbed' = robbed \cup ({lock} \ {NoProc, p})
       /\ Goto(p, "exited")
       /\ UNCHANGED <<discovery, attempt, seen, wrote, signalled, crashes>>

\* The process dies where it stands and its files stay.
Crash(p) ==
    /\ Running(p) /\ crashes < MaxCrashes
    /\ crashes' = crashes + 1
    /\ Goto(p, "dead")
    /\ UNCHANGED <<lock, discovery, attempt, seen, wrote, signalled, robbed>>

\* What Node resumes by itself.
DaemonStep(p) ==
    \/ acquireDaemonOwnership(p)
    \/ \E ok \in BOOLEAN :
        StartServer(p, ok) \/ PublishDiscovery(p, ok) \/ ConfirmDiscovery(p, ok)
    \/ WithdrawDiscovery(p)
    \/ Shutdown(p)
    \/ CloseServer(p)
    \/ removeOwnedDiscoveryFile(p)
    \/ releaseDaemonOwnership(p)

OwnershipNext ==
    \E p \in Daemons : DaemonCommand(p) \/ DaemonStep(p) \/ Signal(p) \/ Crash(p)

OwnershipSpec == OwnershipInit /\ [][OwnershipNext]_ownershipVars

-----------------------------------------------------------------------------
(* Properties.                                                             *)

Owners == {p \in Daemons : at[p] \in Owning}

\* ADR-0012: "If a valid owner is dead, its lock is atomically renamed away before
\* retrying acquisition, so concurrent stale recovery still has one winner": of the
\* daemons that found the lock of a daemon that died, at most one owns the path.
OneWinner ==
    \A gone \in Daemons : at[gone] = "dead" => Cardinality({p \in Owners : seen[p] = gone}) <= 1

\* An owner has the lock to itself through every start, refusal, crash, recovery
\* and shutdown of the others, with one exception: a competitor that had checked
\* another, dead owner takes the lock of this one.  So the owners whose lock was
\* not taken in this way are one at most.
OwnersHoldLock == \A p \in Owners \ robbed : lock = p

\* A command that ended by itself, refused, failed or stopped by a signal, leaves
\* neither its lock nor its discovery file behind, whatever its competitors did, as
\* long as the file system lets it clean up.  A process that died does, and the next
\* start takes those over.
CleanExit == \A p \in Daemons : at[p] = "exited" => lock # p /\ discovery # p

=============================================================================
