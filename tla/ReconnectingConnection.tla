----------------------- MODULE ReconnectingConnection ------------------------
(***************************************************************************)
(* The client's reconnecting facade (packages/bridge-client/src/connection/ *)
(* reconnecting-connection.ts) over the sockets it opens one after another. *)
(*                                                                         *)
(* The asynchronous loop #reconnect is `loop', the await it stands at:     *)
(*    "idle"         no loop: a connection is current, monitored           *)
(*    "delay"        #waitForRetry                                         *)
(*    "connect"      connectBridgeClientFromDiscoveryFile                  *)
(*    "connected"    that promise is resolved, the loop not resumed yet    *)
(*    "restore"      #restore, the restorer running                        *)
(*    "restored"     #restore is resolved, the loop not resumed yet        *)
(*    "interrupted"  #restore timed out or aborted: its connection closes  *)
(*                   and the restorer is waited for                        *)
(*    "abandon"      the catch block's connection.close()                  *)
(*    "stop"         the connection.close() before a return                *)
(*    "stopped"      returned without a connection                         *)
(* `trial' is its local variable connection.                               *)
(*                                                                         *)
(* A socket the peer closes is "closing" until its close event, which      *)
(* resolves connection.closed.  Requests, whose engine is another module,  *)
(* state listeners and the jitter of the delay are left out.               *)
(***************************************************************************)
EXTENDS Naturals, FiniteSets

CONSTANTS
    Methods,        \* methods and notifications handlers are registered for
    MaxConns,       \* bound on the connections made, unbounded in the code
    InitialDelay,   \* reconnectInitialDelayMs, in units of the model
    MaxDelay,       \* reconnectMaxDelayMs
    Multiplier      \* reconnectBackoffMultiplier

ASSUME ReconnectConstants ==
    /\ MaxConns \in Nat \ {0}
    /\ InitialDelay \in Nat \ {0}
    /\ MaxDelay \in Nat /\ InitialDelay <= MaxDelay
    /\ Multiplier \in Nat \ {0}

VARIABLES
    socket,         \* connection -> "none", "open", "closing" or "closed"
    current,        \* #current, 0 when undefined
    candidate,      \* #candidate
    generation,     \* #generation
    monitors,       \* suspended #monitor calls: <<connection, generation>>
    status,         \* #state.status
    isClosed,       \* #isClosed
    loop,           \* where #reconnect is suspended
    trial,          \* its connection
    baseDelay,      \* its baseDelayMs
    registered,     \* methods of #requestHandlers and #notificationHandlers
    attached,       \* method -> connections in its registration's disposers
    closing,        \* connections close() waits for
    closedResolved  \* the promise `closed' is resolved

loopVars == <<loop, trial, baseDelay>>
handlerVars == <<registered, attached>>
closeVars == <<isClosed, closing, closedResolved>>
vars == <<socket, current, candidate, generation, monitors, status, loopVars,
          handlerVars, closeVars>>

Conns == 1 .. MaxConns

Loops == {"idle", "delay", "connect", "connected", "restore", "restored",
          "interrupted", "abandon", "stop", "stopped"}

ReconnectTypeOK ==
    /\ socket \in [Conns -> {"none", "open", "closing", "closed"}]
    /\ current \in 0 .. MaxConns
    /\ candidate \in 0 .. MaxConns
    /\ generation \in Conns
    /\ monitors \subseteq Conns \X Conns
    /\ status \in {"connected", "reconnecting", "closed"}
    /\ isClosed \in BOOLEAN
    /\ loop \in Loops
    /\ trial \in 0 .. MaxConns
    /\ baseDelay \in InitialDelay .. MaxDelay
    /\ registered \subseteq Methods
    /\ attached \in [Methods -> SUBSET Conns]
    /\ closing \subseteq Conns
    /\ closedResolved \in BOOLEAN

\* The constructor, given the initial connection.
ReconnectInit ==
    /\ socket = [c \in Conns |-> IF c = 1 THEN "open" ELSE "none"]
    /\ current = 1
    /\ candidate = 0
    /\ generation = 1
    /\ monitors = {<<1, 1>>}
    /\ status = "connected"
    /\ isClosed = FALSE
    /\ loop = "idle"
    /\ trial = 0
    /\ baseDelay = InitialDelay
    /\ registered = {}
    /\ attached = [m \in Methods |-> {}]
    /\ closing = {}
    /\ closedResolved = FALSE

-----------------------------------------------------------------------------
(* Sockets and handlers.                                                   *)

\* connection.close() on each of cs, up to its wait for the close event.
CloseSockets(cs) ==
    socket' = [c \in Conns |-> IF c \in cs /\ socket[c] = "open" THEN "closing" ELSE socket[c]]

\* #detachConnection
Detach(cs) == attached' = [m \in Methods |-> attached[m] \ cs]

\* #attachConnection
Attach(c) == attached' = [m \in Methods |->
                            IF m \in registered THEN attached[m] \cup {c} ELSE attached[m]]

\* The daemon closes the connection, its process dies or the network fails.
ConnectionLost(c) ==
    /\ socket[c] = "open"
    /\ CloseSockets({c})
    /\ UNCHANGED <<current, candidate, generation, monitors, status, loopVars, handlerVars, closeVars>>

\* The close event.
SocketClosed(c) ==
    /\ socket[c] = "closing"
    /\ socket' = [socket EXCEPT ![c] = "closed"]
    /\ UNCHANGED <<current, candidate, generation, monitors, status, loopVars, handlerVars, closeVars>>

\* Mistake: a handler registered while a candidate is restored misses it.
OnRequestCurrentOnly(m) ==
    /\ m \notin registered
    /\ registered' = registered \cup {m}
    /\ attached' = [attached EXCEPT ![m] = {current} \ {0}]
    /\ UNCHANGED <<socket, current, candidate, generation, monitors, status, loopVars, closeVars>>

\* onRequest, onNotification
OnRequest(m) ==
    /\ m \notin registered
    /\ registered' = registered \cup {m}
    /\ attached' = [attached EXCEPT ![m] = {current, candidate} \ {0}]
    /\ UNCHANGED <<socket, current, candidate, generation, monitors, status, loopVars, closeVars>>

\* The function they return.
Dispose(m) ==
    /\ m \in registered
    /\ registered' = registered \ {m}
    /\ attached' = [attached EXCEPT ![m] = {}]
    /\ UNCHANGED <<socket, current, candidate, generation, monitors, status, loopVars, closeVars>>

-----------------------------------------------------------------------------
(* The loop.                                                               *)

\* #monitor resumes: the loop starts if the lost connection is still current.
Monitor(c, g) ==
    /\ <<c, g>> \in monitors
    /\ socket[c] = "closed"
    /\ monitors' = monitors \ {<<c, g>>}
    /\ IF isClosed \/ current # c \/ generation # g
       THEN UNCHANGED <<current, status, loopVars, attached>>
       ELSE /\ Detach({c})
            /\ current' = 0
            /\ loop' = "delay"
            /\ trial' = 0
            /\ baseDelay' = InitialDelay
            /\ status' = "reconnecting"
    /\ UNCHANGED <<socket, candidate, generation, registered, closeVars>>

NextDelay == IF baseDelay * Multiplier < MaxDelay THEN baseDelay * Multiplier ELSE MaxDelay

\* The end of an attempt: `if (this.#shouldStop()) return', or once more round
\* the loop.
RetryOrReturn ==
    /\ trial' = 0
    /\ \/ isClosed /\ loop' = "stopped" /\ UNCHANGED <<baseDelay, status>>
       \/ /\ ~isClosed
          /\ loop' = "delay"
          /\ baseDelay' = NextDelay
          /\ status' = "reconnecting"

RetryDelayOver ==
    /\ loop = "delay"
    /\ loop' = "connect"
    /\ UNCHANGED <<socket, current, candidate, generation, monitors, status, trial, baseDelay,
                   handlerVars, closeVars>>

\* Reading the discovery file, connecting or the handshake fails, or the
\* lifecycle's signal aborts them.
ConnectFails ==
    /\ loop = "connect"
    /\ RetryOrReturn
    /\ UNCHANGED <<socket, current, candidate, generation, monitors, handlerVars, closeVars>>

ConnectSucceeds(c) ==
    /\ loop = "connect"
    /\ ~isClosed
    /\ socket[c] = "none" /\ \A d \in 1 .. (c - 1) : socket[d] # "none"
    /\ socket' = [socket EXCEPT ![c] = "open"]
    /\ trial' = c
    /\ loop' = "connected"
    /\ UNCHANGED <<current, candidate, generation, monitors, status, baseDelay, handlerVars, closeVars>>

\* Mistake: the connection made after close() is forgotten, not closed.
AfterConnectKeepsOpen ==
    /\ loop = "connected"
    /\ \/ /\ isClosed
          /\ loop' = "stopped"
          /\ UNCHANGED <<socket, candidate, attached>>
       \/ /\ ~isClosed
          /\ candidate' = trial
          /\ Attach(trial)
          /\ loop' = "restore"
          /\ UNCHANGED socket
    /\ UNCHANGED <<current, generation, monitors, status, trial, baseDelay, registered, closeVars>>

\* The loop resumes with a connection: handlers first, then the restorer.
AfterConnect ==
    /\ loop = "connected"
    /\ \/ /\ isClosed
          /\ CloseSockets({trial})
          /\ loop' = "stop"
          /\ UNCHANGED <<candidate, attached>>
       \/ /\ ~isClosed
          /\ candidate' = trial
          /\ Attach(trial)
          /\ loop' = "restore"
          /\ UNCHANGED socket
    /\ UNCHANGED <<current, generation, monitors, status, trial, baseDelay, registered, closeVars>>

\* The restorer is done (or there is none).
RestoreSucceeds ==
    /\ loop = "restore"
    /\ loop' = "restored"
    /\ UNCHANGED <<socket, current, candidate, generation, monitors, status, trial, baseDelay,
                   handlerVars, closeVars>>

\* The catch block, up to its await.
Abandon ==
    /\ Detach({trial})
    /\ candidate' = IF candidate = trial THEN 0 ELSE candidate
    /\ CloseSockets({trial})
    /\ loop' = "abandon"
    /\ UNCHANGED <<current, generation, monitors, status, trial, baseDelay, registered, closeVars>>

RestoreFails == loop = "restore" /\ Abandon

RestoreTimesOut ==
    /\ loop = "restore"
    /\ CloseSockets({trial})
    /\ loop' = "interrupted"
    /\ UNCHANGED <<current, candidate, generation, monitors, status, trial, baseDelay,
                   handlerVars, closeVars>>

\* The interrupted restorer settles at last; it may never do so.
InterruptedSettles == loop = "interrupted" /\ socket[trial] = "closed" /\ Abandon

\* Mistake: the next attempt does not wait for the close of the last one.
AbandonedEarly ==
    /\ loop = "abandon"
    /\ RetryOrReturn
    /\ UNCHANGED <<socket, current, candidate, generation, monitors, handlerVars, closeVars>>

Abandoned ==
    /\ loop = "abandon"
    /\ socket[trial] = "closed"
    /\ RetryOrReturn
    /\ UNCHANGED <<socket, current, candidate, generation, monitors, handlerVars, closeVars>>

\* The candidate becomes current and is monitored in generation g.
Promote(g) ==
    /\ candidate' = 0
    /\ current' = trial
    /\ generation' = generation + 1
    /\ monitors' = monitors \cup {<<trial, g>>}
    /\ status' = "connected"
    /\ loop' = "idle"
    /\ trial' = 0
    /\ UNCHANGED <<socket, baseDelay, handlerVars, closeVars>>

\* Mistake: nobody looks whether close() was called meanwhile.
AfterRestoreUnchecked == loop = "restored" /\ Promote(generation + 1)

\* Mistake: the monitor is started with the generation before the increment.
AfterRestoreOldGeneration ==
    /\ loop = "restored"
    /\ ~isClosed /\ socket[trial] = "open"
    /\ Promote(generation)

\* The loop resumes with a restored session.  A connection lost meanwhile makes
\* #shouldStop true, as close() does, and the loop returns.
AfterRestore ==
    /\ loop = "restored"
    /\ \/ /\ isClosed \/ socket[trial] # "open"
          /\ CloseSockets({trial})
          /\ loop' = "stop"
          /\ UNCHANGED <<current, candidate, generation, monitors, status, trial, baseDelay,
                         handlerVars, closeVars>>
       \/ ~isClosed /\ socket[trial] = "open" /\ Promote(generation + 1)

StopCompletes ==
    /\ loop = "stop"
    /\ socket[trial] = "closed"
    /\ loop' = "stopped"
    /\ trial' = 0
    /\ UNCHANGED <<socket, current, candidate, generation, monitors, status, baseDelay,
                   handlerVars, closeVars>>

-----------------------------------------------------------------------------
(* close()                                                                 *)

\* Up to its wait.  The lifecycle's signal ends a retry delay at once and
\* interrupts a restorer; a connection attempt ends in ConnectFails.
Close ==
    LET connections == {current, candidate} \ {0}
    IN  /\ ~isClosed
        /\ isClosed' = TRUE
        /\ status' = "closed"
        /\ current' = 0
        /\ candidate' = 0
        /\ Detach(connections)
        /\ CloseSockets(connections)
        /\ closing' = connections
        /\ loop' = CASE loop = "delay" -> "stopped"
                     [] loop = "restore" -> "interrupted"
                     [] OTHER -> loop
        /\ UNCHANGED <<generation, monitors, trial, baseDelay, registered, closedResolved>>

CloseCompletes ==
    /\ isClosed
    /\ ~closedResolved
    /\ \A c \in closing : socket[c] = "closed"
    /\ closedResolved' = TRUE
    /\ UNCHANGED <<socket, current, candidate, generation, monitors, status, loopVars, handlerVars,
                   isClosed, closing>>

-----------------------------------------------------------------------------

ReconnectNext ==
    \/ \E c \in Conns : ConnectionLost(c) \/ SocketClosed(c) \/ ConnectSucceeds(c)
    \/ \E m \in Methods : OnRequest(m) \/ Dispose(m)
    \/ \E c, g \in Conns : Monitor(c, g)
    \/ RetryDelayOver
    \/ ConnectFails
    \/ AfterConnect
    \/ RestoreSucceeds
    \/ RestoreFails
    \/ RestoreTimesOut
    \/ InterruptedSettles
    \/ Abandoned
    \/ AfterRestore
    \/ StopCompletes
    \/ Close
    \/ CloseCompletes

ReconnectSpec == ReconnectInit /\ [][ReconnectNext]_vars

\* Node fires the timers of the delay, the handshake and the restoration,
\* resumes every settled await, and ws reports the close of a closing socket
\* (it destroys one whose peer does not answer the close frame).
ReconnectFairness ==
    /\ \A c \in Conns : WF_vars(SocketClosed(c))
    /\ \A c, g \in Conns : WF_vars(Monitor(c, g))
    /\ WF_vars(RetryDelayOver)
    /\ WF_vars(ConnectFails \/ \E c \in Conns : ConnectSucceeds(c))
    /\ WF_vars(AfterConnect)
    /\ WF_vars(RestoreSucceeds \/ RestoreFails \/ RestoreTimesOut)
    /\ WF_vars(Abandoned)
    /\ WF_vars(AfterRestore)
    /\ WF_vars(StopCompletes)
    /\ WF_vars(CloseCompletes)

FairReconnectSpec == ReconnectSpec /\ ReconnectFairness

-----------------------------------------------------------------------------
(* Properties.                                                             *)

\* ADR-0009, "Only one connection or retry attempt exists at a time": at most one
\* socket is not closed, and a current connection means no loop and no candidate.
\* It rests on #monitor and the catch block waiting for the close of the old
\* connection before the next attempt.
OneConnection ==
    /\ Cardinality({c \in Conns : socket[c] \in {"open", "closing"}}) <= 1
    /\ current # 0 => loop = "idle" /\ candidate = 0

\* ADR-0009, "Explicit close() is terminal": whatever the loop was waiting for,
\* nothing becomes current or connected after close().
CloseIsTerminal ==
    [][isClosed => isClosed' /\ status' = "closed" /\ current' = 0 /\ candidate' = 0]_vars

\* The current and the candidate connection answer exactly the registered methods,
\* also those registered or disposed of while a session was being restored, and no
\* registration keeps a connection that was given up.
HandlersFollow ==
    \A m \in Methods :
        attached[m] = IF m \in registered THEN {current, candidate} \ {0} ELSE {}

\* close() closes every socket, one the loop was about to open included, and
\* its promise resolves.
ClosePromised ==
    isClosed ~> (closedResolved /\ \A c \in Conns : socket[c] \in {"none", "closed"})

\* The loss of the current connection is noticed, in every generation.
LossNoticed ==
    \A c \in Conns : (current = c /\ socket[c] # "open") ~> (current # c)

\* ADR-0009, "Failed reads, connection attempts, authentication, and restoration
\* remain retryable": the loop gives up only after close().
RetriesUntilClosed == loop = "stopped" => isClosed

=============================================================================
