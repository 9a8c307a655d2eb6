-------------------------- MODULE LoopbackTransport ---------------------------
(***************************************************************************)
(* The daemon's WebSocket server (packages/bridge-daemon/src/transport/    *)
(* loopback-websocket-server.ts), the handshake it processes and the       *)
(* registry it opens and closes sessions in, wired by daemon-server.ts.    *)
(*                                                                         *)
(* A socket goes through state.kind: "awaiting-handshake",                 *)
(* "sending-handshake", "authenticated", "closing".  Its readyState is     *)
(* another matter: a "closing" socket may be open until a refusal is       *)
(* written, and an "authenticated" one keeps delivering messages while the *)
(* close handshake runs.  `sending' and `refusing' are the callbacks of    *)
(* socket.send still to be called.                                         *)
(*                                                                         *)
(* What a handshake is checked for is left to the choice between accepting *)
(* and refusing it; session identifiers come from the createSessionId      *)
(* option and may repeat.                                                  *)
(***************************************************************************)
EXTENDS Naturals, FiniteSets

CONSTANTS
    Sockets,        \* the connections made, in any order
    SessionIds,     \* what createSessionId returns
    MaxMissed,      \* maxMissedHeartbeats
    None

\* SessionCloseReason, SessionSocketRecord
Reasons == {"transport-lost", "shutdown", "session-expired", "error"}
Records == [heartbeats : 0 .. MaxMissed, reason : Reasons]

ASSUME TransportConstants ==
    /\ MaxMissed \in Nat \ {0}
    /\ None \notin SessionIds \cup Sockets \cup Records

VARIABLES
    ready,          \* readyState; "destroyed" once terminated or failed
    state,          \* state.kind
    timer,          \* sockets whose handshakeTimeout is armed
    offered,        \* socket -> the session of its accepted handshake
    sending,        \* sockets whose acceptance is being sent
    refusing,       \* sockets whose refusal is being sent
    record,         \* sessionRecord, which is also the entry in #sessions
    dispatching,    \* sockets with a message in router.handle
    sessions,       \* the registry: session -> the socket of its connection
    listening,      \* #server is defined
    hung            \* sockets whose peer will not answer any more

transportVars == <<ready, state, timer, offered, sending, refusing, record, dispatching,
                   sessions, listening, hung>>

TransportTypeOK ==
    /\ ready \in [Sockets -> {"none", "open", "closing", "destroyed", "closed"}]
    /\ state \in [Sockets -> {"awaiting-handshake", "sending-handshake", "authenticated", "closing"}]
    /\ timer \subseteq Sockets
    /\ offered \in [Sockets -> SessionIds \cup {None}]
    /\ sending \subseteq Sockets
    /\ refusing \subseteq Sockets
    /\ record \in [Sockets -> Records \cup {None}]
    /\ dispatching \subseteq Sockets
    /\ sessions \in [SessionIds -> Sockets \cup {None}]
    /\ listening \in BOOLEAN
    /\ hung \subseteq Sockets

TransportInit ==
    /\ ready = [s \in Sockets |-> "none"]
    /\ state = [s \in Sockets |-> "awaiting-handshake"]
    /\ timer = {}
    /\ offered = [s \in Sockets |-> None]
    /\ sending = {}
    /\ refusing = {}
    /\ record = [s \in Sockets |-> None]
    /\ dispatching = {}
    /\ sessions = [i \in SessionIds |-> None]
    /\ listening = TRUE
    /\ hung = {}

-----------------------------------------------------------------------------
(* Sockets.                                                                *)

\* socket.close(code, reason)
CloseSocket(s) == ready' = [ready EXCEPT ![s] = IF @ = "open" THEN "closing" ELSE @]

\* socket.terminate()
Terminate(ss) ==
    ready' = [s \in Sockets |-> IF s \in ss /\ ready[s] \in {"open", "closing"}
                                THEN "destroyed" ELSE ready[s]]

\* ws delivers frames until the close handshake ends.
Delivers(s) == ready[s] \in {"open", "closing"} /\ s \notin hung

Connect(s) ==
    /\ listening
    /\ ready[s] = "none"
    /\ ready' = [ready EXCEPT ![s] = "open"]
    /\ timer' = timer \cup {s}
    /\ UNCHANGED <<state, offered, sending, refusing, record, dispatching, sessions, listening, hung>>

\* The peer's process is suspended: its socket stays open and nothing comes.
PeerHangs(s) ==
    /\ ready[s] = "open"
    /\ hung' = hung \cup {s}
    /\ UNCHANGED <<ready, state, timer, offered, sending, refusing, record, dispatching, sessions,
                   listening>>

\* The close frame of the peer.
PeerCloses(s) ==
    /\ Delivers(s)
    /\ ready[s] = "open"
    /\ CloseSocket(s)
    /\ UNCHANGED <<state, timer, offered, sending, refusing, record, dispatching, sessions, listening,
                   hung>>

\* The error event.
SocketFails(s) ==
    /\ ready[s] \in {"open", "closing"}
    /\ Terminate({s})
    /\ record' = [record EXCEPT ![s] = IF @ = None THEN None ELSE [@ EXCEPT !.reason = "error"]]
    /\ UNCHANGED <<state, timer, offered, sending, refusing, dispatching, sessions, listening, hung>>

\* Mistake: the session outlives its socket in the registry.
SocketClosedUnreported(s) ==
    /\ ready[s] \in {"closing", "destroyed"}
    /\ ready' = [ready EXCEPT ![s] = "closed"]
    /\ timer' = timer \ {s}
    /\ state' = [state EXCEPT ![s] = "closing"]
    /\ record' = [record EXCEPT ![s] = None]
    /\ UNCHANGED <<offered, sending, refusing, dispatching, sessions, listening, hung>>

\* The close event: onSessionClosed, and through it router.sessionClosed, for a
\* socket that had a session.
SocketClosed(s) ==
    /\ ready[s] \in {"closing", "destroyed"}
    /\ ready' = [ready EXCEPT ![s] = "closed"]
    /\ timer' = timer \ {s}
    /\ state' = [state EXCEPT ![s] = "closing"]
    /\ record' = [record EXCEPT ![s] = None]
    /\ sessions' = IF record[s] = None THEN sessions
                   ELSE [sessions EXCEPT ![offered[s]] = None]
    /\ UNCHANGED <<offered, sending, refusing, dispatching, listening, hung>>

-----------------------------------------------------------------------------
(* The handshake.                                                          *)

HandshakeTimeout(s) ==
    /\ s \in timer
    /\ timer' = timer \ {s}
    /\ IF state[s] \in {"awaiting-handshake", "sending-handshake"}
       THEN state' = [state EXCEPT ![s] = "closing"] /\ CloseSocket(s)
       ELSE UNCHANGED <<state, ready>>
    /\ UNCHANGED <<offered, sending, refusing, record, dispatching, sessions, listening, hung>>

\* An invalid request, a wrong token or no common protocol version.
HandshakeRefused(s) ==
    /\ Delivers(s)
    /\ state[s] = "awaiting-handshake"
    /\ state' = [state EXCEPT ![s] = "closing"]
    /\ refusing' = refusing \cup {s}
    /\ UNCHANGED <<ready, timer, offered, sending, record, dispatching, sessions, listening, hung>>

\* Mistake: the socket is left open after its refusal.
RefusalSentLeftOpen(s) ==
    /\ s \in refusing
    /\ refusing' = refusing \ {s}
    /\ UNCHANGED <<ready, state, timer, offered, sending, record, dispatching, sessions, listening, hung>>

\* sendFailureAndClose, when the refusal is written or its send failed.
RefusalSent(s) ==
    /\ s \in refusing
    /\ refusing' = refusing \ {s}
    /\ CloseSocket(s) \/ Terminate({s})
    /\ UNCHANGED <<state, timer, offered, sending, record, dispatching, sessions, listening, hung>>

HandshakeAccepted(s, i) ==
    /\ Delivers(s)
    /\ state[s] = "awaiting-handshake"
    /\ state' = [state EXCEPT ![s] = "sending-handshake"]
    /\ offered' = [offered EXCEPT ![s] = i]
    /\ sending' = sending \cup {s}
    /\ UNCHANGED <<ready, timer, refusing, record, dispatching, sessions, listening, hung>>

\* A message before the handshake's response was written.
MessageTooEarly(s) ==
    /\ Delivers(s)
    /\ state[s] = "sending-handshake"
    /\ state' = [state EXCEPT ![s] = "closing"]
    /\ CloseSocket(s)
    /\ UNCHANGED <<timer, offered, sending, refusing, record, dispatching, sessions, listening, hung>>

\* The session is opened in the registry and recorded; the registry refuses an
\* identifier it has.
OpenSession(s) ==
    LET taken == sessions[offered[s]] # None
    IN  /\ timer' = timer \ {s}
        /\ IF taken
           THEN /\ state' = [state EXCEPT ![s] = "closing"]
                /\ CloseSocket(s)
                /\ UNCHANGED <<record, sessions>>
           ELSE /\ sessions' = [sessions EXCEPT ![offered[s]] = s]
                /\ record' = [record EXCEPT ![s] = [heartbeats |-> 0, reason |-> "transport-lost"]]
                /\ state' = [state EXCEPT ![s] = "authenticated"]
                /\ UNCHANGED ready

\* Mistake: what became of the socket while the response was sent is ignored.
HandshakeSentUnchecked(s) ==
    /\ s \in sending
    /\ sending' = sending \ {s}
    /\ OpenSession(s)
    /\ UNCHANGED <<offered, refusing, dispatching, listening, hung>>

\* The callback of the response's send.
HandshakeSent(s) ==
    /\ s \in sending
    /\ sending' = sending \ {s}
    /\ \/ state[s] = "sending-handshake" /\ ready[s] = "open" /\ OpenSession(s)
       \/ /\ state' = [state EXCEPT ![s] = "closing"]
          /\ Terminate({s})
          /\ UNCHANGED <<timer, record, sessions>>
    /\ UNCHANGED <<offered, refusing, dispatching, listening, hung>>

-----------------------------------------------------------------------------
(* Sessions.                                                               *)

\* #recordActivity
RecordActivity(s) == record' = [record EXCEPT ![s].heartbeats = 0]

\* A pong, or a message that is answered without the router.
Pong(s) ==
    /\ Delivers(s)
    /\ record[s] # None
    /\ RecordActivity(s)
    /\ UNCHANGED <<ready, state, timer, offered, sending, refusing, dispatching, sessions, listening,
                   hung>>

\* onAuthenticatedMessage
Dispatch(s) ==
    /\ Delivers(s)
    /\ state[s] = "authenticated"
    /\ RecordActivity(s)
    /\ dispatching' = dispatching \cup {s}
    /\ UNCHANGED <<ready, state, timer, offered, sending, refusing, sessions, listening, hung>>

DispatchDone(s) ==
    /\ s \in dispatching
    /\ dispatching' = dispatching \ {s}
    /\ UNCHANGED <<ready, state, timer, offered, sending, refusing, record, sessions, listening, hung>>

\* router.handle rejects, perhaps long after the socket closed.
DispatchFails(s) ==
    /\ s \in dispatching
    /\ dispatching' = dispatching \ {s}
    /\ record' = [record EXCEPT ![s] = IF @ = None THEN None ELSE [@ EXCEPT !.reason = "error"]]
    /\ state' = [state EXCEPT ![s] = "closing"]
    /\ CloseSocket(s)
    /\ UNCHANGED <<timer, offered, sending, refusing, sessions, listening, hung>>

\* connection.close(1002 or 1008) by the router, which leaves state.kind alone.
RouterCloses(s) ==
    /\ record[s] # None
    /\ record' = [record EXCEPT ![s].reason = "error"]
    /\ CloseSocket(s)
    /\ UNCHANGED <<state, timer, offered, sending, refusing, dispatching, sessions, listening, hung>>

Expired(s) == record[s].heartbeats >= MaxMissed

\* Mistake: the heartbeat is not counted, so that nobody expires.
SweepSessionsUncounted ==
    /\ listening
    /\ UNCHANGED <<record, ready, state, timer, offered, sending, refusing, dispatching, sessions,
                   listening, hung>>

\* sweepSessions: sessions that used up their windows expire, the others are
\* pinged.
SweepSessions ==
    LET swept == {s \in Sockets : record[s] # None /\ ready[s] = "open"}
    IN  /\ listening
        /\ record' = [s \in Sockets |->
                CASE s \in swept /\ Expired(s) -> [record[s] EXCEPT !.reason = "session-expired"]
                  [] s \in swept /\ ~Expired(s) -> [record[s] EXCEPT !.heartbeats = @ + 1]
                  [] OTHER -> record[s]]
        /\ ready' = [s \in Sockets |->
                IF s \in swept /\ Expired(s) THEN "closing" ELSE ready[s]]
        /\ UNCHANGED <<state, timer, offered, sending, refusing, dispatching, sessions, listening, hung>>

\* close(): sessions are terminated with reason "shutdown", then the sockets
\* without one.
Shutdown ==
    /\ listening
    /\ listening' = FALSE
    /\ record' = [s \in Sockets |->
            IF record[s] = None THEN None ELSE [record[s] EXCEPT !.reason = "shutdown"]]
    /\ Terminate(Sockets)
    /\ UNCHANGED <<state, timer, offered, sending, refusing, dispatching, sessions, hung>>

-----------------------------------------------------------------------------

TransportNext ==
    \/ \E s \in Sockets :
        \/ Connect(s)
        \/ PeerHangs(s)
        \/ PeerCloses(s)
        \/ SocketFails(s)
        \/ SocketClosed(s)
        \/ HandshakeTimeout(s)
        \/ HandshakeRefused(s)
        \/ RefusalSent(s)
        \/ \E i \in SessionIds : HandshakeAccepted(s, i)
        \/ MessageTooEarly(s)
        \/ HandshakeSent(s)
        \/ Pong(s)
        \/ Dispatch(s)
        \/ DispatchDone(s)
        \/ DispatchFails(s)
        \/ RouterCloses(s)
    \/ SweepSessions
    \/ Shutdown

TransportSpec == TransportInit /\ [][TransportNext]_transportVars

\* Node fires the handshake's timer and the sweep's interval, ws calls back
\* every send and destroys a socket whose peer does not answer its close frame.
TransportFairness ==
    /\ WF_transportVars(SweepSessions)
    /\ \A s \in Sockets :
        /\ WF_transportVars(SocketClosed(s))
        /\ WF_transportVars(HandshakeTimeout(s))
        /\ WF_transportVars(RefusalSent(s))
        /\ WF_transportVars(HandshakeSent(s))

FairTransportSpec == TransportSpec /\ TransportFairness

-----------------------------------------------------------------------------
(* Properties.                                                             *)

\* The registry and #sessions agree, one socket per session, whatever fails
\* while a session opens or closes: so `touch' never throws, every session the
\* registry has will be closed by its socket's close event, and a socket refused
\* for a repeated identifier cannot close the session of another.
SessionsMatch ==
    /\ \A s \in Sockets : record[s] # None => sessions[offered[s]] = s
    /\ \A i \in SessionIds :
        sessions[i] # None => record[sessions[i]] # None /\ offered[sessions[i]] = i

\* SECURITY.md, "Every failed handshake creates no session": a socket that was
\* refused, timed out, wrote too early or is closed never gets a session or has
\* its messages dispatched, although the callback of its response may run later.
RefusedStaysOut ==
    [][\A s \in Sockets :
        state[s] = "closing" => /\ state'[s] = "closing"
                                /\ record[s] = None => record'[s] = None]_transportVars

\* SECURITY.md, "Idle unauthenticated connections expire": no socket stays
\* unauthenticated, also when its response cannot be written.
HandshakeEnds ==
    \A s \in Sockets :
        (ready[s] # "none") ~> (state[s] = "authenticated" \/ ready[s] = "closed")

\* ADR-0010: the session of a peer that stopped answering leaves the registry,
\* and with it its routes, plans and workspaces.
HungPeersLeave ==
    \A s \in Sockets : (s \in hung /\ record[s] # None) ~> (record[s] = None)

=============================================================================
