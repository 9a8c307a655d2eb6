----------------------- MODULE LoopbackTransportProofs ------------------------
(***************************************************************************)
(* Proofs about the transport, for every set of sockets, every supply of   *)
(* session identifiers and every heartbeat limit.                          *)
(*                                                                         *)
(* SessionsMatch is not inductive alone: a handshake overwrites `offered', *)
(* which must not be that of a recorded session, and the callback of a     *)
(* response records its session.  HandshakePhases says that a socket whose *)
(* response is being sent was offered an identifier and has no record, and *)
(* that a socket with a record is past its handshake.                      *)
(***************************************************************************)
EXTENDS LoopbackTransport, TLAPS

HandshakePhases ==
    /\ \A s \in sending : offered[s] \in SessionIds /\ record[s] = None
    /\ \A s \in Sockets :
        record[s] # None => /\ state[s] \in {"authenticated", "closing"}
                            /\ offered[s] \in SessionIds
    /\ \A s \in Sockets : state[s] = "authenticated" => record[s] # None

TransportInvariant ==
    /\ TransportTypeOK
    /\ HandshakePhases
    /\ SessionsMatch

\* The invariant holds when the daemon has just started to listen.
LEMMA TransportInitially == TransportInit => TransportInvariant
  BY TransportConstants
  DEF TransportInit, TransportInvariant, TransportTypeOK, HandshakePhases, SessionsMatch

\* Opening a session (the callback of the handshake's response) records it in
\* both maps or in neither.
LEMMA OpenSessionKeepsInvariant ==
    ASSUME TransportInvariant, NEW s \in sending,
           state[s] = "sending-handshake", ready[s] = "open",
           OpenSession(s),
           sending' = sending \ {s},
           UNCHANGED <<offered, refusing, dispatching, listening, hung>>
    PROVE  TransportInvariant'
PROOF
  <1> USE DEF TransportInvariant
  <1>1. s \in Sockets /\ offered[s] \in SessionIds /\ record[s] = None
    BY DEF TransportTypeOK, HandshakePhases
  <1>2. CASE sessions[offered[s]] # None
    <2>1. TransportTypeOK'
      BY <1>1, <1>2 DEF OpenSession, CloseSocket, TransportTypeOK
    <2>2. HandshakePhases' /\ SessionsMatch'
      BY <1>1, <1>2 DEF OpenSession, TransportTypeOK, HandshakePhases, SessionsMatch
    <2> QED BY <2>1, <2>2
  <1>3. CASE sessions[offered[s]] = None
    <2> DEFINE fresh == [heartbeats |-> 0, reason |-> "transport-lost"]
    <2>1. fresh \in Records /\ fresh # None
      BY TransportConstants DEF Records, Reasons
    <2>2. /\ sessions' = [sessions EXCEPT ![offered[s]] = s]
          /\ record' = [record EXCEPT ![s] = fresh]
          /\ state' = [state EXCEPT ![s] = "authenticated"]
          /\ ready' = ready
          /\ timer' = timer \ {s}
      BY <1>3 DEF OpenSession
    <2> HIDE DEF fresh
    <2>3. TransportTypeOK'
      BY <1>1, <2>1, <2>2 DEF TransportTypeOK
    <2>4. HandshakePhases'
      BY <1>1, <2>1, <2>2 DEF TransportTypeOK, HandshakePhases
    <2>5. SessionsMatch'
      BY <1>1, <1>3, <2>1, <2>2, TransportConstants DEF TransportTypeOK, SessionsMatch
    <2> QED BY <2>3, <2>4, <2>5
  <1> QED BY <1>2, <1>3

\* A step that changes records only in what they count and report, and may move
\* a socket to "closing", keeps the invariant.
LEMMA RecordsKeptKeepsInvariant ==
    ASSUME TransportInvariant,
           TransportTypeOK',
           \A s \in Sockets : record'[s] = None <=> record[s] = None,
           \A s \in Sockets : state'[s] = state[s] \/ (state'[s] = "closing"),
           sending' \subseteq sending,
           UNCHANGED <<offered, sessions>>
    PROVE  HandshakePhases' /\ SessionsMatch'
PROOF
  <1> USE DEF TransportInvariant, TransportTypeOK
  <1>1. HandshakePhases'
    BY DEF HandshakePhases
  <1>2. SessionsMatch'
    BY TransportConstants DEF SessionsMatch
  <1> QED BY <1>1, <1>2

\* Every step of the transport keeps the invariant, one case per action.
LEMMA TransportStep == TransportInvariant /\ [TransportNext]_transportVars => TransportInvariant'
PROOF
  <1> SUFFICES ASSUME TransportInvariant, [TransportNext]_transportVars
               PROVE  TransportInvariant'
    OBVIOUS
  <1> USE DEF TransportInvariant
  <1>1. CASE UNCHANGED transportVars
    BY <1>1 DEF transportVars, TransportTypeOK, HandshakePhases, SessionsMatch
  <1>2. ASSUME NEW s \in Sockets, Connect(s) \/ PeerHangs(s) \/ PeerCloses(s)
        PROVE  TransportInvariant'
    <2>1. TransportTypeOK'
      BY <1>2 DEF Connect, PeerHangs, PeerCloses, CloseSocket, TransportTypeOK
    <2> QED
      BY <1>2, <2>1, RecordsKeptKeepsInvariant DEF Connect, PeerHangs, PeerCloses
  <1>3. ASSUME NEW s \in Sockets, SocketFails(s) \/ DispatchFails(s)
        PROVE  TransportInvariant'
    <2>1. /\ record' = [record EXCEPT ![s] =
                          IF @ = None THEN None ELSE [@ EXCEPT !.reason = "error"]]
          /\ ready' \in [Sockets -> {"none", "open", "closing", "destroyed", "closed"}]
          /\ state' \in {state, [state EXCEPT ![s] = "closing"]}
          /\ dispatching' \subseteq dispatching
          /\ UNCHANGED <<timer, offered, sending, refusing, sessions, listening, hung>>
      BY <1>3 DEF SocketFails, DispatchFails, Terminate, CloseSocket, TransportTypeOK
    <2>2. record'[s] \in Records \cup {None} /\ (record'[s] = None <=> record[s] = None)
      <3>1. CASE record[s] = None
        BY <2>1, <3>1 DEF TransportTypeOK
      <3>2. CASE record[s] # None
        <4>1. record'[s] = [record[s] EXCEPT !.reason = "error"] /\ record[s] \in Records
          BY <2>1, <3>2 DEF TransportTypeOK
        <4>2. record'[s] \in Records
          BY <4>1 DEF Records, Reasons
        <4> QED BY <4>2, <3>2, TransportConstants
      <3> QED BY <3>1, <3>2
    <2>3. TransportTypeOK'
      BY <2>1, <2>2 DEF TransportTypeOK
    <2> QED
      BY <2>1, <2>2, <2>3, RecordsKeptKeepsInvariant DEF TransportTypeOK
  <1>4. ASSUME NEW s \in Sockets, SocketClosed(s)
        PROVE  TransportInvariant'
    <2>1. TransportTypeOK'
      BY <1>4 DEF SocketClosed, TransportTypeOK
    <2>2. HandshakePhases'
      BY <1>4 DEF SocketClosed, TransportTypeOK, HandshakePhases
    <2>3. SessionsMatch'
      BY <1>4 DEF SocketClosed, TransportTypeOK, HandshakePhases, SessionsMatch
    <2> QED BY <2>1, <2>2, <2>3
  <1>5. ASSUME NEW s \in Sockets,
               HandshakeTimeout(s) \/ HandshakeRefused(s) \/ RefusalSent(s) \/ MessageTooEarly(s)
        PROVE  TransportInvariant'
    <2>1. TransportTypeOK'
      BY <1>5 DEF HandshakeTimeout, HandshakeRefused, RefusalSent, MessageTooEarly, CloseSocket,
                  Terminate, TransportTypeOK
    <2>2. /\ UNCHANGED <<record, sending, offered, sessions>>
          /\ state' \in {state, [state EXCEPT ![s] = "closing"]}
      BY <1>5 DEF HandshakeTimeout, HandshakeRefused, RefusalSent, MessageTooEarly
    <2> QED
      BY <2>1, <2>2, RecordsKeptKeepsInvariant DEF TransportTypeOK
  <1>6. ASSUME NEW s \in Sockets, NEW i \in SessionIds, HandshakeAccepted(s, i)
        PROVE  TransportInvariant'
    <2>1. TransportTypeOK'
      BY <1>6 DEF HandshakeAccepted, TransportTypeOK
    <2>2. record[s] = None
      BY <1>6 DEF HandshakeAccepted, HandshakePhases
    <2>3. HandshakePhases'
      BY <1>6, <2>2 DEF HandshakeAccepted, TransportTypeOK, HandshakePhases
    <2>4. SessionsMatch'
      BY <1>6, <2>2 DEF HandshakeAccepted, TransportTypeOK, SessionsMatch
    <2> QED BY <2>1, <2>3, <2>4
  <1>7. ASSUME NEW s \in Sockets, HandshakeSent(s)
        PROVE  TransportInvariant'
    <2>1. CASE state[s] = "sending-handshake" /\ ready[s] = "open" /\ OpenSession(s)
      BY <1>7, <2>1, OpenSessionKeepsInvariant DEF HandshakeSent
    <2>2. CASE /\ state' = [state EXCEPT ![s] = "closing"]
               /\ Terminate({s})
               /\ UNCHANGED <<timer, record, sessions>>
      <3>1. TransportTypeOK'
        BY <1>7, <2>2 DEF HandshakeSent, Terminate, TransportTypeOK
      <3> QED
        BY <1>7, <2>2, <3>1, RecordsKeptKeepsInvariant DEF HandshakeSent, TransportTypeOK
    <2> QED BY <1>7, <2>1, <2>2 DEF HandshakeSent
  <1>8. ASSUME NEW s \in Sockets, Pong(s) \/ Dispatch(s) \/ RouterCloses(s)
        PROVE  TransportInvariant'
    <2>1. record[s] \in Records /\ record[s] # None
      BY <1>8 DEF Pong, Dispatch, RouterCloses, HandshakePhases, TransportTypeOK
    <2>2. /\ \/ record' = [record EXCEPT ![s].heartbeats = 0]
             \/ record' = [record EXCEPT ![s].reason = "error"]
          /\ ready' \in [Sockets -> {"none", "open", "closing", "destroyed", "closed"}]
          /\ dispatching' \subseteq Sockets
          /\ UNCHANGED <<state, timer, offered, sending, refusing, sessions, listening, hung>>
      BY <1>8 DEF Pong, Dispatch, RouterCloses, RecordActivity, CloseSocket, TransportTypeOK
    <2>3. record'[s] \in Records
      BY <2>1, <2>2, TransportConstants DEF Records, Reasons, TransportTypeOK
    <2>4. /\ record' \in [Sockets -> Records \cup {None}]
          /\ \A x \in Sockets \ {s} : record'[x] = record[x]
      BY <2>2, <2>3 DEF TransportTypeOK
    <2>5. TransportTypeOK'
      BY <2>2, <2>4 DEF TransportTypeOK
    <2> QED
      BY <2>1, <2>2, <2>3, <2>4, <2>5, RecordsKeptKeepsInvariant, TransportConstants
  <1>9. ASSUME NEW s \in Sockets, DispatchDone(s)
        PROVE  TransportInvariant'
    BY <1>9 DEF DispatchDone, TransportTypeOK, HandshakePhases, SessionsMatch
  <1>10. CASE SweepSessions
    <2> DEFINE swept == {s \in Sockets : record[s] # None /\ ready[s] = "open"}
    <2>1. ASSUME NEW s \in Sockets
          PROVE  /\ record'[s] \in Records \cup {None}
                 /\ record'[s] = None <=> record[s] = None
      <3>1. CASE s \in swept /\ Expired(s)
        <4>1. record'[s] = [record[s] EXCEPT !.reason = "session-expired"] /\ record[s] \in Records
          BY <1>10, <3>1 DEF SweepSessions, TransportTypeOK
        <4>2. record'[s] \in Records
          BY <4>1 DEF Records, Reasons
        <4> QED BY <3>1, <4>2, TransportConstants
      <3>2. CASE s \in swept /\ ~Expired(s)
        <4>1. record'[s] = [record[s] EXCEPT !.heartbeats = @ + 1] /\ record[s] \in Records
          BY <1>10, <3>2 DEF SweepSessions, TransportTypeOK
        <4>2. record'[s] \in Records
          BY <3>2, <4>1, TransportConstants DEF Records, Expired
        <4> QED BY <3>2, <4>2, TransportConstants
      <3>3. CASE s \notin swept
        BY <1>10, <3>3 DEF SweepSessions, TransportTypeOK
      <3> QED BY <3>1, <3>2, <3>3
    <2>2. TransportTypeOK'
      BY <1>10, <2>1 DEF SweepSessions, TransportTypeOK
    <2> QED
      BY <1>10, <2>1, <2>2, RecordsKeptKeepsInvariant DEF SweepSessions
  <1>11. CASE Shutdown
    <2>1. ASSUME NEW s \in Sockets
          PROVE  /\ record'[s] \in Records \cup {None}
                 /\ record'[s] = None <=> record[s] = None
      <3>1. CASE record[s] = None
        BY <1>11, <3>1 DEF Shutdown
      <3>2. CASE record[s] # None
        <4>1. record'[s] = [record[s] EXCEPT !.reason = "shutdown"] /\ record[s] \in Records
          BY <1>11, <3>2 DEF Shutdown, TransportTypeOK
        <4>2. record'[s] \in Records
          BY <4>1 DEF Records, Reasons
        <4> QED BY <3>2, <4>2, TransportConstants
      <3> QED BY <3>1, <3>2
    <2>2. TransportTypeOK'
      BY <1>11, <2>1 DEF Shutdown, Terminate, TransportTypeOK
    <2> QED
      BY <1>11, <2>1, <2>2, RecordsKeptKeepsInvariant DEF Shutdown
  <1> QED
    BY <1>1, <1>2, <1>3, <1>4, <1>5, <1>6, <1>7, <1>8, <1>9, <1>10, <1>11 DEF TransportNext

-----------------------------------------------------------------------------

\* The inductive invariant of the transport.
THEOREM TransportInvariantAlways == TransportSpec => []TransportInvariant
  BY TransportInitially, TransportStep, PTL DEF TransportSpec

\* The daemon's registry and its sockets agree on the open sessions, for any
\* number of connections and repeated identifiers (onSessionOpened,
\* onSessionClosed).
THEOREM TransportSessions == TransportSpec => []SessionsMatch
  <1>1. TransportInvariant => SessionsMatch
    BY DEF TransportInvariant
  <1> QED BY <1>1, TransportInvariantAlways, PTL

\* The variables of the transport keep their types; heartbeats stay within
\* maxMissedHeartbeats (sweepSessions).
THEOREM TransportTypes == TransportSpec => []TransportTypeOK
  <1>1. TransportInvariant => TransportTypeOK
    BY DEF TransportInvariant
  <1> QED BY <1>1, TransportInvariantAlways, PTL

\* A refused, timed out or closed socket stays without a session
\* (#handleConnection).
THEOREM TransportRefusals == TransportSpec => RefusedStaysOut
PROOF
  <1> DEFINE StaysOut ==
        \A s \in Sockets :
            state[s] = "closing" => /\ state'[s] = "closing"
                                    /\ record[s] = None => record'[s] = None
  <1>1. ASSUME TransportInvariant, [TransportNext]_transportVars
        PROVE  [StaysOut]_transportVars
    <2> SUFFICES ASSUME TransportNext PROVE StaysOut
      BY <1>1
    <2> SUFFICES ASSUME NEW x \in Sockets, state[x] = "closing"
                 PROVE  state'[x] = "closing" /\ (record[x] = None => record'[x] = None)
      OBVIOUS
    <2> USE <1>1 DEF TransportInvariant, TransportTypeOK
    <2>1. ASSUME NEW s \in Sockets,
                 \/ Connect(s) \/ PeerHangs(s) \/ PeerCloses(s) \/ SocketFails(s)
                 \/ SocketClosed(s) \/ HandshakeTimeout(s) \/ HandshakeRefused(s) \/ RefusalSent(s)
          PROVE  state'[x] = "closing" /\ (record[x] = None => record'[x] = None)
      BY <2>1 DEF Connect, PeerHangs, PeerCloses, SocketFails, SocketClosed, HandshakeTimeout,
                  HandshakeRefused, RefusalSent
    <2>2. ASSUME NEW s \in Sockets,
                 \/ \E i \in SessionIds : HandshakeAccepted(s, i)
                 \/ MessageTooEarly(s) \/ HandshakeSent(s)
          PROVE  state'[x] = "closing" /\ (record[x] = None => record'[x] = None)
      BY <2>2 DEF HandshakeAccepted, MessageTooEarly, HandshakeSent, OpenSession
    <2>3. ASSUME NEW s \in Sockets,
                 \/ Pong(s) \/ Dispatch(s) \/ DispatchDone(s) \/ DispatchFails(s) \/ RouterCloses(s)
          PROVE  state'[x] = "closing" /\ (record[x] = None => record'[x] = None)
      BY <2>3 DEF Pong, Dispatch, RecordActivity, DispatchDone, DispatchFails, RouterCloses
    <2>4. CASE SweepSessions \/ Shutdown
      BY <2>4 DEF SweepSessions, Shutdown
    <2> QED BY <2>1, <2>2, <2>3, <2>4 DEF TransportNext
  <1> QED
    BY <1>1, TransportInvariantAlways, PTL DEF TransportSpec, RefusedStaysOut

=============================================================================
