--------------------- MODULE ReconnectingConnectionProofs ---------------------
(***************************************************************************)
(* Proofs about the reconnecting facade, for every set of methods, number  *)
(* of connections and delays.                                              *)
(*                                                                         *)
(* OneConnection counts sockets, and the loop decides about the next one   *)
(* from its own position: the invariant ties a socket that is not closed   *)
(* to the loop's local variable while the loop runs, and to #current while *)
(* it does not.                                                            *)
(***************************************************************************)
EXTENDS ReconnectingConnection, FiniteSetTheorems, TLAPS

\* The positions at which the loop has a connection of its own.
Trying == {"connected", "restore", "restored", "interrupted", "abandon", "stop"}

\* Not closed yet.
Alive(c) == socket[c] \in {"open", "closing"}

\* Connections are numbered in the order they are made, and the generations lag
\* behind them.
Numbered ==
    /\ \A c, d \in Conns : d < c /\ socket[c] # "none" => socket[d] # "none"
    /\ socket[generation] # "none"
    /\ loop \in {"connected", "restore", "restored"} => generation < trial

\* One connection at a time, the loop's or the current one.
Exclusive ==
    /\ trial # 0 <=> loop \in Trying
    /\ \A c, d \in Conns : Alive(c) /\ Alive(d) => c = d
    /\ \A c \in Conns : Alive(c) => loop = "idle" \/ c = trial
    /\ \A c \in Conns : Alive(c) /\ current # 0 => c = current
    /\ current # 0 => loop = "idle" /\ candidate = 0

\* The candidate is the connection whose session is restored.  It outlives the loop
\* when that gives up before close().
CandidateKnown ==
    /\ candidate # 0
        => \/ candidate = trial /\ loop \in {"restore", "restored", "interrupted", "stop"}
           \/ loop = "stopped"
    /\ loop \in {"restore", "restored"} /\ ~isClosed => candidate = trial

\* After close() nothing is current or tried any more.
ClosedForGood == isClosed => status = "closed" /\ current = 0 /\ candidate = 0

\* The current connection has a monitor of its generation.
CurrentMonitored == current # 0 => <<current, generation>> \in monitors

ReconnectInvariant ==
    /\ ReconnectTypeOK
    /\ Numbered
    /\ Exclusive
    /\ CandidateKnown
    /\ ClosedForGood
    /\ CurrentMonitored
    /\ HandlersFollow

-----------------------------------------------------------------------------

\* The facade starts with its initial connection, monitored.
LEMMA ReconnectStarts == ReconnectInit => ReconnectInvariant
PROOF
  <1> SUFFICES ASSUME ReconnectInit PROVE ReconnectInvariant
    OBVIOUS
  <1> USE ReconnectConstants DEF ReconnectInit, Conns
  <1>1. ReconnectTypeOK
    <2>1. /\ socket \in [Conns -> {"none", "open", "closing", "closed"}]
          /\ current \in 0 .. MaxConns /\ candidate \in 0 .. MaxConns /\ generation \in Conns
          /\ trial \in 0 .. MaxConns /\ baseDelay \in InitialDelay .. MaxDelay
      OBVIOUS
    <2>2. monitors \subseteq Conns \X Conns
      OBVIOUS
    <2> QED BY <2>1, <2>2 DEF ReconnectTypeOK, Loops
  <1>2. Numbered
    BY DEF Numbered
  <1>3. Exclusive
    BY DEF Exclusive, Alive, Trying
  <1>4. CandidateKnown /\ ClosedForGood /\ CurrentMonitored /\ HandlersFollow
    BY DEF CandidateKnown, ClosedForGood, CurrentMonitored, HandlersFollow
  <1> QED BY <1>1, <1>2, <1>3, <1>4 DEF ReconnectInvariant

\* The delay grows up to its maximum.
LEMMA DelayBounded ==
    ASSUME baseDelay \in InitialDelay .. MaxDelay
    PROVE  NextDelay \in InitialDelay .. MaxDelay
PROOF
  <1>1. baseDelay \in Nat /\ Multiplier \in Nat /\ Multiplier >= 1 /\ InitialDelay \in Nat /\ MaxDelay \in Nat
    BY ReconnectConstants
  <1>2. baseDelay * Multiplier \in Nat /\ baseDelay * Multiplier >= baseDelay
    BY <1>1
  <1> QED BY <1>1, <1>2, ReconnectConstants DEF NextDelay

\* What close() of some connections does to the sockets.
LEMMA SocketsClosing ==
    ASSUME ReconnectTypeOK, NEW cs, CloseSockets(cs)
    PROVE  /\ socket' \in [Conns -> {"none", "open", "closing", "closed"}]
           /\ \A c \in Conns : socket'[c] = "none" <=> socket[c] = "none"
           /\ \A c \in Conns : Alive(c)' <=> Alive(c)
  BY DEF CloseSockets, ReconnectTypeOK, Alive

\* A step that keeps which sockets are alive and made, and the position of the loop.
LEMMA SameSockets ==
    ASSUME ReconnectInvariant, UNCHANGED <<current, candidate, generation, loop, trial>>,
           \A c \in Conns : socket'[c] = "none" <=> socket[c] = "none",
           \A c \in Conns : Alive(c)' => Alive(c)
    PROVE  Numbered' /\ Exclusive'
PROOF
  <1>1. generation \in Conns
    BY DEF ReconnectInvariant, ReconnectTypeOK
  <1>2. Numbered'
    BY <1>1 DEF ReconnectInvariant, Numbered
  <1>3. Exclusive'
    BY DEF ReconnectInvariant, Exclusive
  <1> QED BY <1>2, <1>3

\* Every step keeps the invariant.
LEMMA ReconnectSteps ==
    ASSUME ReconnectInvariant, [ReconnectNext]_vars
    PROVE  ReconnectInvariant'
PROOF
  <1>0. /\ ReconnectTypeOK /\ Numbered /\ Exclusive /\ CandidateKnown /\ ClosedForGood
        /\ CurrentMonitored /\ HandlersFollow
    BY DEF ReconnectInvariant
  <1>c. 0 \notin Conns /\ Conns \subseteq Nat /\ (0 .. MaxConns) = Conns \cup {0}
    BY ReconnectConstants DEF Conns
  <1>t. loop \in Trying => trial \in Conns
    BY <1>0, <1>c DEF ReconnectTypeOK, Exclusive
  <1> USE DEF ReconnectInvariant
  <1>1. ASSUME NEW c \in Conns, ConnectionLost(c) PROVE ReconnectInvariant'
    <2>1. /\ CloseSockets({c})
          /\ UNCHANGED <<current, candidate, generation, monitors, status, loopVars, handlerVars, closeVars>>
      BY <1>1 DEF ConnectionLost
    <2>2. Numbered' /\ Exclusive'
      BY <2>1, <1>0, SocketsClosing, SameSockets DEF loopVars
    <2>3. ReconnectTypeOK'
      BY <2>1, <1>0, SocketsClosing DEF ReconnectTypeOK, loopVars, handlerVars, closeVars
    <2> QED BY <1>0, <2>1, <2>2, <2>3 DEF loopVars, handlerVars, closeVars, CandidateKnown, ClosedForGood,
              CurrentMonitored, HandlersFollow
  <1>2. ASSUME NEW c \in Conns, SocketClosed(c) PROVE ReconnectInvariant'
    <2>1. /\ socket[c] = "closing" /\ socket' = [socket EXCEPT ![c] = "closed"]
          /\ UNCHANGED <<current, candidate, generation, monitors, status, loopVars, handlerVars, closeVars>>
      BY <1>2 DEF SocketClosed
    <2>2. /\ \A d \in Conns : socket'[d] = "none" <=> socket[d] = "none"
          /\ \A d \in Conns : Alive(d)' => Alive(d)
      BY <1>0, <2>1 DEF ReconnectTypeOK, Alive
    <2>3. Numbered' /\ Exclusive'
      BY <2>1, <2>2, SameSockets DEF loopVars
    <2>4. ReconnectTypeOK'
      BY <1>0, <2>1 DEF ReconnectTypeOK, loopVars, handlerVars, closeVars
    <2> QED BY <1>0, <2>1, <2>3, <2>4 DEF loopVars, handlerVars, closeVars, CandidateKnown, ClosedForGood,
              CurrentMonitored, HandlersFollow
  <1>3. ASSUME NEW c \in Conns, ConnectSucceeds(c) PROVE ReconnectInvariant'
    <2>1. /\ loop = "connect" /\ ~isClosed
          /\ socket[c] = "none" /\ \A d \in 1 .. (c - 1) : socket[d] # "none"
          /\ socket' = [socket EXCEPT ![c] = "open"]
          /\ trial' = c /\ loop' = "connected"
          /\ UNCHANGED <<current, candidate, generation, monitors, status, baseDelay, handlerVars, closeVars>>
      BY <1>3 DEF ConnectSucceeds
    <2>2. ReconnectTypeOK'
      BY <1>0, <1>c, <2>1 DEF ReconnectTypeOK, Loops, handlerVars, closeVars
    <2>3. trial = 0 /\ candidate = 0 /\ current = 0
      BY <1>0, <2>1 DEF Exclusive, CandidateKnown, Trying
    <2>4. \A d \in Conns : ~Alive(d)
      BY <1>0, <1>c, <2>1, <2>3 DEF Exclusive
    <2>5. \A d \in Conns : Alive(d)' => d = c
      BY <1>0, <2>1, <2>4 DEF ReconnectTypeOK, Alive
    <2>6. Exclusive'
      BY <1>c, <2>1, <2>3, <2>5 DEF Exclusive, Trying
    <2>7. generation < c
      BY <1>0, <1>c, <2>1 DEF ReconnectTypeOK, Numbered, Conns
    <2>8. Numbered'
      <3>1. \A d \in Conns : socket'[d] = IF d = c THEN "open" ELSE socket[d]
        BY <1>0, <2>1 DEF ReconnectTypeOK
      <3>2. \A d \in Conns : d < c => socket[d] # "none"
        BY <1>c, <2>1 DEF Conns
      <3> QED BY <1>0, <2>1, <2>7, <3>1, <3>2 DEF Numbered, ReconnectTypeOK
    <2> QED BY <1>0, <2>1, <2>2, <2>3, <2>6, <2>8 DEF handlerVars, closeVars, CandidateKnown,
              ClosedForGood, CurrentMonitored, HandlersFollow
  <1>4. ASSUME NEW m \in Methods, OnRequest(m) \/ Dispose(m) PROVE ReconnectInvariant'
    <2>1. /\ UNCHANGED <<socket, current, candidate, generation, monitors, status, loopVars, closeVars>>
          /\ registered' \subseteq Methods
          /\ \A n \in Methods : n # m => (n \in registered' <=> n \in registered)
          /\ \/ m \in registered' /\ attached' = [attached EXCEPT ![m] = {current, candidate} \ {0}]
             \/ m \notin registered' /\ attached' = [attached EXCEPT ![m] = {}]
      BY <1>0, <1>4 DEF OnRequest, Dispose, ReconnectTypeOK
    <2>2. ReconnectTypeOK'
      BY <1>0, <1>c, <2>1 DEF ReconnectTypeOK, loopVars, closeVars
    <2>3. HandlersFollow'
      BY <1>0, <2>1 DEF ReconnectTypeOK, HandlersFollow
    <2> QED BY <1>0, <2>1, <2>2, <2>3 DEF loopVars, closeVars, Numbered, Exclusive, Alive, CandidateKnown,
              ClosedForGood, CurrentMonitored
  <1>5. ASSUME NEW c \in Conns, NEW g \in Conns, Monitor(c, g) PROVE ReconnectInvariant'
    <2>1. /\ socket[c] = "closed" /\ monitors' = monitors \ {<<c, g>>}
          /\ UNCHANGED <<socket, candidate, generation, registered, closeVars>>
      BY <1>5 DEF Monitor
    <2>2. CASE isClosed \/ current # c \/ generation # g
      <3>1. UNCHANGED <<current, status, loopVars, attached>>
        BY <1>5, <2>2 DEF Monitor
      <3>2. CurrentMonitored'
        BY <1>0, <2>1, <2>2, <3>1 DEF CurrentMonitored, ClosedForGood
      <3> QED BY <1>0, <2>1, <3>1, <3>2 DEF ReconnectTypeOK, loopVars, closeVars, Numbered, Exclusive,
                Alive, CandidateKnown, ClosedForGood, HandlersFollow
    <2>3. CASE ~(isClosed \/ current # c \/ generation # g)
      <3>1. /\ Detach({c}) /\ current' = 0 /\ loop' = "delay" /\ trial' = 0
            /\ baseDelay' = InitialDelay /\ status' = "reconnecting" /\ current = c /\ ~isClosed
        BY <1>5, <2>3 DEF Monitor
      <3>2. candidate = 0 /\ \A d \in Conns : ~Alive(d)
        BY <1>0, <1>c, <2>1, <3>1 DEF Exclusive, Alive
      <3>3. ReconnectTypeOK'
        BY <1>0, <1>c, <2>1, <3>1, ReconnectConstants DEF ReconnectTypeOK, Loops, Detach, closeVars
      <3>4. Exclusive' /\ Numbered'
        BY <1>0, <2>1, <3>1, <3>2 DEF Exclusive, Numbered, Alive, Trying
      <3>5. HandlersFollow'
        BY <1>0, <1>c, <2>1, <3>1, <3>2 DEF HandlersFollow, Detach
      <3> QED BY <2>1, <3>1, <3>2, <3>3, <3>4, <3>5 DEF CandidateKnown, ClosedForGood, CurrentMonitored,
                closeVars
    <2> QED BY <2>2, <2>3
  <1>6. CASE RetryDelayOver
    <2>1. /\ loop = "delay" /\ loop' = "connect"
          /\ UNCHANGED <<socket, current, candidate, generation, monitors, status, trial, baseDelay,
                         handlerVars, closeVars>>
      BY <1>6 DEF RetryDelayOver
    <2>2. ReconnectTypeOK'
      BY <1>0, <2>1 DEF ReconnectTypeOK, Loops, handlerVars, closeVars
    <2>3. Numbered' /\ Exclusive'
      BY <1>0, <2>1 DEF Numbered, Exclusive, Alive, Trying
    <2> QED BY <1>0, <2>1, <2>2, <2>3 DEF CandidateKnown, ClosedForGood, CurrentMonitored, HandlersFollow,
              handlerVars, closeVars
  <1>7. ASSUME RetryOrReturn, \A c \in Conns : ~Alive(c), current = 0, candidate = 0,
               UNCHANGED <<socket, current, candidate, generation, monitors, handlerVars, closeVars>>
        PROVE  ReconnectInvariant'
    <2>1. /\ trial' = 0 /\ loop' \in {"stopped", "delay"}
          /\ baseDelay' \in InitialDelay .. MaxDelay
          /\ status' \in {"connected", "reconnecting", "closed"}
          /\ isClosed => status' = status
      BY <1>0, <1>7, DelayBounded DEF RetryOrReturn, ReconnectTypeOK
    <2>2. ReconnectTypeOK'
      BY <1>0, <1>c, <1>7, <2>1 DEF ReconnectTypeOK, Loops, handlerVars, closeVars
    <2>3. Numbered' /\ Exclusive'
      BY <1>0, <1>7, <2>1 DEF Numbered, Exclusive, Alive, Trying
    <2> QED BY <1>0, <1>7, <2>1, <2>2, <2>3 DEF CandidateKnown, ClosedForGood, CurrentMonitored,
              HandlersFollow, handlerVars, closeVars
  <1>8. CASE ConnectFails
    <2>1. \A c \in Conns : ~Alive(c)
      BY <1>0, <1>c, <1>8 DEF ConnectFails, Exclusive, Trying
    <2> QED BY <1>0, <1>7, <1>8, <2>1 DEF ConnectFails, Exclusive, CandidateKnown
  <1>9. CASE Abandoned
    <2>1. \A c \in Conns : ~Alive(c)
      BY <1>0, <1>9 DEF Abandoned, Exclusive, Alive
    <2> QED BY <1>0, <1>7, <1>9, <2>1 DEF Abandoned, Exclusive, CandidateKnown
  <1>10. CASE AfterConnect
    <2>1. /\ loop = "connected" /\ current = 0 /\ candidate = 0
          /\ UNCHANGED <<current, generation, monitors, status, trial, baseDelay, registered, closeVars>>
          /\ trial \in Conns
      BY <1>0, <1>t, <1>10 DEF AfterConnect, Exclusive, CandidateKnown, Trying
    <2>2. CASE isClosed
      <3>1. CloseSockets({trial}) /\ loop' = "stop" /\ UNCHANGED <<candidate, attached>>
        BY <1>10, <2>2 DEF AfterConnect
      <3>2. ReconnectTypeOK'
        BY <1>0, <2>1, <3>1, SocketsClosing DEF ReconnectTypeOK, Loops, closeVars
      <3>3. Numbered' /\ Exclusive'
        BY <1>0, <2>1, <3>1, SocketsClosing DEF Numbered, Exclusive, Trying, ReconnectTypeOK
      <3> QED BY <1>0, <2>1, <2>2, <3>1, <3>2, <3>3 DEF CandidateKnown, ClosedForGood, CurrentMonitored,
                HandlersFollow, closeVars
    <2>3. CASE ~isClosed
      <3>1. candidate' = trial /\ Attach(trial) /\ loop' = "restore" /\ UNCHANGED socket
        BY <1>10, <2>3 DEF AfterConnect
      <3>2. ReconnectTypeOK'
        BY <1>0, <1>c, <2>1, <3>1 DEF ReconnectTypeOK, Loops, Attach, closeVars
      <3>3. Numbered' /\ Exclusive'
        BY <1>0, <2>1, <3>1 DEF Numbered, Exclusive, Alive, Trying
      <3>4. HandlersFollow'
        BY <1>0, <1>c, <2>1, <3>1 DEF HandlersFollow, Attach
      <3> QED BY <2>1, <2>3, <3>1, <3>2, <3>3, <3>4 DEF CandidateKnown, ClosedForGood, CurrentMonitored,
                closeVars
    <2> QED BY <2>2, <2>3
  <1>11. CASE RestoreSucceeds
    <2>1. /\ loop = "restore" /\ loop' = "restored"
          /\ UNCHANGED <<socket, current, candidate, generation, monitors, status, trial, baseDelay,
                         handlerVars, closeVars>>
      BY <1>11 DEF RestoreSucceeds
    <2>2. ReconnectTypeOK'
      BY <1>0, <2>1 DEF ReconnectTypeOK, Loops, handlerVars, closeVars
    <2>3. Numbered' /\ Exclusive'
      BY <1>0, <2>1 DEF Numbered, Exclusive, Alive, Trying
    <2> QED BY <1>0, <2>1, <2>2, <2>3 DEF CandidateKnown, ClosedForGood, CurrentMonitored, HandlersFollow,
              handlerVars, closeVars
  <1>12. ASSUME Abandon, loop \in {"restore", "interrupted"} PROVE ReconnectInvariant'
    <2>1. /\ Detach({trial}) /\ CloseSockets({trial}) /\ loop' = "abandon"
          /\ UNCHANGED <<current, generation, monitors, status, trial, baseDelay, registered, closeVars>>
          /\ current = 0 /\ trial \in Conns /\ candidate \in {0, trial} /\ candidate' = 0
      BY <1>0, <1>t, <1>12 DEF Abandon, Exclusive, CandidateKnown, Trying
    <2>2. ReconnectTypeOK'
      BY <1>0, <1>c, <2>1, SocketsClosing DEF ReconnectTypeOK, Loops, Detach, closeVars
    <2>3. Numbered' /\ Exclusive'
      BY <1>0, <1>12, <2>1, SocketsClosing DEF Numbered, Exclusive, Trying, ReconnectTypeOK
    <2>4. HandlersFollow'
      BY <1>0, <2>1 DEF HandlersFollow, Detach
    <2> QED BY <1>0, <2>1, <2>2, <2>3, <2>4 DEF CandidateKnown, ClosedForGood, CurrentMonitored, closeVars
  <1>13. CASE RestoreFails \/ InterruptedSettles
    BY <1>12, <1>13 DEF RestoreFails, InterruptedSettles
  <1>14. ASSUME CloseSockets({trial}), loop \in {"restore", "restored"}, loop' \in {"interrupted", "stop"},
                UNCHANGED <<current, candidate, generation, monitors, status, trial, baseDelay,
                            handlerVars, closeVars>>
         PROVE  ReconnectInvariant'
    <2>1. ReconnectTypeOK'
      BY <1>0, <1>14, SocketsClosing DEF ReconnectTypeOK, Loops, handlerVars, closeVars
    <2>2. Numbered' /\ Exclusive'
      BY <1>0, <1>14, SocketsClosing DEF Numbered, Exclusive, Trying, ReconnectTypeOK
    <2> QED BY <1>0, <1>14, <2>1, <2>2 DEF CandidateKnown, ClosedForGood, CurrentMonitored,
              HandlersFollow, handlerVars, closeVars
  <1>15. CASE RestoreTimesOut
    BY <1>14, <1>15 DEF RestoreTimesOut
  <1>16. CASE AfterRestore
    <2>1. ASSUME ~isClosed, socket[trial] = "open", Promote(generation + 1), loop = "restored"
          PROVE  ReconnectInvariant'
      <3>1. /\ candidate' = 0 /\ current' = trial /\ generation' = generation + 1
            /\ monitors' = monitors \cup {<<trial, generation + 1>>}
            /\ status' = "connected" /\ loop' = "idle" /\ trial' = 0
            /\ UNCHANGED <<socket, baseDelay, handlerVars, closeVars>>
        BY <2>1 DEF Promote
      <3>2. trial \in Conns /\ candidate = trial /\ current = 0 /\ generation < trial
        BY <1>0, <1>t, <2>1 DEF Trying, CandidateKnown, Exclusive, Numbered
      <3>3. generation \in Conns /\ generation + 1 \in Conns
        BY <1>0, <3>2, ReconnectConstants DEF ReconnectTypeOK, Conns
      <3>4. ReconnectTypeOK'
        <4>1. monitors' \subseteq Conns \X Conns
          BY <1>0, <3>1, <3>2, <3>3 DEF ReconnectTypeOK
        <4>2. current' \in 0 .. MaxConns /\ trial' \in 0 .. MaxConns /\ candidate' \in 0 .. MaxConns
          BY <1>c, <3>1, <3>2
        <4> QED BY <1>0, <3>1, <3>3, <4>1, <4>2 DEF ReconnectTypeOK, Loops, handlerVars, closeVars
      <3>5. socket[trial] # "none" => Numbered'
        BY <1>0, <1>c, <3>1, <3>2, <3>3 DEF Numbered
      <3>6. Exclusive'
        BY <1>0, <2>1, <3>1, <3>2 DEF Exclusive, Alive, Trying
      <3>7. socket[trial] # "none"
        BY <2>1
      <3> QED BY <1>0, <2>1, <3>1, <3>2, <3>4, <3>5, <3>6, <3>7 DEF CandidateKnown, ClosedForGood,
                CurrentMonitored, HandlersFollow, handlerVars, closeVars
    <2> QED BY <1>14, <1>16, <2>1 DEF AfterRestore
  <1>17. CASE StopCompletes
    <2>1. /\ loop = "stop" /\ socket[trial] = "closed" /\ loop' = "stopped" /\ trial' = 0
          /\ UNCHANGED <<socket, current, candidate, generation, monitors, status, baseDelay,
                         handlerVars, closeVars>>
      BY <1>17 DEF StopCompletes
    <2>2. \A c \in Conns : ~Alive(c)
      BY <1>0, <2>1 DEF Exclusive, Alive
    <2>3. ReconnectTypeOK'
      BY <1>0, <1>c, <2>1 DEF ReconnectTypeOK, Loops, handlerVars, closeVars
    <2>4. Numbered' /\ Exclusive'
      BY <1>0, <2>1, <2>2 DEF Numbered, Exclusive, Alive, Trying
    <2> QED BY <1>0, <2>1, <2>3, <2>4 DEF CandidateKnown, ClosedForGood, CurrentMonitored, HandlersFollow,
              handlerVars, closeVars
  <1>18. CASE Close
    <2> DEFINE cs == {current, candidate} \ {0}
    <2>1. /\ isClosed' = TRUE /\ status' = "closed" /\ current' = 0 /\ candidate' = 0
          /\ Detach(cs) /\ CloseSockets(cs) /\ closing' = cs
          /\ UNCHANGED <<generation, monitors, trial, baseDelay, registered, closedResolved>>
      BY <1>18 DEF Close
    <2>2. loop' = CASE loop = "delay" -> "stopped" [] loop = "restore" -> "interrupted" [] OTHER -> loop
      BY <1>18 DEF Close
    <2>3. /\ loop' \in Loops /\ (loop' \in Trying <=> loop \in Trying) /\ (loop = "idle" => loop' = "idle")
          /\ loop' \in {"connected", "restore", "restored"} => loop \in {"connected", "restore", "restored"}
      BY <1>0, <2>2 DEF ReconnectTypeOK, Loops, Trying
    <2>4. /\ cs \subseteq Conns
          /\ socket' \in [Conns -> {"none", "open", "closing", "closed"}]
          /\ \A c \in Conns : socket'[c] = "none" <=> socket[c] = "none"
          /\ \A c \in Conns : Alive(c)' <=> Alive(c)
      BY <1>0, <1>c, <2>1, SocketsClosing DEF ReconnectTypeOK
    <2>5. ReconnectTypeOK'
      <3>1. attached' \in [Methods -> SUBSET Conns]
        BY <1>0, <2>1 DEF ReconnectTypeOK, Detach
      <3>2. isClosed' \in BOOLEAN
        BY <2>1
      <3> QED BY <1>0, <1>c, <2>1, <2>3, <2>4, <3>1, <3>2 DEF ReconnectTypeOK
    <2>6. Numbered' /\ Exclusive'
      BY <1>0, <2>1, <2>3, <2>4 DEF Numbered, Exclusive, ReconnectTypeOK
    <2>7. HandlersFollow'
      BY <1>0, <2>1 DEF HandlersFollow, Detach
    <2> QED BY <2>1, <2>5, <2>6, <2>7 DEF CandidateKnown, ClosedForGood, CurrentMonitored
  <1>19. CASE CloseCompletes
    <2>1. /\ closedResolved' \in BOOLEAN
          /\ UNCHANGED <<socket, current, candidate, generation, monitors, status, loopVars, handlerVars,
                         isClosed, closing>>
      BY <1>19 DEF CloseCompletes
    <2> QED BY <1>0, <2>1 DEF ReconnectTypeOK, loopVars, handlerVars, Numbered, Exclusive, Alive,
              CandidateKnown, ClosedForGood, CurrentMonitored, HandlersFollow
  <1>20. CASE UNCHANGED vars
    BY <1>0, <1>20 DEF vars, ReconnectTypeOK, loopVars, handlerVars, closeVars, Numbered, Exclusive, Alive,
         CandidateKnown, ClosedForGood, CurrentMonitored, HandlersFollow
  <1> QED
    BY <1>1, <1>2, <1>3, <1>4, <1>5, <1>6, <1>8, <1>9, <1>10, <1>11, <1>13, <1>15, <1>16, <1>17, <1>18,
       <1>19, <1>20 DEF ReconnectNext

\* The loop, the monitors, the handlers and close() stay consistent in every
\* interleaving.
THEOREM ReconnectInvariantAlways == ReconnectSpec => []ReconnectInvariant
  BY ReconnectStarts, ReconnectSteps, PTL DEF ReconnectSpec

\* Only one connection or attempt exists at a time, however many connections are
\* lost, restored, timed out and retried.
THEOREM ReconnectOneConnection == ReconnectSpec => []OneConnection
PROOF
  <1>1. ReconnectInvariant => OneConnection
    <2> SUFFICES ASSUME ReconnectInvariant PROVE OneConnection
      OBVIOUS
    <2> DEFINE S == {c \in Conns : Alive(c)}
    <2>1. S = {} \/ \E c \in Conns : S = {c}
      BY DEF ReconnectInvariant, Exclusive
    <2>2. Cardinality(S) <= 1
      <3> HIDE DEF S
      <3>1. CASE S = {}
        BY <3>1, FS_EmptySet
      <3>2. ASSUME NEW c \in Conns, S = {c} PROVE Cardinality(S) <= 1
        <4>1. Cardinality({c}) = 1
          BY FS_Singleton
        <4> QED BY <3>2, <4>1
      <3> QED BY <2>1, <3>1, <3>2
    <2>3. current # 0 => loop = "idle" /\ candidate = 0
      BY DEF ReconnectInvariant, Exclusive
    <2> QED BY <2>2, <2>3 DEF OneConnection, Alive
  <1> QED BY <1>1, ReconnectInvariantAlways, PTL

\* The current and the candidate connection serve exactly the registered methods.
THEOREM ReconnectHandlers == ReconnectSpec => []HandlersFollow
PROOF
  <1>1. ReconnectInvariant => HandlersFollow
    BY DEF ReconnectInvariant
  <1> QED BY <1>1, ReconnectInvariantAlways, PTL

\* A connection never becomes current without a monitor that will notice its loss.
THEOREM ReconnectMonitored == ReconnectSpec => []CurrentMonitored
PROOF
  <1>1. ReconnectInvariant => CurrentMonitored
    BY DEF ReconnectInvariant
  <1> QED BY <1>1, ReconnectInvariantAlways, PTL

\* Nothing becomes current, candidate or connected after close(), whatever the loop
\* was waiting for.
THEOREM ReconnectCloses == ReconnectSpec => CloseIsTerminal
PROOF
  <1>1. ASSUME ReconnectInvariant, ReconnectInvariant', [ReconnectNext]_vars
        PROVE  [isClosed => isClosed' /\ status' = "closed" /\ current' = 0 /\ candidate' = 0]_vars
    <2>0. UNCHANGED closeVars \/ isClosed' = TRUE \/ UNCHANGED isClosed => (isClosed => isClosed')
      BY DEF closeVars
    <2>1. isClosed => isClosed'
      BY <1>1, <2>0 DEF ReconnectNext, ConnectionLost, SocketClosed, ConnectSucceeds, OnRequest, Dispose, Monitor,
           RetryDelayOver, ConnectFails, AfterConnect, RestoreSucceeds, RestoreFails, RestoreTimesOut,
           InterruptedSettles, Abandoned, Abandon, AfterRestore, Promote, StopCompletes, Close,
           CloseCompletes, vars
    <2> QED BY <1>1, <2>1 DEF ReconnectInvariant, ClosedForGood
  <1> QED BY <1>1, ReconnectInvariantAlways, PTL DEF ReconnectSpec, CloseIsTerminal

=============================================================================
