----------------------------- MODULE ClientEngine -----------------------------
(***************************************************************************)
(* The JSON-RPC engine of one client connection (packages/bridge-client/   *)
(* src/connection/json-rpc-engine.ts), its WebSocket as two queues, and the *)
(* daemon at the other end as far as it answers, cancels and judges what    *)
(* it gets (packages/bridge-daemon/src/routing/application-router.ts).      *)
(*                                                                         *)
(* The daemon sends a route once and cancels only a route it has no answer  *)
(* to.  It may answer a consumer's request up to three times: after TIMEOUT *)
(* the route's late result, if it fails its checks, and after any answer    *)
(* the send to the adapter, if it fails late, bring an error of their own.  *)
(* Nor does a cancellation end that: the cancelled route may still answer.  *)
(* Requests are numbered by ReqIds, which the engine draws at random and    *)
(* never repeats, routes by RouteIds.  Broadcast notifications and the      *)
(* shape of results are left out.                                          *)
(***************************************************************************)
EXTENDS Naturals, Sequences, FiniteSets, SequencesExt

CONSTANTS
    ReqIds,         \* requests the client makes
    RouteIds,       \* requests the daemon routes to the client
    MaxInbound,     \* #maxInboundRequests
    MaxLate         \* MAX_LATE_RESPONSE_IDS

ASSUME EngineConstants ==
    /\ MaxInbound \in Nat \ {0}
    /\ MaxLate \in Nat \ {0}

VARIABLES
    role,           \* #role
    socket,         \* readyState: "open", "closing", "destroyed" or "closed"
    pending,        \* #pending
    late,           \* #lateResponses, oldest first
    inbound,        \* #inbound
    completions,    \* #inboundCompletions, oldest first
    running,        \* #runningInboundHandlers
    tasks,          \* routes whose handler has not settled
    toDaemon,       \* messages under way, <<type, id>>
    toClient,
    asked,          \* the daemon's view of the client's requests
    routed,         \* the daemon's routes to this client
    violation,      \* the request or route that #protocolViolation was first called for
    untimely,       \* history: requests answered twice, or with their grace over too early
    evicted,        \* a full grace set forgot its oldest member
    offence         \* what the daemon closed the client for

outgoing == <<pending, late>>
incoming == <<inbound, completions, running, tasks>>
daemonVars == <<asked, routed, offence>>
engineVars == <<role, socket, outgoing, incoming, toDaemon, toClient, daemonVars, violation,
                untimely, evicted>>

Queues(ids) == Seq({"request", "cancel", "response"} \X ids)

\* "cancelled": the daemon was told to stop, and may have an answer yet; "answered":
\* it may have two more; "again": it may have one more; "closed": it has none.
AskedStates == {"unused", "sent", "received", "cancelled", "answered", "again", "closed"}

EngineTypeOK ==
    /\ role \in {"adapter", "consumer"}
    /\ socket \in {"open", "closing", "destroyed", "closed"}
    /\ pending \subseteq ReqIds
    /\ late \in Seq(ReqIds) /\ Len(late) <= MaxLate
    /\ inbound \subseteq RouteIds
    /\ completions \in Seq(RouteIds) /\ Len(completions) <= MaxLate
    /\ running \in 0 .. MaxInbound
    /\ tasks \subseteq RouteIds
    /\ toDaemon \in Queues(ReqIds \cup RouteIds)
    /\ toClient \in Queues(ReqIds \cup RouteIds)
    /\ asked \in [ReqIds -> AskedStates]
    /\ routed \in [RouteIds -> {"unused", "active", "cancelled", "done"}]
    /\ violation \subseteq ReqIds \cup RouteIds
    /\ untimely \subseteq ReqIds
    /\ evicted \in BOOLEAN
    /\ offence \in {"none", "cancel", "response"}

EngineInit ==
    /\ role \in {"adapter", "consumer"}
    /\ socket = "open"
    /\ pending = {}
    /\ late = << >>
    /\ inbound = {}
    /\ completions = << >>
    /\ running = 0
    /\ tasks = {}
    /\ toDaemon = << >>
    /\ toClient = << >>
    /\ asked = [i \in ReqIds |-> "unused"]
    /\ routed = [r \in RouteIds |-> "unused"]
    /\ violation = {} /\ untimely = {}
    /\ evicted = FALSE
    /\ offence = "none"

-----------------------------------------------------------------------------
(* Helpers.                                                                *)

\* #rememberLateResponse, #rememberInboundCompletion
Remember(q, id) == Append(IF Len(q) >= MaxLate THEN Tail(q) ELSE q, id)

Evicts(q) == evicted' = (evicted \/ Len(q) >= MaxLate)

\* socket.send if the socket is open.
Send(type, id) ==
    toDaemon' = IF socket = "open" THEN Append(toDaemon, <<type, id>>) ELSE toDaemon

\* #takeInbound has succeeded: the completion is remembered and the response
\* sent.
Complete(r) ==
    /\ completions' = Remember(completions, r)
    /\ Evicts(completions)
    /\ Send("response", r)

\* #rejectAll, #abortAllInbound, #clearInboundCompletions
DropAll ==
    /\ pending' = {}
    /\ inbound' = {}
    /\ completions' = << >>

\* #protocolViolation, on a message about id.
ProtocolViolation(id) ==
    /\ violation' = IF violation = {} THEN {id} ELSE violation
    /\ DropAll
    /\ socket' = CASE socket = "open" -> "closing"
                   [] socket = "closing" -> "destroyed"
                   [] OTHER -> socket

\* The next message of the daemon; ws delivers until the close handshake ends.
Receives(type, id) ==
    /\ socket \in {"open", "closing"}
    /\ toClient # << >>
    /\ Head(toClient) = <<type, id>>
    /\ toClient' = Tail(toClient)

-----------------------------------------------------------------------------
(* Requests of the client.                                                 *)

Request(i) ==
    /\ socket = "open"
    /\ asked[i] = "unused"
    /\ asked' = [asked EXCEPT ![i] = "sent"]
    /\ pending' = pending \cup {i}
    /\ Send("request", i)
    /\ UNCHANGED <<role, socket, late, incoming, toClient, routed, offence, violation,
                   untimely, evicted>>

\* Mistake: the response that may still come is not expected any more.
AbandonForgotten(i) ==
    /\ i \in pending
    /\ pending' = pending \ {i}
    /\ Send("cancel", i)
    /\ UNCHANGED <<role, socket, late, incoming, toClient, daemonVars, violation,
                   evicted, untimely>>

\* onAbort, or the request's timeout.
Abandon(i) ==
    /\ i \in pending
    /\ pending' = pending \ {i}
    /\ late' = Remember(late, i)
    /\ Evicts(late)
    /\ Send("cancel", i)
    /\ UNCHANGED <<role, socket, incoming, toClient, daemonVars, violation, untimely>>

\* The 30 s of grace are over.  No message takes that long, but the daemon keeps a
\* cancelled route for 30 s of its own, which begin later, and for as long as the
\* send to the adapter takes to fail.
LateGraceOver(i) ==
    /\ asked[i] \in {"cancelled", "answered", "again", "closed"} /\ ~Contains(toClient, <<"response", i>>)
    /\ \E n \in DOMAIN late : late[n] = i /\ late' = RemoveAt(late, n)
    /\ untimely' = IF asked[i] = "cancelled" THEN untimely \cup {i} ELSE untimely
    /\ UNCHANGED <<role, socket, pending, incoming, toDaemon, toClient, daemonVars, violation, evicted>>

\* #handleMessage on a response.
HandleResponse(i) ==
    /\ Receives("response", i)
    /\ \/ /\ i \in pending
          /\ pending' = pending \ {i}
          /\ UNCHANGED <<socket, late, inbound, completions, violation>>
       \/ /\ i \notin pending
          /\ \E n \in DOMAIN late : late[n] = i /\ late' = RemoveAt(late, n)
          /\ UNCHANGED <<socket, pending, inbound, completions, violation>>
       \/ /\ i \notin pending /\ ~Contains(late, i)
          /\ ProtocolViolation(i)
          /\ UNCHANGED late
    /\ UNCHANGED <<role, running, tasks, toDaemon, daemonVars, evicted, untimely>>

-----------------------------------------------------------------------------
(* Requests routed to the client.                                          *)

\* #handleIncomingRequest of a new route: no handler or no slot, or a handler
\* is started.  (A repeated route, which this daemon does not send, is a
\* violation.)
HandleIncomingRequest(r) ==
    /\ Receives("request", r)
    /\ r \notin inbound /\ ~Contains(completions, r)
    /\ \/ Complete(r) /\ UNCHANGED <<inbound, running, tasks>>
       \/ /\ running < MaxInbound
          /\ inbound' = inbound \cup {r}
          /\ running' = running + 1
          /\ tasks' = tasks \cup {r}
          /\ UNCHANGED <<completions, evicted, toDaemon>>
    /\ UNCHANGED <<role, socket, outgoing, daemonVars, violation, untimely>>

\* Mistake: the slot is free as soon as the request is answered.
InboundTimeoutFreesSlot(r) ==
    /\ r \in inbound
    /\ inbound' = inbound \ {r}
    /\ running' = running - 1
    /\ Complete(r)
    /\ UNCHANGED <<role, socket, outgoing, tasks, toClient, daemonVars, violation, untimely>>

\* The handler has taken too long; it keeps its slot.
InboundTimeout(r) ==
    /\ r \in inbound
    /\ inbound' = inbound \ {r}
    /\ Complete(r)
    /\ UNCHANGED <<role, socket, outgoing, running, tasks, toClient, daemonVars, violation,
                   untimely>>

\* Mistake: a handler answers whether or not its request was settled.
HandlerSettlesUnchecked(r) ==
    /\ r \in tasks
    /\ tasks' = tasks \ {r}
    /\ running' = running - 1
    /\ inbound' = inbound \ {r}
    /\ Complete(r)
    /\ UNCHANGED <<role, socket, outgoing, toClient, daemonVars, violation, untimely>>

\* The handler returns or throws; the answer counts if the request is not
\* settled yet.
HandlerSettles(r) ==
    /\ r \in tasks
    /\ tasks' = tasks \ {r}
    /\ running' = running - 1
    /\ inbound' = inbound \ {r}
    /\ \/ r \in inbound /\ Complete(r)
       \/ r \notin inbound /\ UNCHANGED <<completions, evicted, toDaemon>>
    /\ UNCHANGED <<role, socket, outgoing, toClient, daemonVars, violation, untimely>>

\* $/cancelRequest at an adapter.
HandleCancel(r) ==
    /\ Receives("cancel", r)
    /\ \/ /\ r \in inbound
          /\ inbound' = inbound \ {r}
          /\ Complete(r)
          /\ UNCHANGED <<socket, pending, violation>>
       \/ /\ r \notin inbound
          /\ \E n \in DOMAIN completions :
                completions[n] = r /\ completions' = RemoveAt(completions, n)
          /\ UNCHANGED <<socket, pending, inbound, toDaemon, violation, evicted>>
       \/ /\ r \notin inbound /\ ~Contains(completions, r)
          /\ ProtocolViolation(r)
          /\ UNCHANGED <<toDaemon, evicted>>
    /\ UNCHANGED <<role, late, running, tasks, daemonVars, untimely>>

\* As LateGraceOver: the daemon has the answer, or will not cancel any more.
CompletionGraceOver(r) ==
    /\ routed[r] = "done" /\ ~Contains(toClient, <<"cancel", r>>)
    /\ \E n \in DOMAIN completions :
            completions[n] = r /\ completions' = RemoveAt(completions, n)
    /\ UNCHANGED <<role, socket, outgoing, inbound, running, tasks, toDaemon, toClient, daemonVars,
                   violation, evicted, untimely>>

-----------------------------------------------------------------------------
(* The end of the connection.                                              *)

\* close(), or a close frame of the peer.
CloseBegins ==
    /\ socket = "open"
    /\ socket' = "closing"
    /\ UNCHANGED <<role, outgoing, incoming, toDaemon, toClient, daemonVars, violation,
                   evicted, untimely>>

\* #failConnection: the error event, or a send that fails.
FailConnection ==
    /\ socket \in {"open", "closing"}
    /\ socket' = "destroyed"
    /\ DropAll
    /\ UNCHANGED <<role, late, running, tasks, toDaemon, toClient, daemonVars, violation,
                   evicted, untimely>>

\* The close event.
SocketClosed ==
    /\ socket \in {"closing", "destroyed"}
    /\ socket' = "closed"
    /\ DropAll
    /\ late' = << >>
    /\ toDaemon' = << >>
    /\ toClient' = << >>
    /\ UNCHANGED <<role, running, tasks, daemonVars, violation, evicted, untimely>>

-----------------------------------------------------------------------------
(* The daemon.                                                             *)

\* The daemon closes the client.
Punish(what) ==
    /\ offence' = what
    /\ socket' = IF socket = "open" THEN "closing" ELSE socket

\* A request: received.  A response: it settles its route, or finds none.  A
\* cancellation: of a consumer, it ends the request; an adapter may not send it.
DaemonReceives(type, id) ==
    /\ socket \in {"open", "closing"}
    /\ toDaemon # << >>
    /\ Head(toDaemon) = <<type, id>>
    /\ toDaemon' = Tail(toDaemon)
    /\ \/ /\ type = "request"
          /\ asked' = [asked EXCEPT ![id] = "received"]
          /\ UNCHANGED <<socket, routed, offence>>
       \/ /\ type = "response"
          /\ routed' = [routed EXCEPT ![id] = "done"]
          /\ IF routed[id] = "done" THEN Punish("response") ELSE UNCHANGED <<socket, offence>>
          /\ UNCHANGED asked
       \/ /\ type = "cancel" /\ role = "consumer"
          /\ asked' = IF asked[id] = "received" THEN [asked EXCEPT ![id] = "cancelled"] ELSE asked
          /\ UNCHANGED <<socket, routed, offence>>
       \/ /\ type = "cancel" /\ role = "adapter"
          /\ Punish("cancel")
          /\ UNCHANGED <<asked, routed>>
    /\ UNCHANGED <<role, outgoing, incoming, toClient, violation, evicted, untimely>>

\* The answer to a request, result or error.  Only a consumer's request is routed, and
\* only a routed one may have a second answer.
DaemonAnswers(i) ==
    /\ socket = "open"
    /\ asked[i] \in {"received", "cancelled"}
    /\ \/ asked' = [asked EXCEPT ![i] = "closed"]
       \/ /\ role = "consumer"
          /\ asked' = [asked EXCEPT ![i] = "answered"]
    /\ toClient' = Append(toClient, <<"response", i>>)
    /\ UNCHANGED <<role, socket, outgoing, incoming, toDaemon, routed, offence, violation,
                   untimely, evicted>>

\* An answer was sent, and now PROVIDER_FAILED for a late result, or
\* ADAPTER_DISCONNECTED for the failed send.
DaemonAnswersAgain(i) ==
    /\ socket = "open"
    /\ \/ asked[i] = "answered" /\ asked' = [asked EXCEPT ![i] = "again"]
       \/ asked[i] \in {"answered", "again"} /\ asked' = [asked EXCEPT ![i] = "closed"]
    /\ untimely' = untimely \cup {i}
    /\ toClient' = Append(toClient, <<"response", i>>)
    /\ UNCHANGED <<role, socket, outgoing, incoming, toDaemon, routed, offence, violation, evicted>>

\* A late result absorbed, the end of the tombstone, or the send that did not fail.
TombstoneRemoved(i) ==
    /\ asked[i] \in {"cancelled", "answered", "again"}
    /\ asked' = [asked EXCEPT ![i] = "closed"]
    /\ UNCHANGED <<role, socket, outgoing, incoming, toDaemon, toClient, routed, offence, violation,
                   untimely, evicted>>

\* A consumer's request is routed to this adapter.
DaemonRoutes(r) ==
    /\ socket = "open" /\ role = "adapter"
    /\ routed[r] = "unused"
    /\ routed' = [routed EXCEPT ![r] = "active"]
    /\ toClient' = Append(toClient, <<"request", r>>)
    /\ UNCHANGED <<role, socket, outgoing, incoming, toDaemon, asked, offence, violation,
                   evicted, untimely>>

\* #cancelRoute: the consumer cancelled or left, or the route timed out.
DaemonCancels(r) ==
    /\ socket = "open"
    /\ routed[r] = "active"
    /\ routed' = [routed EXCEPT ![r] = "cancelled"]
    /\ toClient' = Append(toClient, <<"cancel", r>>)
    /\ UNCHANGED <<role, socket, outgoing, incoming, toDaemon, asked, offence, violation,
                   evicted, untimely>>

-----------------------------------------------------------------------------

EngineNext ==
    \/ \E i \in ReqIds :
        \/ Request(i)
        \/ Abandon(i)
        \/ LateGraceOver(i)
        \/ HandleResponse(i)
        \/ DaemonAnswers(i)
        \/ DaemonAnswersAgain(i)
        \/ TombstoneRemoved(i)
    \/ \E r \in RouteIds :
        \/ HandleIncomingRequest(r)
        \/ InboundTimeout(r)
        \/ HandlerSettles(r)
        \/ HandleCancel(r)
        \/ CompletionGraceOver(r)
        \/ DaemonRoutes(r)
        \/ DaemonCancels(r)
    \/ \E type \in {"request", "cancel", "response"}, id \in ReqIds \cup RouteIds :
        DaemonReceives(type, id)
    \/ CloseBegins
    \/ FailConnection
    \/ SocketClosed

EngineSpec == EngineInit /\ [][EngineNext]_engineVars

-----------------------------------------------------------------------------
(* Properties.                                                             *)

\* ADR-0008, "The first of handler completion, declared handler error,
\* cancellation, timeout, or connection close owns settlement": no route gets a
\* second response, which would make the daemon close the adapter.
SingleSettlement == offence # "response"

\* PROTOCOL.md: an answer that crosses a cancellation or a timeout, and a
\* cancellation that crosses an answer, are absorbed.  While no full grace set has
\* forgotten an entry, the engine gives up the connection only for a request that
\* the daemon answered a second time, or after the grace; never for the first
\* timely answer to a request, and never for a cancellation.
CrossingsTolerated == ~evicted => violation \subseteq untimely

\* ADR-0008: a timed out or cancelled handler keeps its slot until its promise
\* settles, so the slots in use are exactly the handlers at work.
SlotsHeld == running = Cardinality(tasks)

\* Nothing is left in the engine of a closed connection, and no late handler,
\* abort or timer puts something back.
ClosedIsEmpty ==
    socket = "closed" => pending = {} /\ late = << >> /\ inbound = {} /\ completions = << >>

\* ADR-0008: an adapter's notifications are its events, only consumers originate
\* $/cancelRequest.  So the daemon never closes an adapter for one.
AdapterNeverCancels == offence # "cancel"

=============================================================================
