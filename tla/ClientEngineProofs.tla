-------------------------- MODULE ClientEngineProofs --------------------------
(***************************************************************************)
(* Proofs about the client's engine and its daemon, for all requests,      *)
(* routes and limits.                                                      *)
(*                                                                         *)
(* What the engine may conclude from a message depends on what else is     *)
(* under way: the invariants say which messages a queue may hold, how      *)
(* often, and which ones come first.                                       *)
(***************************************************************************)
EXTENDS ClientEngine, FiniteSetTheorems, TLAPS

\* Message m is in queue q; at most once; and no a comes after a b.
In(m, q) == \E n \in DOMAIN q : q[n] = m
Once(m, q) == \A k, n \in DOMAIN q : q[k] = m /\ q[n] = m => k = n
Before(a, b, q) == \A k, n \in DOMAIN q : q[k] = a /\ q[n] = b => k < n

\* What the daemon does about a request beside receiving it.
DaemonSide(i) == DaemonAnswers(i) \/ DaemonAnswersAgain(i) \/ TombstoneRemoved(i)

\* The engine's end of the connection still receives.
Receiving == socket \in {"open", "closing"}

\* Each end sends what its role in a request calls for.
Directed ==
    /\ \A type \in {"request", "cancel"}, id \in (ReqIds \cup RouteIds) \ ReqIds :
            ~In(<<type, id>>, toDaemon)
    /\ \A id \in (ReqIds \cup RouteIds) \ RouteIds : ~In(<<"response", id>>, toDaemon)

\* The requests of the client: what is under way of request i.
RequestTraffic(i) ==
    /\ Once(<<"request", i>>, toDaemon)
    /\ Before(<<"request", i>>, <<"cancel", i>>, toDaemon)
    /\ In(<<"request", i>>, toDaemon) => asked[i] = "sent"
    /\ i \notin untimely => Once(<<"response", i>>, toClient)
    /\ In(<<"response", i>>, toClient) => asked[i] \in {"answered", "again", "closed"}
    /\ asked[i] = "unused" => ~In(<<"cancel", i>>, toDaemon)
    /\ i \in pending => asked[i] # "unused"

\* The routes to the client: what is under way of route r.
RouteTraffic(r) ==
    /\ Once(<<"request", r>>, toClient)
    /\ Once(<<"cancel", r>>, toClient)
    /\ Before(<<"request", r>>, <<"cancel", r>>, toClient)
    /\ Once(<<"response", r>>, toDaemon)
    /\ In(<<"cancel", r>>, toClient) => routed[r] \in {"cancelled", "done"}
    /\ In(<<"response", r>>, toDaemon) => routed[r] \in {"active", "cancelled"}
    /\ In(<<"request", r>>, toClient) \/ r \in inbound
        => routed[r] \in {"active", "cancelled"} /\ ~In(<<"response", r>>, toDaemon)
    /\ In(<<"request", r>>, toClient) => r \notin tasks /\ r \notin inbound
    /\ r \in tasks => routed[r] # "unused"

\* The daemon owes the request an answer, or may answer it though it was cancelled.
Answerable == {"sent", "received", "cancelled"}

\* The first timely answer to a request and the cancellation of a route are expected
\* as long as they may come, unless a full grace set forgot one.
Expected ==
    Receiving /\ ~evicted /\ violation = {} =>
        /\ \A i \in ReqIds \ untimely : asked[i] \in Answerable \/ In(<<"response", i>>, toClient)
                => i \in pending \/ In(i, late)
        /\ \A r \in RouteIds : routed[r] = "active" \/ In(<<"cancel", r>>, toClient)
                => In(<<"request", r>>, toClient) \/ r \in inbound \/ In(r, completions)

EngineInvariant ==
    /\ EngineTypeOK
    /\ Directed
    /\ \A i \in ReqIds : RequestTraffic(i)
    /\ \A r \in RouteIds : RouteTraffic(r)
    /\ Expected
    /\ SingleSettlement
    /\ CrossingsTolerated
    /\ IsFiniteSet(tasks) /\ SlotsHeld

-----------------------------------------------------------------------------
(* Queues.                                                                 *)

\* A message is sent.
LEMMA QueueAppend ==
    ASSUME NEW S, NEW q \in Seq(S), NEW x \in S
    PROVE  /\ Append(q, x) \in Seq(S)
           /\ \A m : In(m, Append(q, x)) <=> In(m, q) \/ m = x
           /\ \A m : Once(m, q) /\ (m = x => ~In(m, q)) => Once(m, Append(q, x))
           /\ \A a, b : Before(a, b, q) /\ a # b /\ (a = x => ~In(b, q)) => Before(a, b, Append(q, x))
PROOF
  <1> DEFINE p == Append(q, x)
  <1>1. /\ p \in Seq(S) /\ Len(q) \in Nat
        /\ DOMAIN q = 1 .. Len(q) /\ DOMAIN p = 1 .. (Len(q) + 1)
        /\ \A n \in DOMAIN q : p[n] = q[n]
        /\ p[Len(q) + 1] = x
    OBVIOUS
  <1> HIDE DEF p
  <1>2. \A m : In(m, p) <=> In(m, q) \/ m = x
    BY <1>1 DEF In
  <1>3. \A m : Once(m, q) /\ (m = x => ~In(m, q)) => Once(m, p)
    BY <1>1 DEF Once, In
  <1>4. \A a, b : Before(a, b, q) /\ a # b /\ (a = x => ~In(b, q)) => Before(a, b, p)
    BY <1>1 DEF Before, In
  <1> QED BY <1>1, <1>2, <1>3, <1>4 DEF p

\* A message is received.
LEMMA QueueTail ==
    ASSUME NEW S, NEW q \in Seq(S), q # << >>
    PROVE  /\ Tail(q) \in Seq(S) /\ Head(q) \in S
           /\ In(Head(q), q)
           /\ \A m : In(m, Tail(q)) => In(m, q)
           /\ \A m : In(m, q) /\ m # Head(q) => In(m, Tail(q))
           /\ \A m : Once(m, q) => Once(m, Tail(q))
           /\ Once(Head(q), q) => ~In(Head(q), Tail(q))
           /\ \A a, b : Before(a, b, q) => Before(a, b, Tail(q))
           /\ \A a : Before(a, Head(q), q) => ~In(a, q)
PROOF
  <1> DEFINE p == Tail(q)
  <1>1. /\ p \in Seq(S) /\ Len(q) \in Nat /\ Len(q) >= 1 /\ Head(q) = q[1] /\ q[1] \in S
        /\ DOMAIN q = 1 .. Len(q) /\ DOMAIN p = 1 .. (Len(q) - 1)
        /\ \A n \in DOMAIN p : p[n] = q[n + 1]
    OBVIOUS
  <1> HIDE DEF p
  <1>2. In(Head(q), q)
    BY <1>1 DEF In
  <1>3. \A m : In(m, p) => In(m, q)
    BY <1>1 DEF In
  <1>4. ASSUME NEW m, In(m, q), m # Head(q) PROVE In(m, p)
    <2>1. PICK n \in DOMAIN q : q[n] = m
      BY <1>4 DEF In
    <2>2. n - 1 \in DOMAIN p /\ p[n - 1] = m
      BY <1>1, <1>4, <2>1
    <2> QED BY <2>2 DEF In
  <1>5. \A m : Once(m, q) => Once(m, p)
    BY <1>1 DEF Once
  <1>6. Once(Head(q), q) => ~In(Head(q), p)
    BY <1>1 DEF Once, In
  <1>7. \A a, b : Before(a, b, q) => Before(a, b, p)
    BY <1>1 DEF Before
  <1>8. \A a : Before(a, Head(q), q) => ~In(a, q)
    BY <1>1 DEF Before, In
  <1> QED BY <1>1, <1>2, <1>3, <1>4, <1>5, <1>6, <1>7, <1>8 DEF p

\* An empty queue.
LEMMA QueueEmpty ==
    /\ \A m : ~In(m, << >>) /\ Once(m, << >>)
    /\ \A a, b : Before(a, b, << >>)
  BY DEF In, Once, Before

\* A grace set forgets its oldest member only when it is full.
LEMMA Remembered ==
    ASSUME NEW S, NEW q \in Seq(S), Len(q) <= MaxLate, NEW x \in S
    PROVE  /\ Remember(q, x) \in Seq(S) /\ Len(Remember(q, x)) <= MaxLate
           /\ Len(q) < MaxLate => \A m : In(m, Remember(q, x)) <=> In(m, q) \/ m = x
PROOF
  <1>1. MaxLate \in Nat /\ MaxLate >= 1 /\ Len(q) \in Nat
    BY EngineConstants
  <1>2. CASE Len(q) < MaxLate
    BY <1>1, <1>2, QueueAppend DEF Remember
  <1>3. CASE Len(q) = MaxLate
    <2>1. q # << >> /\ Tail(q) \in Seq(S) /\ Len(Tail(q)) = Len(q) - 1
      BY <1>1, <1>3
    <2> DEFINE p == Tail(q)
    <2>2. Remember(q, x) = Append(p, x)
      BY <1>1, <1>3 DEF Remember
    <2> HIDE DEF p
    <2>3. Append(p, x) \in Seq(S) /\ Len(Append(p, x)) = Len(p) + 1
      BY <2>1 DEF p
    <2> QED BY <1>1, <1>3, <2>1, <2>2, <2>3 DEF p
  <1> QED BY <1>1, <1>2, <1>3

\* The others stay in a grace set when one leaves it.
LEMMA Forgotten ==
    ASSUME NEW S, NEW q \in Seq(S), Len(q) <= MaxLate, NEW n \in DOMAIN q
    PROVE  /\ RemoveAt(q, n) \in Seq(S) /\ Len(RemoveAt(q, n)) <= MaxLate
           /\ \A m : In(m, q) /\ m # q[n] => In(m, RemoveAt(q, n))
PROOF
  <1> DEFINE a == SubSeq(q, 1, n - 1)
             b == SubSeq(q, n + 1, Len(q))
             p == a \o b
  <1>0. MaxLate \in Nat /\ Len(q) \in Nat /\ n \in 1 .. Len(q)
    BY EngineConstants
  <1>1. a \in Seq(S) /\ Len(a) = n - 1 /\ \A k \in 1 .. (n - 1) : a[k] = q[k]
    BY <1>0
  <1>2. b \in Seq(S) /\ Len(b) = Len(q) - n /\ \A k \in 1 .. (Len(q) - n) : b[k] = q[k + n]
    <2>1. b \in Seq(S)
      BY <1>0
    <2>2. Len(b) = Len(q) - n
      BY <1>0
    <2>3. ASSUME NEW k \in 1 .. (Len(q) - n) PROVE b[k] = q[k + n]
      <3>1. b[k] = q[(n + 1) + k - 1]
        BY <1>0
      <3> QED BY <1>0, <3>1
    <2> HIDE DEF b
    <2> QED BY <2>1, <2>2, <2>3
  <1>3. RemoveAt(q, n) = p
    BY DEF RemoveAt
  <1> HIDE DEF a, b
  <1>4. /\ p \in Seq(S) /\ Len(p) = Len(q) - 1
        /\ \A k \in 1 .. (n - 1) : p[k] = q[k]
        /\ \A k \in n .. (Len(q) - 1) : p[k] = q[k + 1]
    <2>1. p \in Seq(S)
      BY <1>1, <1>2
    <2>2. Len(p) = Len(q) - 1
      BY <1>0, <1>1, <1>2
    <2>3. ASSUME NEW k \in 1 .. (n - 1) PROVE p[k] = q[k]
      BY <1>0, <1>1, <1>2
    <2>4. ASSUME NEW k \in n .. (Len(q) - 1) PROVE p[k] = q[k + 1]
      <3>1. k - (n - 1) \in 1 .. (Len(q) - n) /\ k - (n - 1) + n = k + 1
        BY <1>0
      <3>2. p[k] = b[k - (n - 1)]
        BY <1>0, <1>1, <1>2
      <3> QED BY <1>2, <3>1, <3>2
    <2> HIDE DEF p
    <2> QED BY <2>1, <2>2, <2>3, <2>4
  <1> HIDE DEF p
  <1>5. ASSUME NEW m, In(m, q), m # q[n] PROVE In(m, p)
    <2>1. PICK k \in 1 .. Len(q) : q[k] = m
      BY <1>5 DEF In
    <2>2. DOMAIN p = 1 .. (Len(q) - 1)
      BY <1>0, <1>4
    <2>3. CASE k < n
      BY <1>0, <1>4, <2>1, <2>2, <2>3 DEF In
    <2>4. CASE k > n
      <3>1. k - 1 \in n .. (Len(q) - 1) /\ k - 1 \in DOMAIN p /\ p[k - 1] = m
        BY <1>0, <1>4, <2>1, <2>2, <2>4
      <3> QED BY <3>1 DEF In
    <2> QED BY <1>0, <1>5, <2>1, <2>3, <2>4
  <1> QED BY <1>0, <1>3, <1>4, <1>5

\* Queue q2 is q with x sent, or not sent; and with x received.
Sent(q, q2, x) ==
    /\ \A m : In(m, q) => In(m, q2)
    /\ \A m : In(m, q2) => In(m, q) \/ m = x
    /\ \A m : Once(m, q) /\ (m = x => ~In(m, q)) => Once(m, q2)
    /\ \A a, b : Before(a, b, q) /\ a # b /\ (a = x => ~In(b, q)) => Before(a, b, q2)

Taken(q, q2, x) ==
    /\ In(x, q)
    /\ \A m : In(m, q2) => In(m, q)
    /\ \A m : In(m, q) /\ m # x => In(m, q2)
    /\ \A m : Once(m, q) => Once(m, q2)
    /\ Once(x, q) => ~In(x, q2)
    /\ \A a, b : Before(a, b, q) => Before(a, b, q2)
    /\ \A a : Before(a, x, q) => ~In(a, q)

Messages == {"request", "cancel", "response"} \X (ReqIds \cup RouteIds)

\* Append sends, Tail receives.
LEMMA AppendSends ==
    ASSUME NEW q \in Seq(Messages), NEW x \in Messages
    PROVE  Append(q, x) \in Seq(Messages) /\ Sent(q, Append(q, x), x) /\ Sent(q, q, x)
           /\ In(x, Append(q, x))
PROOF
  <1>1. Append(q, x) \in Seq(Messages) /\ Sent(q, Append(q, x), x) /\ In(x, Append(q, x))
    BY QueueAppend DEF Sent
  <1>2. Sent(q, q, x)
    BY DEF Sent
  <1> QED BY <1>1, <1>2

\* Tail takes the first message.
LEMMA TailTakes ==
    ASSUME NEW q \in Seq(Messages), q # << >>, NEW x, Head(q) = x
    PROVE  Tail(q) \in Seq(Messages) /\ Taken(q, Tail(q), x) /\ x \in Messages
  BY QueueTail DEF Taken

\* What the operators of the engine do to the queues.
LEMMA SendSends ==
    ASSUME EngineTypeOK, NEW type \in {"request", "cancel", "response"}, NEW id \in ReqIds \cup RouteIds,
           Send(type, id)
    PROVE  toDaemon' \in Seq(Messages) /\ Sent(toDaemon, toDaemon', <<type, id>>)
PROOF
  <1>1. toDaemon \in Seq(Messages) /\ <<type, id>> \in Messages
    BY DEF EngineTypeOK, Queues, Messages
  <1> QED BY <1>1, AppendSends DEF Send

\* Receives takes a message of the daemon.
LEMMA ReceivesTakes ==
    ASSUME EngineTypeOK, NEW type, NEW id, Receives(type, id)
    PROVE  /\ toClient' \in Seq(Messages) /\ Taken(toClient, toClient', <<type, id>>)
           /\ Receiving
PROOF
  <1>1. toClient \in Seq(Messages) /\ toClient # << >> /\ Head(toClient) = <<type, id>>
        /\ toClient' = Tail(toClient)
    BY DEF EngineTypeOK, Queues, Messages, Receives
  <1>2. Tail(toClient) \in Seq(Messages) /\ Taken(toClient, Tail(toClient), <<type, id>>)
    BY <1>1, TailTakes
  <1> QED BY <1>1, <1>2 DEF Receives, Receiving


-----------------------------------------------------------------------------
(* The types.                                                              *)

\* Whether a grace set was full is kept.
LEMMA EvictsBoolean ==
    ASSUME EngineTypeOK, NEW q, NEW S, q \in Seq(S), Evicts(q)
    PROVE  evicted' \in BOOLEAN /\ (evicted => evicted') /\ (~evicted' => Len(q) < MaxLate)
PROOF
  <1>1. evicted \in BOOLEAN /\ Len(q) \in Nat /\ MaxLate \in Nat
    BY EngineConstants DEF EngineTypeOK
  <1>2. evicted' = (evicted \/ Len(q) >= MaxLate)
    BY DEF Evicts
  <1>3. CASE Len(q) >= MaxLate
    BY <1>2, <1>3
  <1>4. CASE ~(Len(q) >= MaxLate)
    <2>1. Len(q) < MaxLate
      BY <1>1, <1>4
    <2>2. evicted' = evicted
      BY <1>1, <1>2, <1>4
    <2> QED BY <1>1, <2>1, <2>2
  <1> QED BY <1>3, <1>4

\* A completed route is remembered, and its response sent.
LEMMA CompleteEffects ==
    ASSUME EngineTypeOK, NEW r \in RouteIds, Complete(r)
    PROVE  /\ completions' \in Seq(RouteIds) /\ Len(completions') <= MaxLate
           /\ evicted' \in BOOLEAN /\ (evicted => evicted')
           /\ ~evicted' => \A m : In(m, completions') <=> In(m, completions) \/ m = r
           /\ toDaemon' \in Seq(Messages) /\ Sent(toDaemon, toDaemon', <<"response", r>>)
PROOF
  <1>1. /\ completions \in Seq(RouteIds) /\ Len(completions) <= MaxLate /\ Len(completions) \in Nat
        /\ evicted \in BOOLEAN /\ MaxLate \in Nat
    BY EngineConstants DEF EngineTypeOK
  <1>2. /\ completions' = Remember(completions, r)
        /\ evicted' = (evicted \/ Len(completions) >= MaxLate)
        /\ Send("response", r)
    BY DEF Complete, Evicts
  <1>3. completions' \in Seq(RouteIds) /\ Len(completions') <= MaxLate
    BY <1>1, <1>2, Remembered
  <1>4. evicted' \in BOOLEAN /\ (evicted => evicted') /\ (~evicted' => Len(completions) < MaxLate)
    BY <1>1, EvictsBoolean DEF Complete
  <1>5. ~evicted' => \A m : In(m, completions') <=> In(m, completions) \/ m = r
    BY <1>1, <1>2, <1>4, Remembered
  <1>6. toDaemon' \in Seq(Messages) /\ Sent(toDaemon, toDaemon', <<"response", r>>)
    BY <1>2, SendSends
  <1> QED BY <1>3, <1>4, <1>5, <1>6

\* The handlers at work.
LEMMA TasksCount ==
    ASSUME EngineInvariant, NEW r \in RouteIds
    PROVE  /\ r \in tasks => /\ running - 1 \in 0 .. MaxInbound
                             /\ IsFiniteSet(tasks \ {r}) /\ Cardinality(tasks \ {r}) = running - 1
           /\ r \notin tasks /\ running < MaxInbound
                => /\ running + 1 \in 0 .. MaxInbound
                   /\ IsFiniteSet(tasks \cup {r}) /\ Cardinality(tasks \cup {r}) = running + 1
PROOF
  <1>1. IsFiniteSet(tasks) /\ running = Cardinality(tasks) /\ running \in 0 .. MaxInbound /\ MaxInbound \in Nat
    BY EngineConstants DEF EngineInvariant, SlotsHeld, EngineTypeOK
  <1>2. ASSUME r \in tasks PROVE IsFiniteSet(tasks \ {r}) /\ Cardinality(tasks \ {r}) = Cardinality(tasks) - 1
    BY <1>1, <1>2, FS_RemoveElement
  <1>3. ASSUME r \in tasks PROVE running - 1 \in 0 .. MaxInbound
    <2>1. Cardinality(tasks \ {r}) \in Nat
      BY <1>2, <1>3, FS_CardinalityType
    <2> QED BY <1>1, <1>2, <1>3, <2>1
  <1>4. ASSUME r \notin tasks
        PROVE  IsFiniteSet(tasks \cup {r}) /\ Cardinality(tasks \cup {r}) = Cardinality(tasks) + 1
    BY <1>1, <1>4, FS_AddElement
  <1> QED BY <1>1, <1>2, <1>3, <1>4

\* The messages of the daemon.
LEMMA DaemonTakes ==
    ASSUME EngineTypeOK, NEW type, NEW id, DaemonReceives(type, id)
    PROVE  toDaemon' \in Seq(Messages) /\ Taken(toDaemon, toDaemon', <<type, id>>)
PROOF
  <1>1. toDaemon \in Seq(Messages) /\ toDaemon # << >> /\ Head(toDaemon) = <<type, id>>
        /\ toDaemon' = Tail(toDaemon)
    BY DEF EngineTypeOK, Queues, Messages, DaemonReceives
  <1> QED BY <1>1, TailTakes

\* Everything keeps its type.
LEMMA EngineTypesKept ==
    ASSUME EngineInvariant, [EngineNext]_engineVars
    PROVE  EngineTypeOK'
PROOF
  <1>0. EngineTypeOK
    BY DEF EngineInvariant
  <1>q. ASSUME toDaemon' \in Seq(Messages), toClient' \in Seq(Messages)
        PROVE  toDaemon' \in Queues(ReqIds \cup RouteIds) /\ toClient' \in Queues(ReqIds \cup RouteIds)
    BY <1>q DEF Queues, Messages
  <1>r. toDaemon \in Seq(Messages) /\ toClient \in Seq(Messages)
    BY <1>0 DEF EngineTypeOK, Queues, Messages
  <1>e. << >> \in Seq(ReqIds) /\ << >> \in Seq(RouteIds) /\ << >> \in Seq(Messages) /\ Len(<< >>) <= MaxLate
    BY EngineConstants
  <1>m. \A i \in ReqIds \cup RouteIds, type \in {"request", "cancel", "response"} : <<type, i>> \in Messages
    BY DEF Messages
  <1>d. ASSUME DropAll
        PROVE  /\ pending' \subseteq ReqIds /\ inbound' \subseteq RouteIds
               /\ completions' \in Seq(RouteIds) /\ Len(completions') <= MaxLate
    BY <1>d, <1>e DEF DropAll
  <1>p. ASSUME NEW id \in ReqIds \cup RouteIds, ProtocolViolation(id)
        PROVE  /\ violation' \subseteq ReqIds \cup RouteIds /\ socket' \in {"open", "closing", "destroyed", "closed"}
               /\ pending' \subseteq ReqIds /\ inbound' \subseteq RouteIds
               /\ completions' \in Seq(RouteIds) /\ Len(completions') <= MaxLate
    BY <1>0, <1>d, <1>p DEF ProtocolViolation, EngineTypeOK
  <1>1. ASSUME NEW i \in ReqIds, Request(i) PROVE EngineTypeOK'
    <2>1. toDaemon' \in Seq(Messages)
      BY <1>0, <1>1, SendSends DEF Request
    <2> QED BY <1>0, <1>1, <1>q, <1>r, <2>1 DEF Request, EngineTypeOK, AskedStates, incoming
  <1>2. ASSUME NEW i \in ReqIds, Abandon(i) PROVE EngineTypeOK'
    <2>1. toDaemon' \in Seq(Messages)
      BY <1>0, <1>2, SendSends DEF Abandon
    <2>2. late' \in Seq(ReqIds) /\ Len(late') <= MaxLate /\ evicted' \in BOOLEAN
      BY <1>0, <1>2, Remembered, EvictsBoolean DEF Abandon, EngineTypeOK
    <2> QED BY <1>0, <1>2, <1>q, <1>r, <2>1, <2>2 DEF Abandon, EngineTypeOK, incoming, daemonVars
  <1>3. ASSUME NEW i \in ReqIds, LateGraceOver(i) PROVE EngineTypeOK'
    <2>1. late' \in Seq(ReqIds) /\ Len(late') <= MaxLate
      BY <1>0, <1>3, Forgotten DEF LateGraceOver, EngineTypeOK
    <2> QED BY <1>0, <1>3, <2>1 DEF LateGraceOver, EngineTypeOK, incoming, daemonVars
  <1>4. ASSUME NEW i \in ReqIds, HandleResponse(i) PROVE EngineTypeOK'
    <2>1. toClient' \in Seq(Messages)
      BY <1>0, <1>4, ReceivesTakes DEF HandleResponse
    <2>2. toDaemon' = toDaemon /\ UNCHANGED <<role, running, tasks, asked, routed, offence, evicted, untimely>>
      BY <1>4 DEF HandleResponse, daemonVars
    <2>3. ASSUME NEW n \in DOMAIN late, late' = RemoveAt(late, n)
          PROVE  late' \in Seq(ReqIds) /\ Len(late') <= MaxLate
      BY <1>0, <2>3, Forgotten DEF EngineTypeOK
    <2>4. /\ late' \in Seq(ReqIds) /\ Len(late') <= MaxLate
          /\ violation' \subseteq ReqIds \cup RouteIds /\ socket' \in {"open", "closing", "destroyed", "closed"}
          /\ pending' \subseteq ReqIds /\ inbound' \subseteq RouteIds
          /\ completions' \in Seq(RouteIds) /\ Len(completions') <= MaxLate
      BY <1>0, <1>4, <1>p, <2>3 DEF HandleResponse, EngineTypeOK
    <2> QED BY <1>0, <1>q, <1>r, <2>1, <2>2, <2>4 DEF EngineTypeOK
  <1>5. ASSUME NEW i \in ReqIds, DaemonSide(i) PROVE EngineTypeOK'
    <2>1. toClient' \in Seq(Messages)
      BY <1>5, <1>m, <1>r, AppendSends DEF DaemonSide, DaemonAnswers, DaemonAnswersAgain, TombstoneRemoved
    <2>2. asked' \in [ReqIds -> AskedStates] /\ untimely' \subseteq ReqIds
      BY <1>0, <1>5 DEF DaemonSide, DaemonAnswers, DaemonAnswersAgain, TombstoneRemoved, EngineTypeOK, AskedStates
    <2> QED BY <1>0, <1>5, <1>q, <1>r, <2>1, <2>2 DEF DaemonSide, DaemonAnswers, DaemonAnswersAgain,
              TombstoneRemoved, EngineTypeOK, outgoing, incoming
  <1>6. ASSUME NEW r \in RouteIds, HandleIncomingRequest(r) PROVE EngineTypeOK'
    <2>1. toClient' \in Seq(Messages) /\ Taken(toClient, toClient', <<"request", r>>)
      BY <1>0, <1>6, ReceivesTakes DEF HandleIncomingRequest
    <2>2. UNCHANGED <<role, socket, pending, late, asked, routed, offence, violation, untimely>>
      BY <1>6 DEF HandleIncomingRequest, outgoing, daemonVars
    <2>3. CASE Complete(r) /\ UNCHANGED <<inbound, running, tasks>>
      BY <1>0, <1>q, <2>1, <2>2, <2>3, CompleteEffects DEF EngineTypeOK
    <2>4. CASE /\ running < MaxInbound /\ inbound' = inbound \cup {r} /\ running' = running + 1
               /\ tasks' = tasks \cup {r} /\ UNCHANGED <<completions, evicted, toDaemon>>
      <3>1. running' \in 0 .. MaxInbound
        BY <1>0, <2>4, EngineConstants DEF EngineTypeOK
      <3> QED BY <1>0, <1>q, <1>r, <2>1, <2>2, <2>4, <3>1 DEF EngineTypeOK
    <2> QED BY <1>6, <2>3, <2>4 DEF HandleIncomingRequest
  <1>7. ASSUME NEW r \in RouteIds, InboundTimeout(r) PROVE EngineTypeOK'
    BY <1>0, <1>7, <1>q, <1>r, CompleteEffects DEF InboundTimeout, EngineTypeOK, outgoing, daemonVars
  <1>8. ASSUME NEW r \in RouteIds, HandlerSettles(r) PROVE EngineTypeOK'
    <2>1. running' \in 0 .. MaxInbound
      BY <1>8, TasksCount DEF HandlerSettles
    <2>2. /\ completions' \in Seq(RouteIds) /\ Len(completions') <= MaxLate /\ evicted' \in BOOLEAN
          /\ toDaemon' \in Seq(Messages)
      BY <1>0, <1>8, <1>r, CompleteEffects DEF HandlerSettles, EngineTypeOK
    <2> QED BY <1>0, <1>8, <1>q, <1>r, <2>1, <2>2 DEF HandlerSettles, EngineTypeOK, outgoing, daemonVars
  <1>9. ASSUME NEW r \in RouteIds, HandleCancel(r) PROVE EngineTypeOK'
    <2>1. toClient' \in Seq(Messages)
      BY <1>0, <1>9, ReceivesTakes DEF HandleCancel
    <2>2. UNCHANGED <<role, late, running, tasks, asked, routed, offence, untimely>>
      BY <1>9 DEF HandleCancel, daemonVars
    <2>3. ASSUME NEW n \in DOMAIN completions, completions' = RemoveAt(completions, n)
          PROVE  completions' \in Seq(RouteIds) /\ Len(completions') <= MaxLate
      BY <1>0, <2>3, Forgotten DEF EngineTypeOK
    <2>4. /\ completions' \in Seq(RouteIds) /\ Len(completions') <= MaxLate
          /\ violation' \subseteq ReqIds \cup RouteIds /\ socket' \in {"open", "closing", "destroyed", "closed"}
          /\ pending' \subseteq ReqIds /\ inbound' \subseteq RouteIds
          /\ evicted' \in BOOLEAN /\ toDaemon' \in Seq(Messages)
      BY <1>0, <1>9, <1>p, <1>r, <2>3, CompleteEffects DEF HandleCancel, EngineTypeOK
    <2> QED BY <1>0, <1>q, <2>1, <2>2, <2>4 DEF EngineTypeOK
  <1>10. ASSUME NEW r \in RouteIds, CompletionGraceOver(r) PROVE EngineTypeOK'
    <2>1. completions' \in Seq(RouteIds) /\ Len(completions') <= MaxLate
      BY <1>0, <1>10, Forgotten DEF CompletionGraceOver, EngineTypeOK
    <2> QED BY <1>0, <1>10, <2>1 DEF CompletionGraceOver, EngineTypeOK, outgoing, daemonVars
  <1>11. ASSUME NEW r \in RouteIds, DaemonRoutes(r) \/ DaemonCancels(r) PROVE EngineTypeOK'
    <2>1. toClient' \in Seq(Messages)
      BY <1>11, <1>m, <1>r, AppendSends DEF DaemonRoutes, DaemonCancels
    <2> QED BY <1>0, <1>11, <1>q, <1>r, <2>1 DEF DaemonRoutes, DaemonCancels, EngineTypeOK, outgoing, incoming
  <1>12. ASSUME NEW type \in {"request", "cancel", "response"}, NEW id \in ReqIds \cup RouteIds,
                DaemonReceives(type, id)
         PROVE  EngineTypeOK'
    <2>1. toDaemon' \in Seq(Messages)
      BY <1>0, <1>12, DaemonTakes
    <2>2. asked' \in [ReqIds -> AskedStates]
      BY <1>0, <1>12 DEF DaemonReceives, EngineTypeOK, AskedStates
    <2>3. routed' \in [RouteIds -> {"unused", "active", "cancelled", "done"}]
      BY <1>0, <1>12 DEF DaemonReceives, EngineTypeOK
    <2>4. /\ socket' \in {"open", "closing", "destroyed", "closed"}
          /\ offence' \in {"none", "cancel", "response"}
      BY <1>0, <1>12 DEF DaemonReceives, Punish, EngineTypeOK
    <2> QED BY <1>0, <1>12, <1>q, <1>r, <2>1, <2>2, <2>3, <2>4
            DEF DaemonReceives, EngineTypeOK, outgoing, incoming
  <1>13. CASE CloseBegins
    BY <1>0, <1>13 DEF CloseBegins, EngineTypeOK, outgoing, incoming, daemonVars
  <1>14. CASE FailConnection
    BY <1>0, <1>14, <1>d DEF FailConnection, EngineTypeOK, daemonVars
  <1>15. CASE SocketClosed
    BY <1>0, <1>15, <1>d, <1>e, <1>q DEF SocketClosed, EngineTypeOK, daemonVars
  <1>16. CASE UNCHANGED engineVars
    BY <1>0, <1>16 DEF engineVars, EngineTypeOK, outgoing, incoming, daemonVars
  <1> QED BY <1>1, <1>2, <1>3, <1>4, <1>5, <1>6, <1>7, <1>8, <1>9, <1>10, <1>11, <1>12, <1>13, <1>14,
            <1>15, <1>16 DEF EngineNext, DaemonSide

-----------------------------------------------------------------------------
(* What is under way.                                                      *)

\* The slots in use are the handlers at work.
LEMMA SlotsKept ==
    ASSUME EngineInvariant, [EngineNext]_engineVars
    PROVE  IsFiniteSet(tasks') /\ SlotsHeld'
PROOF
  <1>0. IsFiniteSet(tasks) /\ running = Cardinality(tasks) /\ EngineTypeOK
    BY DEF EngineInvariant, SlotsHeld
  <1>1. ASSUME UNCHANGED <<running, tasks>> PROVE IsFiniteSet(tasks') /\ SlotsHeld'
    BY <1>0, <1>1 DEF SlotsHeld
  <1>2. ASSUME NEW r \in RouteIds, HandleIncomingRequest(r) PROVE IsFiniteSet(tasks') /\ SlotsHeld'
    <2>1. r \notin tasks
      <3>1. In(<<"request", r>>, toClient)
        BY <1>0, <1>2, ReceivesTakes DEF HandleIncomingRequest, Taken
      <3> QED BY <3>1 DEF EngineInvariant, RouteTraffic
    <2> QED BY <1>1, <1>2, <2>1, TasksCount DEF HandleIncomingRequest, SlotsHeld
  <1>3. ASSUME NEW r \in RouteIds, HandlerSettles(r) PROVE IsFiniteSet(tasks') /\ SlotsHeld'
    BY <1>3, TasksCount DEF HandlerSettles, SlotsHeld
  <1>4. ASSUME NEW i \in ReqIds, Request(i) \/ Abandon(i) \/ LateGraceOver(i)
                                  \/ HandleResponse(i) \/ DaemonSide(i)
        PROVE  UNCHANGED <<running, tasks>>
    BY <1>4 DEF Request, Abandon, LateGraceOver, HandleResponse, DaemonSide, DaemonAnswers,
         DaemonAnswersAgain, TombstoneRemoved, incoming
  <1>5. ASSUME NEW r \in RouteIds, \/ InboundTimeout(r) \/ HandleCancel(r) \/ CompletionGraceOver(r)
                                   \/ DaemonRoutes(r) \/ DaemonCancels(r)
        PROVE  UNCHANGED <<running, tasks>>
    BY <1>5 DEF InboundTimeout, HandleCancel, CompletionGraceOver, DaemonRoutes, DaemonCancels, incoming
  <1>6. ASSUME NEW type, NEW id, DaemonReceives(type, id) PROVE UNCHANGED <<running, tasks>>
    BY <1>6 DEF DaemonReceives, incoming
  <1>7. ASSUME CloseBegins \/ FailConnection \/ SocketClosed \/ UNCHANGED engineVars
        PROVE  UNCHANGED <<running, tasks>>
    BY <1>7 DEF CloseBegins, FailConnection, SocketClosed, engineVars, incoming
  <1> QED BY <1>1, <1>2, <1>3, <1>4, <1>5, <1>6, <1>7 DEF EngineNext, DaemonSide

\* The client's end only sends requests, cancellations of them, and responses to
\* routes: the three ways a step changes toDaemon.
LEMMA ToDaemonSteps ==
    ASSUME EngineInvariant, [EngineNext]_engineVars
    PROVE  \/ toDaemon' = toDaemon
           \/ toDaemon' = << >> /\ toClient' = << >>
           \/ \E i \in ReqIds : Request(i) /\ Sent(toDaemon, toDaemon', <<"request", i>>)
           \/ \E i \in ReqIds : Abandon(i) /\ Sent(toDaemon, toDaemon', <<"cancel", i>>)
           \/ \E r \in RouteIds :
                /\ r \notin inbound' /\ ~In(<<"request", r>>, toClient')
                /\ r \in inbound \/ In(<<"request", r>>, toClient)
                /\ Sent(toDaemon, toDaemon', <<"response", r>>)
           \/ \E type \in {"request", "cancel", "response"}, id \in ReqIds \cup RouteIds :
                DaemonReceives(type, id) /\ Taken(toDaemon, toDaemon', <<type, id>>)
PROOF
  <1>0. EngineTypeOK
    BY DEF EngineInvariant
  <1>t. \A r \in RouteIds : RouteTraffic(r)
    BY DEF EngineInvariant
  <1>1. ASSUME NEW i \in ReqIds, Request(i) PROVE Sent(toDaemon, toDaemon', <<"request", i>>)
    BY <1>0, <1>1, SendSends DEF Request
  <1>2. ASSUME NEW i \in ReqIds, Abandon(i) PROVE Sent(toDaemon, toDaemon', <<"cancel", i>>)
    BY <1>0, <1>2, SendSends DEF Abandon
  <1>3. ASSUME NEW i \in ReqIds, LateGraceOver(i) \/ HandleResponse(i) \/ DaemonSide(i)
        PROVE  toDaemon' = toDaemon
    BY <1>3 DEF LateGraceOver, HandleResponse, DaemonSide, DaemonAnswers,
         DaemonAnswersAgain, TombstoneRemoved
  <1>4. ASSUME NEW r \in RouteIds, HandleIncomingRequest(r)
        PROVE  \/ toDaemon' = toDaemon
               \/ /\ r \notin inbound' /\ ~In(<<"request", r>>, toClient')
                  /\ In(<<"request", r>>, toClient)
                  /\ Sent(toDaemon, toDaemon', <<"response", r>>)
    <2>1. In(<<"request", r>>, toClient) /\ ~In(<<"request", r>>, toClient')
      BY <1>0, <1>t, <1>4, ReceivesTakes DEF HandleIncomingRequest, Taken, RouteTraffic
    <2> QED BY <1>0, <1>4, <2>1, CompleteEffects DEF HandleIncomingRequest
  <1>5. ASSUME NEW r \in RouteIds, InboundTimeout(r) \/ HandlerSettles(r) \/ HandleCancel(r)
        PROVE  \/ toDaemon' = toDaemon
               \/ /\ r \notin inbound' /\ ~In(<<"request", r>>, toClient') /\ r \in inbound
                  /\ Sent(toDaemon, toDaemon', <<"response", r>>)
    <2>1. r \in inbound => ~In(<<"request", r>>, toClient)
      BY <1>t DEF RouteTraffic
    <2>2. HandleCancel(r) => \A m : In(m, toClient') => In(m, toClient)
      BY <1>0, ReceivesTakes DEF HandleCancel, Taken
    <2> QED BY <1>0, <1>5, <2>1, <2>2, CompleteEffects DEF InboundTimeout, HandlerSettles, HandleCancel
  <1>6. ASSUME NEW r \in RouteIds, CompletionGraceOver(r) \/ DaemonRoutes(r) \/ DaemonCancels(r)
        PROVE  toDaemon' = toDaemon
    BY <1>6 DEF CompletionGraceOver, DaemonRoutes, DaemonCancels
  <1>7. ASSUME NEW type, NEW id, DaemonReceives(type, id)
        PROVE  Taken(toDaemon, toDaemon', <<type, id>>)
    BY <1>0, <1>7, DaemonTakes
  <1>8. ASSUME CloseBegins \/ FailConnection \/ UNCHANGED engineVars PROVE toDaemon' = toDaemon
    BY <1>8 DEF CloseBegins, FailConnection, engineVars
  <1>9. ASSUME SocketClosed PROVE toDaemon' = << >> /\ toClient' = << >>
    BY <1>9 DEF SocketClosed
  <1> QED BY <1>1, <1>2, <1>3, <1>4, <1>5, <1>6, <1>7, <1>8, <1>9 DEF EngineNext, DaemonSide

\* The daemon's end, likewise.
LEMMA ToClientSteps ==
    ASSUME EngineInvariant, [EngineNext]_engineVars
    PROVE  \/ toClient' = toClient
           \/ toDaemon' = << >> /\ toClient' = << >>
           \/ \E i \in ReqIds : /\ DaemonAnswers(i) \/ DaemonAnswersAgain(i)
                               /\ Sent(toClient, toClient', <<"response", i>>)
           \/ \E r \in RouteIds : DaemonRoutes(r) /\ Sent(toClient, toClient', <<"request", r>>)
           \/ \E r \in RouteIds : DaemonCancels(r) /\ Sent(toClient, toClient', <<"cancel", r>>)
           \/ \E type, id : Taken(toClient, toClient', <<type, id>>)
PROOF
  <1>0. EngineTypeOK
    BY DEF EngineInvariant
  <1>r. toClient \in Seq(Messages)
    BY <1>0 DEF EngineTypeOK, Queues, Messages
  <1>m. \A i \in ReqIds \cup RouteIds, type \in {"request", "cancel", "response"} : <<type, i>> \in Messages
    BY DEF Messages
  <1>1. ASSUME NEW i \in ReqIds, Request(i) \/ Abandon(i) \/ LateGraceOver(i) \/ TombstoneRemoved(i)
        PROVE  toClient' = toClient
    BY <1>1 DEF Request, Abandon, LateGraceOver, TombstoneRemoved
  <1>2. ASSUME NEW i \in ReqIds, HandleResponse(i) PROVE Taken(toClient, toClient', <<"response", i>>)
    BY <1>0, <1>2, ReceivesTakes DEF HandleResponse
  <1>3. ASSUME NEW i \in ReqIds, DaemonAnswers(i) \/ DaemonAnswersAgain(i)
        PROVE  Sent(toClient, toClient', <<"response", i>>)
    BY <1>3, <1>m, <1>r, AppendSends DEF DaemonAnswers, DaemonAnswersAgain
  <1>4. ASSUME NEW r \in RouteIds, HandleIncomingRequest(r) PROVE Taken(toClient, toClient', <<"request", r>>)
    BY <1>0, <1>4, ReceivesTakes DEF HandleIncomingRequest
  <1>5. ASSUME NEW r \in RouteIds, HandleCancel(r) PROVE Taken(toClient, toClient', <<"cancel", r>>)
    BY <1>0, <1>5, ReceivesTakes DEF HandleCancel
  <1>6. ASSUME NEW r \in RouteIds, InboundTimeout(r) \/ HandlerSettles(r) \/ CompletionGraceOver(r)
        PROVE  toClient' = toClient
    BY <1>6 DEF InboundTimeout, HandlerSettles, CompletionGraceOver
  <1>7. ASSUME NEW r \in RouteIds, DaemonRoutes(r) PROVE Sent(toClient, toClient', <<"request", r>>)
    BY <1>7, <1>m, <1>r, AppendSends DEF DaemonRoutes
  <1>8. ASSUME NEW r \in RouteIds, DaemonCancels(r) PROVE Sent(toClient, toClient', <<"cancel", r>>)
    BY <1>8, <1>m, <1>r, AppendSends DEF DaemonCancels
  <1>9. ASSUME NEW type, NEW id, DaemonReceives(type, id) PROVE toClient' = toClient
    BY <1>9 DEF DaemonReceives
  <1>10. ASSUME CloseBegins \/ FailConnection \/ UNCHANGED engineVars PROVE toClient' = toClient
    BY <1>10 DEF CloseBegins, FailConnection, engineVars
  <1>11. ASSUME SocketClosed PROVE toDaemon' = << >> /\ toClient' = << >>
    BY <1>11 DEF SocketClosed
  <1> QED BY <1>1, <1>2, <1>3, <1>4, <1>5, <1>6, <1>7, <1>8, <1>9, <1>10, <1>11 DEF EngineNext, DaemonSide

\* Each end keeps to its messages.
LEMMA DirectedKept ==
    ASSUME EngineInvariant, [EngineNext]_engineVars
    PROVE  Directed'
PROOF
  <1>0. Directed
    BY DEF EngineInvariant
  <1>1. CASE toDaemon' = toDaemon
    BY <1>0, <1>1 DEF Directed
  <1>2. CASE toDaemon' = << >>
    BY <1>2, QueueEmpty DEF Directed
  <1>3. ASSUME NEW type \in {"request", "cancel"}, NEW i \in ReqIds,
               Sent(toDaemon, toDaemon', <<type, i>>)
        PROVE  Directed'
    BY <1>0, <1>3 DEF Directed, Sent
  <1>4. ASSUME NEW r \in RouteIds, Sent(toDaemon, toDaemon', <<"response", r>>) PROVE Directed'
    BY <1>0, <1>4 DEF Directed, Sent
  <1>5. ASSUME NEW type, NEW id, Taken(toDaemon, toDaemon', <<type, id>>) PROVE Directed'
    BY <1>0, <1>5 DEF Directed, Taken
  <1> QED BY <1>1, <1>2, <1>3, <1>4, <1>5, ToDaemonSteps

\* A connection that ended, a violation, an eviction and an untimely answer stay.
LEMMA OnlyOnward ==
    ASSUME EngineInvariant, [EngineNext]_engineVars
    PROVE  /\ Receiving' => Receiving
           /\ violation # {} => violation' = violation
           /\ evicted => evicted'
           /\ untimely \subseteq untimely'
PROOF
  <1> DEFINE Kept == violation # {} => violation' = violation
  <1>0. /\ EngineTypeOK /\ socket \in {"open", "closing", "destroyed", "closed"}
        /\ late \in Seq(ReqIds)
    BY DEF EngineInvariant, EngineTypeOK
  <1>p. ASSUME NEW id, ProtocolViolation(id) PROVE (Receiving' => Receiving) /\ Kept
    BY <1>0, <1>p DEF ProtocolViolation, Receiving
  <1>1. ASSUME NEW i \in ReqIds, Request(i) \/ LateGraceOver(i) \/ DaemonSide(i)
        PROVE  UNCHANGED <<socket, violation, evicted>> /\ untimely \subseteq untimely'
    BY <1>1 DEF Request, LateGraceOver, DaemonSide, DaemonAnswers, DaemonAnswersAgain, TombstoneRemoved
  <1>2. ASSUME NEW i \in ReqIds, Abandon(i)
        PROVE  UNCHANGED <<socket, violation, untimely>> /\ (evicted => evicted')
    BY <1>0, <1>2, EvictsBoolean DEF Abandon
  <1>3. ASSUME NEW i \in ReqIds, HandleResponse(i)
        PROVE  (Receiving' => Receiving) /\ Kept /\ UNCHANGED <<evicted, untimely>>
    <2>1. ProtocolViolation(i) \/ UNCHANGED <<socket, violation>>
      BY <1>3 DEF HandleResponse
    <2>2. UNCHANGED <<evicted, untimely>>
      BY <1>3 DEF HandleResponse
    <2> QED BY <1>p, <2>1, <2>2 DEF Receiving
  <1>4. ASSUME NEW r \in RouteIds, \/ HandleIncomingRequest(r) \/ InboundTimeout(r) \/ HandlerSettles(r)
        PROVE  UNCHANGED <<socket, violation, untimely>> /\ (evicted => evicted')
    <2>1. Complete(r) \/ UNCHANGED evicted
      BY <1>4 DEF HandleIncomingRequest, InboundTimeout, HandlerSettles
    <2>2. UNCHANGED <<socket, violation, untimely>>
      BY <1>4 DEF HandleIncomingRequest, InboundTimeout, HandlerSettles
    <2>3. ASSUME Complete(r) PROVE evicted => evicted'
      BY <1>0, <2>3, CompleteEffects
    <2> QED BY <2>1, <2>2, <2>3
  <1>5. ASSUME NEW r \in RouteIds, HandleCancel(r)
        PROVE  (Receiving' => Receiving) /\ Kept /\ (evicted => evicted') /\ untimely' = untimely
    <2>1. ProtocolViolation(r) \/ UNCHANGED <<socket, violation>>
      BY <1>5 DEF HandleCancel
    <2>2. (Complete(r) \/ UNCHANGED evicted) /\ untimely' = untimely
      BY <1>5 DEF HandleCancel
    <2>3. ASSUME Complete(r) PROVE evicted => evicted'
      BY <1>0, <2>3, CompleteEffects
    <2>4. evicted => evicted'
      BY <2>2, <2>3
    <2> QED BY <1>p, <2>1, <2>2, <2>4 DEF Receiving
  <1>6. ASSUME NEW r \in RouteIds, CompletionGraceOver(r) \/ DaemonRoutes(r) \/ DaemonCancels(r)
        PROVE  UNCHANGED <<socket, violation, evicted, untimely>>
    BY <1>6 DEF CompletionGraceOver, DaemonRoutes, DaemonCancels
  <1>7. ASSUME NEW type, NEW id, DaemonReceives(type, id)
        PROVE  Receiving /\ UNCHANGED <<violation, evicted, untimely>>
    BY <1>7 DEF DaemonReceives, Receiving
  <1>8. ASSUME CloseBegins \/ FailConnection \/ SocketClosed \/ UNCHANGED engineVars
        PROVE  (Receiving' => Receiving) /\ UNCHANGED <<violation, evicted, untimely>>
    BY <1>0, <1>8 DEF CloseBegins, FailConnection, SocketClosed, engineVars, Receiving
  <1>9. UNCHANGED socket => Receiving' = Receiving
    BY DEF Receiving
  <1> QED BY <1>1, <1>2, <1>3, <1>4, <1>5, <1>6, <1>7, <1>8, <1>9 DEF EngineNext, DaemonSide

\* The other steps change no request and no route, and settle at most.
LEMMA RequestsElse ==
    ASSUME EngineInvariant, [EngineNext]_engineVars,
           \A i \in ReqIds : ~Request(i) /\ ~DaemonSide(i),
           \A type \in {"request", "cancel", "response"}, id \in ReqIds \cup RouteIds :
                ~DaemonReceives(type, id)
    PROVE  asked' = asked /\ pending' \subseteq pending
PROOF
  <1>1. ASSUME DropAll PROVE pending' \subseteq pending
    BY <1>1 DEF DropAll
  <1>2. ASSUME NEW i \in ReqIds, Abandon(i) \/ LateGraceOver(i) \/ HandleResponse(i)
        PROVE  asked' = asked /\ pending' \subseteq pending
    BY <1>1, <1>2 DEF Abandon, LateGraceOver, HandleResponse, ProtocolViolation, daemonVars
  <1>3. ASSUME NEW r \in RouteIds, \/ HandleIncomingRequest(r) \/ InboundTimeout(r) \/ HandlerSettles(r)
                                   \/ HandleCancel(r) \/ CompletionGraceOver(r)
                                   \/ DaemonRoutes(r) \/ DaemonCancels(r)
        PROVE  asked' = asked /\ pending' \subseteq pending
    BY <1>1, <1>3 DEF HandleIncomingRequest, InboundTimeout, HandlerSettles, HandleCancel,
         CompletionGraceOver, DaemonRoutes, DaemonCancels, ProtocolViolation, daemonVars, outgoing
  <1>4. ASSUME CloseBegins \/ FailConnection \/ SocketClosed \/ UNCHANGED engineVars
        PROVE  asked' = asked /\ pending' \subseteq pending
    BY <1>1, <1>4 DEF CloseBegins, FailConnection, SocketClosed, engineVars, daemonVars, outgoing
  <1> QED BY <1>2, <1>3, <1>4 DEF EngineNext, DaemonSide

\* The traffic of the client's requests.
LEMMA RequestTrafficKept ==
    ASSUME EngineInvariant, [EngineNext]_engineVars
    PROVE  \A i \in ReqIds : RequestTraffic(i)'
PROOF
  <1>0. EngineTypeOK /\ Directed /\ \A i \in ReqIds : RequestTraffic(i)
    BY DEF EngineInvariant
  <1>u. untimely \subseteq untimely'
    BY OnlyOnward
  <1>1. ASSUME NEW j \in ReqIds, Request(j), NEW i \in ReqIds PROVE RequestTraffic(i)'
    <2>1. /\ asked[j] = "unused" /\ asked' = [asked EXCEPT ![j] = "sent"] /\ pending' = pending \cup {j}
          /\ toClient' = toClient /\ Sent(toDaemon, toDaemon', <<"request", j>>)
      BY <1>0, <1>u, <1>1, SendSends DEF Request
    <2>2. CASE i = j
      BY <1>0, <1>u, <2>1, <2>2 DEF RequestTraffic, Sent, EngineTypeOK
    <2>3. CASE i # j
      BY <1>0, <1>u, <2>1, <2>3 DEF RequestTraffic, Sent, EngineTypeOK
    <2> QED BY <2>2, <2>3
  <1>2. ASSUME NEW j \in ReqIds, Abandon(j), NEW i \in ReqIds PROVE RequestTraffic(i)'
    <2>1. /\ j \in pending /\ asked' = asked /\ pending' = pending \ {j}
          /\ toClient' = toClient /\ Sent(toDaemon, toDaemon', <<"cancel", j>>)
      BY <1>0, <1>u, <1>2, SendSends DEF Abandon, daemonVars
    <2> QED BY <1>0, <1>u, <2>1 DEF RequestTraffic, Sent
  <1>3. ASSUME NEW j \in ReqIds, DaemonSide(j), NEW i \in ReqIds PROVE RequestTraffic(i)'
    <2>1. /\ asked[j] \in {"received", "cancelled", "answered", "again"}
          /\ asked' \in {[asked EXCEPT ![j] = at] : at \in {"closed", "answered", "again"}}
          /\ UNCHANGED <<pending, toDaemon>>
      BY <1>3 DEF DaemonSide, DaemonAnswers, DaemonAnswersAgain, TombstoneRemoved, outgoing
    <2>2. CASE TombstoneRemoved(j)
      <3>1. toClient' = toClient /\ untimely' = untimely /\ asked' = [asked EXCEPT ![j] = "closed"]
        BY <2>2 DEF TombstoneRemoved
      <3> QED BY <1>0, <1>u, <2>1, <3>1 DEF RequestTraffic, EngineTypeOK
    <2>3. CASE DaemonAnswers(j) \/ DaemonAnswersAgain(j)
      <3>1. Sent(toClient, toClient', <<"response", j>>)
        <4>1. toClient \in Seq(Messages) /\ <<"response", j>> \in Messages
          BY <1>0 DEF EngineTypeOK, Queues, Messages
        <4> QED BY <2>3, <4>1, AppendSends DEF DaemonAnswers, DaemonAnswersAgain
      <3>2. j \notin untimely' => asked[j] \in {"received", "cancelled"}
        BY <2>3 DEF DaemonAnswers, DaemonAnswersAgain
      <3>3. CASE i = j
        BY <1>0, <1>u, <2>1, <3>1, <3>2, <3>3 DEF RequestTraffic, Sent, EngineTypeOK
      <3>4. CASE i # j
        BY <1>0, <1>u, <2>1, <3>1, <3>4 DEF RequestTraffic, Sent, EngineTypeOK
      <3> QED BY <3>3, <3>4
    <2> QED BY <1>3, <2>2, <2>3 DEF DaemonSide
  <1>4. ASSUME NEW type \in {"request", "cancel", "response"}, NEW id \in ReqIds \cup RouteIds,
               DaemonReceives(type, id), NEW i \in ReqIds
        PROVE  RequestTraffic(i)'
    <2>1. Taken(toDaemon, toDaemon', <<type, id>>)
      BY <1>0, <1>u, <1>4, DaemonTakes
    <2>2. UNCHANGED <<pending, toClient>>
      BY <1>4 DEF DaemonReceives, outgoing
    <2>3. CASE asked'[i] = asked[i]
      BY <1>0, <1>u, <2>1, <2>2, <2>3 DEF RequestTraffic, Taken
    <2>4. CASE asked'[i] # asked[i]
      <3>1. /\ i = id
            /\ \/ type = "request" /\ asked'[i] = "received"
               \/ type = "cancel" /\ asked[i] = "received" /\ asked'[i] = "cancelled"
        BY <1>0, <1>u, <1>4, <2>4 DEF DaemonReceives, EngineTypeOK
      <3>2. CASE type = "request"
        BY <1>0, <1>u, <2>1, <2>2, <3>1, <3>2 DEF RequestTraffic, Taken
      <3>3. CASE type = "cancel"
        BY <1>0, <1>u, <2>1, <2>2, <3>1, <3>3 DEF RequestTraffic, Taken
      <3> QED BY <3>1, <3>2, <3>3
    <2> QED BY <2>3, <2>4
  <1>5. ASSUME asked' = asked, pending' \subseteq pending, NEW i \in ReqIds,
               \/ toDaemon' = toDaemon
               \/ toDaemon' = << >>
               \/ \E r \in RouteIds : Sent(toDaemon, toDaemon', <<"response", r>>),
               \/ toClient' = toClient
               \/ toClient' = << >>
               \/ \E r \in RouteIds : Sent(toClient, toClient', <<"request", r>>)
               \/ \E r \in RouteIds : Sent(toClient, toClient', <<"cancel", r>>)
               \/ \E type, id : Taken(toClient, toClient', <<type, id>>)
        PROVE  RequestTraffic(i)'
    <2>1. /\ Once(<<"request", i>>, toDaemon')
          /\ Before(<<"request", i>>, <<"cancel", i>>, toDaemon')
          /\ In(<<"request", i>>, toDaemon') => In(<<"request", i>>, toDaemon)
          /\ In(<<"cancel", i>>, toDaemon') => In(<<"cancel", i>>, toDaemon)
      BY <1>0, <1>u, <1>5, QueueEmpty DEF RequestTraffic, Sent
    <2>2. /\ i \notin untimely' => Once(<<"response", i>>, toClient')
          /\ In(<<"response", i>>, toClient') => In(<<"response", i>>, toClient)
      BY <1>0, <1>u, <1>5, QueueEmpty DEF RequestTraffic, Sent, Taken
    <2> QED BY <1>0, <1>u, <1>5, <2>1, <2>2 DEF RequestTraffic
  <1>6. ASSUME \A i \in ReqIds : ~Request(i) /\ ~DaemonSide(i) /\ ~Abandon(i),
               \A type \in {"request", "cancel", "response"}, id \in ReqIds \cup RouteIds :
                    ~DaemonReceives(type, id)
        PROVE  \A i \in ReqIds : RequestTraffic(i)'
    <2>1. asked' = asked /\ pending' \subseteq pending
      BY <1>6, RequestsElse
    <2>2. \/ toDaemon' = toDaemon
          \/ toDaemon' = << >>
          \/ \E r \in RouteIds : Sent(toDaemon, toDaemon', <<"response", r>>)
      BY <1>6, ToDaemonSteps
    <2>3. \/ toClient' = toClient
          \/ toClient' = << >>
          \/ \E r \in RouteIds : Sent(toClient, toClient', <<"request", r>>)
          \/ \E r \in RouteIds : Sent(toClient, toClient', <<"cancel", r>>)
          \/ \E type, id : Taken(toClient, toClient', <<type, id>>)
      BY <1>6, ToClientSteps DEF DaemonSide
    <2> QED BY <1>5, <2>1, <2>2, <2>3
  <1> QED BY <1>1, <1>2, <1>3, <1>4, <1>6

\* The other steps change no route, and start no handler.
LEMMA RoutesElse ==
    ASSUME EngineInvariant, [EngineNext]_engineVars,
           \A r \in RouteIds : ~HandleIncomingRequest(r) /\ ~DaemonRoutes(r) /\ ~DaemonCancels(r),
           \A type \in {"request", "cancel", "response"}, id \in ReqIds \cup RouteIds :
                ~DaemonReceives(type, id)
    PROVE  routed' = routed /\ inbound' \subseteq inbound /\ tasks' \subseteq tasks
PROOF
  <1>1. ASSUME DropAll PROVE inbound' \subseteq inbound
    BY <1>1 DEF DropAll
  <1>2. ASSUME NEW i \in ReqIds, Request(i) \/ Abandon(i) \/ LateGraceOver(i)
                                  \/ HandleResponse(i) \/ DaemonSide(i)
        PROVE  routed' = routed /\ inbound' \subseteq inbound /\ tasks' \subseteq tasks
    BY <1>1, <1>2 DEF Request, Abandon, LateGraceOver, HandleResponse, DaemonSide, DaemonAnswers,
         DaemonAnswersAgain, TombstoneRemoved, ProtocolViolation, daemonVars, incoming
  <1>3. ASSUME NEW r \in RouteIds, \/ InboundTimeout(r) \/ HandlerSettles(r)
                                   \/ HandleCancel(r) \/ CompletionGraceOver(r)
        PROVE  routed' = routed /\ inbound' \subseteq inbound /\ tasks' \subseteq tasks
    BY <1>1, <1>3 DEF InboundTimeout, HandlerSettles, HandleCancel, CompletionGraceOver, ProtocolViolation,
         daemonVars
  <1>4. ASSUME CloseBegins \/ FailConnection \/ SocketClosed \/ UNCHANGED engineVars
        PROVE  routed' = routed /\ inbound' \subseteq inbound /\ tasks' \subseteq tasks
    BY <1>1, <1>4 DEF CloseBegins, FailConnection, SocketClosed, engineVars, daemonVars, incoming
  <1> QED BY <1>2, <1>3, <1>4 DEF EngineNext, DaemonSide

\* The traffic of the routes to the client.
LEMMA RouteTrafficKept ==
    ASSUME EngineInvariant, [EngineNext]_engineVars
    PROVE  \A r \in RouteIds : RouteTraffic(r)'
PROOF
  <1>0. EngineTypeOK /\ \A r \in RouteIds : RouteTraffic(r)
    BY DEF EngineInvariant
  <1>r. toClient \in Seq(Messages)
        /\ \A type \in {"request", "cancel", "response"}, r \in RouteIds : <<type, r>> \in Messages
    BY <1>0 DEF EngineTypeOK, Queues, Messages
  <1>1. ASSUME NEW s \in RouteIds, DaemonRoutes(s), NEW r \in RouteIds PROVE RouteTraffic(r)'
    <2>1. /\ routed[s] = "unused" /\ routed' = [routed EXCEPT ![s] = "active"]
          /\ UNCHANGED <<inbound, tasks, toDaemon>>
      BY <1>1 DEF DaemonRoutes, incoming
    <2>2. Sent(toClient, toClient', <<"request", s>>)
      BY <1>r, <1>1, AppendSends DEF DaemonRoutes
    <2>3. CASE r = s
      BY <1>0, <2>1, <2>2, <2>3 DEF RouteTraffic, Sent, EngineTypeOK
    <2>4. CASE r # s
      BY <1>0, <2>1, <2>2, <2>4 DEF RouteTraffic, Sent, EngineTypeOK
    <2> QED BY <2>3, <2>4
  <1>2. ASSUME NEW s \in RouteIds, DaemonCancels(s), NEW r \in RouteIds PROVE RouteTraffic(r)'
    <2>1. /\ routed[s] = "active" /\ routed' = [routed EXCEPT ![s] = "cancelled"]
          /\ UNCHANGED <<inbound, tasks, toDaemon>>
      BY <1>2 DEF DaemonCancels, incoming
    <2>2. Sent(toClient, toClient', <<"cancel", s>>)
      BY <1>r, <1>2, AppendSends DEF DaemonCancels
    <2>3. CASE r = s
      BY <1>0, <2>1, <2>2, <2>3 DEF RouteTraffic, Sent, EngineTypeOK
    <2>4. CASE r # s
      BY <1>0, <2>1, <2>2, <2>4 DEF RouteTraffic, Sent, EngineTypeOK
    <2> QED BY <2>3, <2>4
  <1>3. ASSUME NEW type \in {"request", "cancel", "response"}, NEW id \in ReqIds \cup RouteIds,
               DaemonReceives(type, id), NEW r \in RouteIds
        PROVE  RouteTraffic(r)'
    <2>1. Taken(toDaemon, toDaemon', <<type, id>>)
      BY <1>0, <1>3, DaemonTakes
    <2>2. UNCHANGED <<inbound, tasks, toClient>>
      BY <1>3 DEF DaemonReceives, incoming
    <2>3. CASE routed'[r] = routed[r]
      BY <1>0, <2>1, <2>2, <2>3 DEF RouteTraffic, Taken
    <2>4. CASE routed'[r] # routed[r]
      <3>1. r = id /\ type = "response" /\ routed'[r] = "done"
        BY <1>0, <1>3, <2>4 DEF DaemonReceives, EngineTypeOK
      <3> QED BY <1>0, <2>1, <2>2, <3>1 DEF RouteTraffic, Taken
    <2> QED BY <2>3, <2>4
  <1>4. ASSUME NEW s \in RouteIds, HandleIncomingRequest(s), toDaemon' = toDaemon, NEW r \in RouteIds
        PROVE  RouteTraffic(r)'
    <2>1. Taken(toClient, toClient', <<"request", s>>)
      BY <1>0, <1>4, ReceivesTakes DEF HandleIncomingRequest
    <2>2. routed' = routed /\ inbound' \subseteq inbound \cup {s} /\ tasks' \subseteq tasks \cup {s}
      BY <1>4 DEF HandleIncomingRequest, daemonVars
    <2> QED BY <1>0, <1>4, <2>1, <2>2 DEF RouteTraffic, Taken
  <1>5. ASSUME routed' = routed, inbound' \subseteq inbound, tasks' \subseteq tasks, NEW r \in RouteIds,
               \/ toDaemon' = toDaemon
               \/ toDaemon' = << >>
               \/ \E i \in ReqIds, type \in {"request", "cancel"} : Sent(toDaemon, toDaemon', <<type, i>>)
               \/ \E s \in RouteIds :
                    /\ s \notin inbound' /\ ~In(<<"request", s>>, toClient')
                    /\ s \in inbound \/ In(<<"request", s>>, toClient)
                    /\ Sent(toDaemon, toDaemon', <<"response", s>>)
               \/ \E type, id : Taken(toDaemon, toDaemon', <<type, id>>),
               \/ toClient' = toClient
               \/ toClient' = << >>
               \/ \E i : Sent(toClient, toClient', <<"response", i>>)
               \/ \E type, id : Taken(toClient, toClient', <<type, id>>)
        PROVE  RouteTraffic(r)'
    <2>1. /\ Once(<<"request", r>>, toClient') /\ Once(<<"cancel", r>>, toClient')
          /\ Before(<<"request", r>>, <<"cancel", r>>, toClient')
          /\ In(<<"request", r>>, toClient') => In(<<"request", r>>, toClient)
          /\ In(<<"cancel", r>>, toClient') => In(<<"cancel", r>>, toClient)
      BY <1>0, <1>5, QueueEmpty DEF RouteTraffic, Sent, Taken
    <2>2. /\ Once(<<"response", r>>, toDaemon')
          /\ \/ In(<<"response", r>>, toDaemon') => In(<<"response", r>>, toDaemon)
             \/ /\ r \notin inbound' /\ ~In(<<"request", r>>, toClient')
                /\ r \in inbound \/ In(<<"request", r>>, toClient)
      BY <1>0, <1>5, QueueEmpty DEF RouteTraffic, Sent, Taken
    <2> QED BY <1>0, <1>5, <2>1, <2>2 DEF RouteTraffic
  <1>6. ASSUME NEW s \in RouteIds, HandleIncomingRequest(s), toDaemon' # toDaemon, NEW r \in RouteIds
        PROVE  RouteTraffic(r)'
    <2>1. Taken(toClient, toClient', <<"request", s>>)
      BY <1>0, <1>6, ReceivesTakes DEF HandleIncomingRequest
    <2>2. routed' = routed /\ inbound' = inbound /\ tasks' = tasks /\ Complete(s) /\ s \notin inbound
      BY <1>6 DEF HandleIncomingRequest, daemonVars
    <2>3. Sent(toDaemon, toDaemon', <<"response", s>>)
      BY <1>0, <2>2, CompleteEffects
    <2>4. In(<<"request", s>>, toClient) /\ ~In(<<"request", s>>, toClient')
      BY <1>0, <2>1 DEF Taken, RouteTraffic
    <2> QED BY <1>5, <2>1, <2>2, <2>3, <2>4
  <1>7. ASSUME \A r \in RouteIds : ~HandleIncomingRequest(r) /\ ~DaemonRoutes(r) /\ ~DaemonCancels(r),
               \A type \in {"request", "cancel", "response"}, id \in ReqIds \cup RouteIds :
                    ~DaemonReceives(type, id)
        PROVE  \A r \in RouteIds : RouteTraffic(r)'
    <2>1. routed' = routed /\ inbound' \subseteq inbound /\ tasks' \subseteq tasks
      BY <1>7, RoutesElse
    <2>2. \/ toDaemon' = toDaemon
          \/ toDaemon' = << >>
          \/ \E i \in ReqIds, type \in {"request", "cancel"} : Sent(toDaemon, toDaemon', <<type, i>>)
          \/ \E s \in RouteIds :
               /\ s \notin inbound' /\ ~In(<<"request", s>>, toClient')
               /\ s \in inbound \/ In(<<"request", s>>, toClient)
               /\ Sent(toDaemon, toDaemon', <<"response", s>>)
      BY <1>7, ToDaemonSteps
    <2>3. \/ toClient' = toClient
          \/ toClient' = << >>
          \/ \E i : Sent(toClient, toClient', <<"response", i>>)
          \/ \E type, id : Taken(toClient, toClient', <<type, id>>)
      BY <1>7, ToClientSteps
    <2> QED BY <1>5, <2>1, <2>2, <2>3
  <1> QED BY <1>1, <1>2, <1>3, <1>4, <1>6, <1>7

-----------------------------------------------------------------------------
(* What the two ends conclude from a message.                              *)

\* A response to a route that is done would be an offence; none is under way.
LEMMA SettlementKept ==
    ASSUME EngineInvariant, [EngineNext]_engineVars
    PROVE  SingleSettlement'
PROOF
  <1>0. EngineTypeOK /\ Directed /\ (\A r \in RouteIds : RouteTraffic(r)) /\ offence # "response"
    BY DEF EngineInvariant, SingleSettlement
  <1>1. ASSUME NEW i \in ReqIds, Request(i) \/ Abandon(i) \/ LateGraceOver(i)
                                  \/ HandleResponse(i) \/ DaemonSide(i)
        PROVE  offence' = offence
    BY <1>1 DEF Request, Abandon, LateGraceOver, HandleResponse, DaemonSide, DaemonAnswers,
         DaemonAnswersAgain, TombstoneRemoved, daemonVars
  <1>2. ASSUME NEW r \in RouteIds, \/ HandleIncomingRequest(r) \/ InboundTimeout(r) \/ HandlerSettles(r)
                                   \/ HandleCancel(r) \/ CompletionGraceOver(r)
                                   \/ DaemonRoutes(r) \/ DaemonCancels(r)
        PROVE  offence' = offence
    BY <1>2 DEF HandleIncomingRequest, InboundTimeout, HandlerSettles, HandleCancel, CompletionGraceOver,
         DaemonRoutes, DaemonCancels, daemonVars
  <1>3. ASSUME NEW type \in {"request", "cancel", "response"}, NEW id \in ReqIds \cup RouteIds,
               DaemonReceives(type, id)
        PROVE  offence' # "response"
    <2>1. CASE type = "response"
      <3>1. In(<<"response", id>>, toDaemon)
        BY <1>0, <1>3, <2>1, DaemonTakes DEF Taken
      <3>2. id \in RouteIds /\ routed[id] # "done"
        BY <1>0, <3>1 DEF Directed, RouteTraffic
      <3> QED BY <1>0, <1>3, <2>1, <3>2 DEF DaemonReceives
    <2>2. CASE type # "response"
      BY <1>0, <1>3, <2>2 DEF DaemonReceives, Punish
    <2> QED BY <2>1, <2>2
  <1>4. ASSUME CloseBegins \/ FailConnection \/ SocketClosed \/ UNCHANGED engineVars
        PROVE  offence' = offence
    BY <1>4 DEF CloseBegins, FailConnection, SocketClosed, engineVars, daemonVars
  <1> QED BY <1>0, <1>1, <1>2, <1>3, <1>4 DEF EngineNext, DaemonSide, SingleSettlement

\* Without an eviction, the only message that the engine does not expect is a second
\* or too late response.
LEMMA CrossingsKept ==
    ASSUME EngineInvariant, [EngineNext]_engineVars
    PROVE  CrossingsTolerated'
PROOF
  <1>0. /\ EngineTypeOK /\ Expected /\ (\A r \in RouteIds : RouteTraffic(r))
        /\ (~evicted => violation \subseteq untimely)
    BY DEF EngineInvariant, CrossingsTolerated
  <1>s. late \in Seq(ReqIds) /\ completions \in Seq(RouteIds)
    BY <1>0 DEF EngineTypeOK
  <1>m. (evicted => evicted') /\ untimely \subseteq untimely'
    BY OnlyOnward
  <1>1. ASSUME NEW i \in ReqIds, HandleResponse(i), violation' # violation, ~evicted
        PROVE  violation' \subseteq untimely
    <2>1. Receives("response", i) /\ i \notin pending /\ ~Contains(late, i) /\ ProtocolViolation(i)
      BY <1>1 DEF HandleResponse
    <2>2. Receiving /\ In(<<"response", i>>, toClient)
      BY <1>0, <2>1, ReceivesTakes DEF Taken
    <2>3. ~In(i, late)
      BY <1>s, <2>1 DEF Contains, In
    <2>4. violation = {} /\ violation' = {i}
      BY <1>1, <2>1 DEF ProtocolViolation
    <2> QED BY <1>0, <1>1, <2>1, <2>2, <2>3, <2>4 DEF Expected
  <1>2. ASSUME NEW r \in RouteIds, HandleCancel(r), violation' # violation PROVE evicted
    <2>1. Receives("cancel", r) /\ r \notin inbound /\ ~Contains(completions, r) /\ ProtocolViolation(r)
      BY <1>2 DEF HandleCancel
    <2>2. Receiving /\ In(<<"cancel", r>>, toClient) /\ ~In(<<"request", r>>, toClient)
      BY <1>0, <2>1, ReceivesTakes DEF Taken, RouteTraffic
    <2>3. ~In(r, completions)
      BY <1>s, <2>1 DEF Contains, In
    <2>4. violation = {}
      BY <1>2, <2>1 DEF ProtocolViolation
    <2> QED BY <1>0, <2>1, <2>2, <2>3, <2>4 DEF Expected
  <1>3. ASSUME NEW i \in ReqIds, Request(i) \/ Abandon(i) \/ LateGraceOver(i) \/ DaemonSide(i)
        PROVE  violation' = violation
    BY <1>3 DEF Request, Abandon, LateGraceOver, DaemonSide, DaemonAnswers, DaemonAnswersAgain,
         TombstoneRemoved
  <1>4. ASSUME NEW r \in RouteIds, \/ HandleIncomingRequest(r) \/ InboundTimeout(r) \/ HandlerSettles(r)
                                   \/ CompletionGraceOver(r) \/ DaemonRoutes(r) \/ DaemonCancels(r)
        PROVE  violation' = violation
    BY <1>4 DEF HandleIncomingRequest, InboundTimeout, HandlerSettles, CompletionGraceOver,
         DaemonRoutes, DaemonCancels
  <1>5. ASSUME NEW type, NEW id, DaemonReceives(type, id) PROVE violation' = violation
    BY <1>5 DEF DaemonReceives
  <1>6. ASSUME CloseBegins \/ FailConnection \/ SocketClosed \/ UNCHANGED engineVars
        PROVE  violation' = violation
    BY <1>6 DEF CloseBegins, FailConnection, SocketClosed, engineVars
  <1>7. violation' = violation \/ evicted \/ violation' \subseteq untimely
    BY <1>1, <1>2, <1>3, <1>4, <1>5, <1>6 DEF EngineNext, DaemonSide
  <1> QED BY <1>0, <1>m, <1>7 DEF CrossingsTolerated

\* The engine goes on expecting the answers that may come.
LEMMA AnswersExpected ==
    ASSUME EngineInvariant, [EngineNext]_engineVars, Receiving', ~evicted', violation' = {},
           NEW i \in ReqIds, i \notin untimely',
           asked'[i] \in Answerable \/ In(<<"response", i>>, toClient')
    PROVE  i \in pending' \/ In(i, late')
PROOF
  <1>0. EngineTypeOK /\ Directed /\ (\A j \in ReqIds : RequestTraffic(j))
    BY DEF EngineInvariant
  <1>1. /\ i \notin untimely /\ violation = {}
        /\ asked[i] \in Answerable \/ In(<<"response", i>>, toClient) => i \in pending \/ In(i, late)
    BY OnlyOnward DEF EngineInvariant, Expected
  <1>t. /\ late \in Seq(ReqIds) /\ Len(late) <= MaxLate /\ toClient \in Seq(Messages)
        /\ asked \in [ReqIds -> AskedStates]
        /\ \A j \in ReqIds : <<"response", j>> \in Messages
    BY <1>0 DEF EngineTypeOK, Queues, Messages
  <1>2. ASSUME NEW j \in ReqIds, Request(j) PROVE i \in pending' \/ In(i, late')
    BY <1>t, <1>1, <1>2 DEF Request
  <1>3. ASSUME NEW j \in ReqIds, Abandon(j) PROVE i \in pending' \/ In(i, late')
    <2>1. asked' = asked /\ toClient' = toClient /\ pending' = pending \ {j}
      BY <1>3 DEF Abandon, daemonVars
    <2>2. Len(late) < MaxLate
      BY <1>0, <1>t, <1>3, EvictsBoolean DEF Abandon
    <2>3. In(i, late') <=> In(i, late) \/ i = j
      BY <1>t, <1>3, <2>2, Remembered DEF Abandon
    <2> QED BY <1>1, <2>1, <2>3
  <1>4. ASSUME NEW j \in ReqIds, LateGraceOver(j) PROVE i \in pending' \/ In(i, late')
    <2>1. asked' = asked /\ toClient' = toClient /\ pending' = pending
      BY <1>4 DEF LateGraceOver, daemonVars
    <2>2. (asked[j] \in Answerable => j \in untimely') /\ ~In(<<"response", j>>, toClient)
      BY <1>t, <1>4 DEF LateGraceOver, Contains, In, Answerable
    <2>3. In(i, late) /\ i # j => In(i, late')
      BY <1>t, <1>4, Forgotten DEF LateGraceOver
    <2> QED BY <1>1, <2>1, <2>2, <2>3
  <1>5. ASSUME NEW j \in ReqIds, HandleResponse(j) PROVE i \in pending' \/ In(i, late')
    <2>1. asked' = asked /\ Receives("response", j)
      BY <1>5 DEF HandleResponse, daemonVars
    <2>2. Taken(toClient, toClient', <<"response", j>>)
      BY <1>0, <2>1, ReceivesTakes
    <2>3. asked[j] \notin Answerable /\ (i = j => ~In(<<"response", j>>, toClient'))
      BY <1>0, <1>1, <2>2 DEF RequestTraffic, Taken, Answerable
    <2>4. i # j /\ (i \in pending \/ In(i, late))
      BY <1>1, <2>1, <2>2, <2>3 DEF Taken
    <2>5. \A id : ~ProtocolViolation(id)
      BY DEF ProtocolViolation
    <2>6. ASSUME In(i, late), NEW n \in DOMAIN late, late[n] = j, late' = RemoveAt(late, n) PROVE In(i, late')
      BY <1>t, <2>4, <2>6, Forgotten
    <2> QED BY <1>5, <2>4, <2>5, <2>6 DEF HandleResponse
  <1>6. ASSUME NEW j \in ReqIds, DaemonSide(j) PROVE i \in pending' \/ In(i, late')
    <2>1. pending' = pending /\ late' = late
      BY <1>6 DEF DaemonSide, DaemonAnswers, DaemonAnswersAgain, TombstoneRemoved, outgoing
    <2>2. /\ asked'[j] \notin Answerable /\ (i # j => asked'[i] = asked[i])
          /\ asked[j] \in Answerable \/ toClient' = toClient \/ j \in untimely'
      BY <1>t, <1>6 DEF DaemonSide, DaemonAnswers, DaemonAnswersAgain, TombstoneRemoved, Answerable
    <2>3. Sent(toClient, toClient', <<"response", j>>) \/ toClient' = toClient
      BY <1>t, <1>6, AppendSends DEF DaemonSide, DaemonAnswers, DaemonAnswersAgain, TombstoneRemoved
    <2> QED BY <1>1, <2>1, <2>2, <2>3 DEF Sent
  <1>7. ASSUME NEW type \in {"request", "cancel", "response"}, NEW id \in ReqIds \cup RouteIds,
               DaemonReceives(type, id)
        PROVE  i \in pending' \/ In(i, late')
    <2>1. pending' = pending /\ late' = late /\ toClient' = toClient
      BY <1>7 DEF DaemonReceives, outgoing
    <2>2. CASE type = "request" /\ id = i
      <3>1. In(<<"request", i>>, toDaemon)
        BY <1>0, <1>7, <2>2, DaemonTakes DEF Taken
      <3> QED BY <1>0, <1>1, <2>1, <3>1 DEF RequestTraffic, Answerable
    <2>3. CASE ~(type = "request" /\ id = i)
      <3>1. asked'[i] \in Answerable => asked[i] \in Answerable
        BY <1>t, <1>7, <2>3 DEF DaemonReceives, Answerable
      <3> QED BY <1>1, <2>1, <3>1
    <2> QED BY <2>2, <2>3
  <1>8. ASSUME UNCHANGED <<asked, pending, late>>,
               In(<<"response", i>>, toClient') => In(<<"response", i>>, toClient)
        PROVE  i \in pending' \/ In(i, late')
    BY <1>1, <1>8
  <1>9. ASSUME NEW r \in RouteIds, \/ HandleIncomingRequest(r) \/ InboundTimeout(r) \/ HandlerSettles(r)
                                   \/ HandleCancel(r) \/ CompletionGraceOver(r)
                                   \/ DaemonRoutes(r) \/ DaemonCancels(r)
        PROVE  i \in pending' \/ In(i, late')
    <2>1. \A id : ~ProtocolViolation(id)
      BY DEF ProtocolViolation
    <2>2. UNCHANGED <<asked, pending, late>>
      BY <1>9, <2>1 DEF HandleIncomingRequest, InboundTimeout, HandlerSettles, HandleCancel,
           CompletionGraceOver, DaemonRoutes, DaemonCancels, daemonVars, outgoing
    <2>3. HandleIncomingRequest(r) \/ HandleCancel(r) => \A m : In(m, toClient') => In(m, toClient)
      BY <1>0, ReceivesTakes DEF HandleIncomingRequest, HandleCancel, Taken
    <2>4. InboundTimeout(r) \/ HandlerSettles(r) \/ CompletionGraceOver(r) => toClient' = toClient
      BY DEF InboundTimeout, HandlerSettles, CompletionGraceOver
    <2>5. <<"request", r>> \in Messages /\ <<"cancel", r>> \in Messages
      BY DEF Messages
    <2>6. DaemonRoutes(r) => Sent(toClient, toClient', <<"request", r>>)
      BY <1>t, <2>5, AppendSends DEF DaemonRoutes
    <2>7. DaemonCancels(r) => Sent(toClient, toClient', <<"cancel", r>>)
      BY <1>t, <2>5, AppendSends DEF DaemonCancels
    <2>8. In(<<"response", i>>, toClient') => In(<<"response", i>>, toClient)
      BY <1>9, <2>3, <2>4, <2>6, <2>7 DEF Sent
    <2> QED BY <1>8, <2>2, <2>8
  <1>10. ASSUME CloseBegins \/ FailConnection \/ SocketClosed \/ UNCHANGED engineVars
         PROVE  i \in pending' \/ In(i, late')
    <2>1. CloseBegins \/ UNCHANGED engineVars
      BY <1>10 DEF FailConnection, SocketClosed, Receiving
    <2> QED BY <1>8, <2>1 DEF CloseBegins, engineVars, daemonVars, outgoing
  <1> QED BY <1>2, <1>3, <1>4, <1>5, <1>6, <1>7, <1>9, <1>10 DEF EngineNext, DaemonSide

\* The engine goes on expecting the cancellations that may come.
LEMMA CancellationsExpected ==
    ASSUME EngineInvariant, [EngineNext]_engineVars, Receiving', ~evicted', violation' = {},
           NEW r \in RouteIds, routed'[r] = "active" \/ In(<<"cancel", r>>, toClient')
    PROVE  In(<<"request", r>>, toClient') \/ r \in inbound' \/ In(r, completions')
PROOF
  <1>0. EngineTypeOK /\ (\A s \in RouteIds : RouteTraffic(s))
    BY DEF EngineInvariant
  <1>1. routed[r] = "active" \/ In(<<"cancel", r>>, toClient)
        => In(<<"request", r>>, toClient) \/ r \in inbound \/ In(r, completions)
    BY OnlyOnward DEF EngineInvariant, Expected
  <1>t. /\ completions \in Seq(RouteIds) /\ Len(completions) <= MaxLate /\ toClient \in Seq(Messages)
        /\ routed \in [RouteIds -> {"unused", "active", "cancelled", "done"}]
        /\ \A s \in RouteIds : <<"request", s>> \in Messages /\ <<"cancel", s>> \in Messages
        /\ \A j \in ReqIds : <<"response", j>> \in Messages
    BY <1>0 DEF EngineTypeOK, Queues, Messages
  <1>p. \A id : ~ProtocolViolation(id)
    BY DEF ProtocolViolation
  <1>2. ASSUME NEW s \in RouteIds, HandleIncomingRequest(s)
        PROVE  In(<<"request", r>>, toClient') \/ r \in inbound' \/ In(r, completions')
    <2>1. Taken(toClient, toClient', <<"request", s>>) /\ routed' = routed
      BY <1>0, <1>2, ReceivesTakes DEF HandleIncomingRequest, daemonVars
    <2>2. Complete(s) => \A m : In(m, completions') <=> In(m, completions) \/ m = s
      BY <1>0, CompleteEffects
    <2>3. \/ Complete(s) /\ inbound' = inbound
          \/ inbound' = inbound \cup {s} /\ completions' = completions
      BY <1>2 DEF HandleIncomingRequest
    <2> QED BY <1>1, <2>1, <2>2, <2>3 DEF Taken
  <1>3. ASSUME NEW s \in RouteIds, InboundTimeout(s) \/ HandlerSettles(s)
        PROVE  In(<<"request", r>>, toClient') \/ r \in inbound' \/ In(r, completions')
    <2>1. UNCHANGED <<toClient, routed>>
      BY <1>3 DEF InboundTimeout, HandlerSettles, daemonVars
    <2>2. Complete(s) => \A m : In(m, completions') <=> In(m, completions) \/ m = s
      BY <1>0, CompleteEffects
    <2>3. \/ Complete(s) /\ inbound' = inbound \ {s}
          \/ inbound' = inbound /\ completions' = completions
      BY <1>3 DEF InboundTimeout, HandlerSettles
    <2> QED BY <1>1, <2>1, <2>2, <2>3
  <1>4. ASSUME NEW s \in RouteIds, HandleCancel(s)
        PROVE  In(<<"request", r>>, toClient') \/ r \in inbound' \/ In(r, completions')
    <2>1. Taken(toClient, toClient', <<"cancel", s>>) /\ routed' = routed
      BY <1>0, <1>4, ReceivesTakes DEF HandleCancel, daemonVars
    <2>2. Complete(s) => \A m : In(m, completions') <=> In(m, completions) \/ m = s
      BY <1>0, CompleteEffects
    <2>3. r # s
      BY <1>0, <2>1 DEF Taken, RouteTraffic
    <2>4. \/ Complete(s) /\ inbound' = inbound \ {s}
          \/ /\ inbound' = inbound
             /\ \E n \in DOMAIN completions :
                    completions[n] = s /\ completions' = RemoveAt(completions, n)
      BY <1>p, <1>4 DEF HandleCancel
    <2>5. ASSUME NEW n \in DOMAIN completions, completions[n] = s, completions' = RemoveAt(completions, n),
                 In(r, completions)
          PROVE  In(r, completions')
      BY <1>t, <2>3, <2>5, Forgotten
    <2> QED BY <1>1, <2>1, <2>2, <2>3, <2>4, <2>5 DEF Taken
  <1>5. ASSUME NEW s \in RouteIds, CompletionGraceOver(s)
        PROVE  In(<<"request", r>>, toClient') \/ r \in inbound' \/ In(r, completions')
    <2>1. UNCHANGED <<toClient, routed, inbound>>
      BY <1>5 DEF CompletionGraceOver, daemonVars
    <2>2. routed[s] = "done" /\ ~In(<<"cancel", s>>, toClient)
      BY <1>t, <1>5 DEF CompletionGraceOver, Contains, In
    <2>3. In(r, completions) /\ r # s => In(r, completions')
      BY <1>t, <1>5, Forgotten DEF CompletionGraceOver
    <2> QED BY <1>1, <2>1, <2>2, <2>3
  <1>6. ASSUME NEW s \in RouteIds, DaemonRoutes(s)
        PROVE  In(<<"request", r>>, toClient') \/ r \in inbound' \/ In(r, completions')
    <2>1. UNCHANGED <<inbound, completions>> /\ routed' = [routed EXCEPT ![s] = "active"]
      BY <1>6 DEF DaemonRoutes, incoming
    <2>2. Sent(toClient, toClient', <<"request", s>>) /\ In(<<"request", s>>, toClient')
      BY <1>t, <1>6, AppendSends DEF DaemonRoutes
    <2> QED BY <1>t, <1>1, <2>1, <2>2 DEF Sent
  <1>7. ASSUME NEW s \in RouteIds, DaemonCancels(s)
        PROVE  In(<<"request", r>>, toClient') \/ r \in inbound' \/ In(r, completions')
    <2>1. /\ UNCHANGED <<inbound, completions>>
          /\ routed[s] = "active" /\ routed' = [routed EXCEPT ![s] = "cancelled"]
      BY <1>7 DEF DaemonCancels, incoming
    <2>2. Sent(toClient, toClient', <<"cancel", s>>)
      BY <1>t, <1>7, AppendSends DEF DaemonCancels
    <2> QED BY <1>t, <1>1, <2>1, <2>2 DEF Sent
  <1>8. ASSUME UNCHANGED <<inbound, completions>>, routed'[r] = "active" => routed[r] = "active",
               \A type \in {"request", "cancel"} :
                    In(<<type, r>>, toClient') <=> In(<<type, r>>, toClient)
        PROVE  In(<<"request", r>>, toClient') \/ r \in inbound' \/ In(r, completions')
    BY <1>1, <1>8
  <1>9. ASSUME NEW i \in ReqIds, Request(i) \/ Abandon(i) \/ LateGraceOver(i)
                                  \/ HandleResponse(i) \/ DaemonSide(i)
        PROVE  In(<<"request", r>>, toClient') \/ r \in inbound' \/ In(r, completions')
    <2>1. UNCHANGED <<inbound, completions, routed>>
      BY <1>p, <1>9 DEF Request, Abandon, LateGraceOver, HandleResponse, DaemonSide, DaemonAnswers,
           DaemonAnswersAgain, TombstoneRemoved, daemonVars, incoming
    <2>2. Request(i) \/ Abandon(i) \/ LateGraceOver(i) => toClient' = toClient
      BY DEF Request, Abandon, LateGraceOver
    <2>3. HandleResponse(i) => Taken(toClient, toClient', <<"response", i>>)
      BY <1>0, ReceivesTakes DEF HandleResponse
    <2>4. DaemonSide(i) => Sent(toClient, toClient', <<"response", i>>) \/ toClient' = toClient
      BY <1>t, AppendSends DEF DaemonSide, DaemonAnswers, DaemonAnswersAgain, TombstoneRemoved
    <2>5. \A type \in {"request", "cancel"} : In(<<type, r>>, toClient') <=> In(<<type, r>>, toClient)
      BY <1>9, <2>2, <2>3, <2>4 DEF Taken, Sent
    <2> QED BY <1>8, <2>1, <2>5
  <1>10. ASSUME NEW type, NEW id, DaemonReceives(type, id)
         PROVE  In(<<"request", r>>, toClient') \/ r \in inbound' \/ In(r, completions')
    <2>1. UNCHANGED <<inbound, completions, toClient>>
      BY <1>10 DEF DaemonReceives, incoming
    <2>2. routed'[r] = "active" => routed[r] = "active"
      BY <1>t, <1>10 DEF DaemonReceives
    <2> QED BY <1>8, <2>1, <2>2
  <1>11. ASSUME CloseBegins \/ FailConnection \/ SocketClosed \/ UNCHANGED engineVars
         PROVE  In(<<"request", r>>, toClient') \/ r \in inbound' \/ In(r, completions')
    <2>1. CloseBegins \/ UNCHANGED engineVars
      BY <1>11 DEF FailConnection, SocketClosed, Receiving
    <2>2. UNCHANGED <<inbound, completions, routed, toClient>>
      BY <2>1 DEF CloseBegins, engineVars, daemonVars, incoming
    <2> QED BY <1>8, <2>2
  <1> QED BY <1>2, <1>3, <1>4, <1>5, <1>6, <1>7, <1>9, <1>10, <1>11 DEF EngineNext, DaemonSide

-----------------------------------------------------------------------------
(* The theorems.                                                           *)

\* It all holds at first.
LEMMA EngineStarts ==
    ASSUME EngineInit
    PROVE  EngineInvariant
PROOF
  <1>1. /\ pending = {} /\ inbound = {} /\ tasks = {} /\ running = 0
        /\ late = << >> /\ completions = << >> /\ toDaemon = << >> /\ toClient = << >>
        /\ asked = [i \in ReqIds |-> "unused"] /\ routed = [r \in RouteIds |-> "unused"]
        /\ violation = {} /\ untimely = {} /\ evicted = FALSE /\ offence = "none"
    BY DEF EngineInit
  <1>2. EngineTypeOK
    <2>1. /\ << >> \in Seq(ReqIds) /\ << >> \in Seq(RouteIds) /\ << >> \in Queues(ReqIds \cup RouteIds)
          /\ Len(<< >>) <= MaxLate /\ 0 \in 0 .. MaxInbound
      BY EngineConstants DEF Queues
    <2> QED BY <2>1 DEF EngineInit, EngineTypeOK, AskedStates
  <1>3. Directed
    BY <1>1, QueueEmpty DEF Directed
  <1>4. \A i \in ReqIds : RequestTraffic(i)
    BY <1>1, QueueEmpty DEF RequestTraffic
  <1>5. \A r \in RouteIds : RouteTraffic(r)
    BY <1>1, QueueEmpty DEF RouteTraffic
  <1>6. Expected
    BY <1>1, QueueEmpty DEF Expected, Answerable
  <1>7. SingleSettlement /\ CrossingsTolerated
    BY <1>1 DEF SingleSettlement, CrossingsTolerated
  <1>8. IsFiniteSet(tasks) /\ SlotsHeld
    BY <1>1, FS_EmptySet DEF SlotsHeld
  <1> QED BY <1>2, <1>3, <1>4, <1>5, <1>6, <1>7, <1>8 DEF EngineInvariant

\* Every step keeps it.
LEMMA EngineSteps ==
    ASSUME EngineInvariant, [EngineNext]_engineVars
    PROVE  EngineInvariant'
PROOF
  <1>1. Expected'
    <2>1. ASSUME Receiving', ~evicted', violation' = {}, NEW i \in ReqIds \ untimely',
                 asked'[i] \in Answerable \/ In(<<"response", i>>, toClient')
          PROVE  i \in pending' \/ In(i, late')
      BY <2>1, AnswersExpected
    <2>2. ASSUME Receiving', ~evicted', violation' = {}, NEW r \in RouteIds,
                 routed'[r] = "active" \/ In(<<"cancel", r>>, toClient')
          PROVE  In(<<"request", r>>, toClient') \/ r \in inbound' \/ In(r, completions')
      BY <2>2, CancellationsExpected
    <2> QED BY <2>1, <2>2 DEF Expected, Receiving, Answerable
  <1>2. EngineTypeOK' /\ Directed'
    BY EngineTypesKept, DirectedKept
  <1>3. (\A i \in ReqIds : RequestTraffic(i)') /\ (\A r \in RouteIds : RouteTraffic(r)')
    BY RequestTrafficKept, RouteTrafficKept
  <1>4. SingleSettlement' /\ CrossingsTolerated' /\ IsFiniteSet(tasks') /\ SlotsHeld'
    BY SettlementKept, CrossingsKept, SlotsKept
  <1> QED BY <1>1, <1>2, <1>3, <1>4 DEF EngineInvariant

\* The types of the engine and of the queues, what may be under way in them, and
\* what the engine expects, hold throughout.
THEOREM EngineInvariantAlways == EngineSpec => []EngineInvariant
PROOF
  <1>1. EngineInit => EngineInvariant
    BY EngineStarts
  <1>2. EngineInvariant /\ [EngineNext]_engineVars => EngineInvariant'
    BY EngineSteps
  <1> QED BY <1>1, <1>2, PTL DEF EngineSpec

\* Whichever of the handler, its timeout, a cancellation and the end of the
\* connection settles a route, the daemon gets one response to it at most.
THEOREM EngineSettlesOnce == EngineSpec => []SingleSettlement
PROOF
  <1>1. EngineInvariant => SingleSettlement
    BY DEF EngineInvariant
  <1> QED BY <1>1, EngineInvariantAlways, PTL

\* An answer or a cancellation that crosses the other end's cancellation, timeout or
\* answer never ends the connection, unless a full grace set forgot one; only the
\* second answer to a request, or one that comes after the grace, does.
THEOREM EngineToleratesCrossings == EngineSpec => []CrossingsTolerated
PROOF
  <1>1. EngineInvariant => CrossingsTolerated
    BY DEF EngineInvariant
  <1> QED BY <1>1, EngineInvariantAlways, PTL

\* #runningInboundHandlers counts the handlers that have not settled, and with
\* the types never exceeds the maximum.
THEOREM EngineHoldsSlots == EngineSpec => []SlotsHeld
PROOF
  <1>1. EngineInvariant => SlotsHeld
    BY DEF EngineInvariant
  <1> QED BY <1>1, EngineInvariantAlways, PTL

\* No handler, timer or abort that comes after the close event leaves something
\* in the engine.
THEOREM EngineClosedIsEmpty == EngineSpec => []ClosedIsEmpty
PROOF
  <1>1. EngineInit => ClosedIsEmpty
    BY DEF EngineInit, ClosedIsEmpty
  <1>2. ASSUME ClosedIsEmpty, [EngineNext]_engineVars PROVE ClosedIsEmpty'
    <2>1. ASSUME NEW id, ProtocolViolation(id), Receiving PROVE socket' # "closed"
      BY <2>1 DEF ProtocolViolation, Receiving
    <2>2. ASSUME NEW i \in ReqIds, Request(i) \/ DaemonAnswers(i) \/ DaemonAnswersAgain(i)
          PROVE  socket' # "closed"
      BY <2>2 DEF Request, DaemonAnswers, DaemonAnswersAgain
    <2>3. ASSUME NEW i \in ReqIds, HandleResponse(i) PROVE socket' # "closed"
      BY <2>1, <2>3 DEF HandleResponse, Receives, Receiving
    <2>4. ASSUME NEW i \in ReqIds, Abandon(i) \/ LateGraceOver(i) PROVE socket' # "closed"
      BY <1>2, <2>4 DEF Abandon, LateGraceOver, ClosedIsEmpty
    <2>5. ASSUME NEW r \in RouteIds, HandleIncomingRequest(r) \/ HandleCancel(r) PROVE socket' # "closed"
      BY <2>1, <2>5 DEF HandleIncomingRequest, HandleCancel, Receives, Receiving
    <2>6. ASSUME NEW r \in RouteIds, InboundTimeout(r) \/ CompletionGraceOver(r) PROVE socket' # "closed"
      BY <1>2, <2>6 DEF InboundTimeout, CompletionGraceOver, ClosedIsEmpty
    <2>7. ASSUME NEW r \in RouteIds, HandlerSettles(r) PROVE ClosedIsEmpty'
      BY <1>2, <2>7 DEF HandlerSettles, ClosedIsEmpty, outgoing
    <2>8. ASSUME NEW r \in RouteIds, DaemonRoutes(r) \/ DaemonCancels(r) PROVE socket' # "closed"
      BY <2>8 DEF DaemonRoutes, DaemonCancels
    <2>9. ASSUME NEW type, NEW id, DaemonReceives(type, id) PROVE socket' # "closed"
      BY <2>9 DEF DaemonReceives, Punish
    <2>10. ASSUME CloseBegins \/ FailConnection PROVE socket' # "closed"
      BY <2>10 DEF CloseBegins, FailConnection
    <2>11. ASSUME SocketClosed \/ UNCHANGED engineVars PROVE ClosedIsEmpty'
      BY <1>2, <2>11 DEF SocketClosed, DropAll, ClosedIsEmpty, engineVars, outgoing, incoming
    <2>12. ASSUME NEW i \in ReqIds, TombstoneRemoved(i) PROVE ClosedIsEmpty'
      BY <1>2, <2>12 DEF TombstoneRemoved, ClosedIsEmpty, outgoing, incoming
    <2>13. socket' # "closed" => ClosedIsEmpty'
      BY DEF ClosedIsEmpty
    <2> QED BY <1>2, <2>2, <2>3, <2>4, <2>5, <2>6, <2>7, <2>8, <2>9, <2>10, <2>11, <2>12, <2>13
         DEF EngineNext
  <1> QED BY <1>1, <1>2, PTL DEF EngineSpec

=============================================================================
