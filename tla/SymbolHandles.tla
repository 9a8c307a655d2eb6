----------------------------- MODULE SymbolHandles -----------------------------
(***************************************************************************)
(* The VS Code adapter's registry of symbol handles: VscodeSymbolHandle-   *)
(* Registry in packages/vscode-extension/src/symbol-mapper.ts.  Its        *)
(* methods run without an await, so each is an operator from one value of  *)
(* the registry to the next; VscodeRoutes has the requests and the events  *)
(* that call them.                                                         *)
(*                                                                         *)
(* An identifier is a number that names no live record (#createHandleId    *)
(* draws at random until it finds one).  A record also carries the session *)
(* and the epoch of the handle its consumer holds, which resolve compares, *)
(* the version of the document that its symbol was found in, and as a      *)
(* history the version the document had when it was minted.                *)
(***************************************************************************)
EXTENDS Naturals, Sequences, FiniteSets

CONSTANTS
    Docs,                       \* documents of the workspace
    MaxHandles,                 \* DEFAULT_MAX_HANDLES
    MAX_TRANSIENT_GENERATIONS,
    Ids                         \* identifiers

ASSUME HandleConstants ==
    /\ MaxHandles \in Nat \ {0}
    /\ MAX_TRANSIENT_GENERATIONS \in Nat \ {0}
    /\ Ids \subseteq Nat /\ IsFiniteSet(Ids)
    /\ IsFiniteSet(Docs)

VARIABLE handles    \* the four collections of the registry

\* A function without entries.
Empty == [x \in {} |-> x]

NoHandles ==
    [records     |-> Empty,                         \* #records
     trees       |-> [d \in Docs |-> {}],           \* #documentHandles
     generations |-> <<>>,                          \* #transientGenerations
     hits        |-> [d \in Docs |-> {}]]           \* #transientByDocument

Live(h) == DOMAIN h.records

size(h) == Cardinality(Live(h))

\* #createHandleId for n symbols: which identifiers it finds makes no difference,
\* so it finds the lowest.
Fresh(n) ==
    LET free == Ids \ Live(handles)
    IN  {S \in SUBSET free : Cardinality(S) = n /\ \A i \in S, j \in free \ S : i < j}

Without(f, S) == [x \in DOMAIN f \ S |-> f[x]]

\* Mistake: the index by document keeps the handles that were evicted.
evictOldestUnindexed(h, k) ==
    LET gone == UNION {h.generations[i] : i \in 1 .. k}
    IN  [h EXCEPT !.records = Without(@, gone), !.generations = SubSeq(@, k + 1, Len(@))]

\* #evictOldestTransient, k times.
evictOldestTransient(h, k) ==
    LET gone == UNION {h.generations[i] : i \in 1 .. k}
    IN  [h EXCEPT !.records = Without(@, gone),
                  !.generations = SubSeq(@, k + 1, Len(@)),
                  !.hits = [d \in Docs |-> @[d] \ gone]]

\* Mistake: off by one.
FitsOneMore(h, n, replaced) == size(h) + n <= MaxHandles + replaced + 1

\* Room for n handles, once those of a tree that the request replaces are gone.
Fits(h, n, replaced) == size(h) + n <= MaxHandles + replaced

\* Mistake: a full registry is cleared.
reserveCapacityClears(h, n, replaced) == IF Fits(h, n, replaced) THEN h ELSE NoHandles

\* The loop of #reserveCapacity: as few generations go as make room, and all of
\* them when that is not enough.
reserveCapacity(h, n, replaced) ==
    LET Enough(k) == Fits(evictOldestTransient(h, k), n, replaced)
        Needed(k) == k = Len(h.generations) \/ Enough(k)
    IN  evictOldestTransient(h, CHOOSE k \in 0 .. Len(h.generations) :
                                    Needed(k) /\ \A j \in 0 .. k - 1 : ~Needed(j))

\* invalidateDocument for each document of D; invalidateAll is NoHandles.
invalidateDocuments(h, D) ==
    LET gone == UNION {h.trees[d] \cup h.hits[d] : d \in D}
    IN  [h EXCEPT !.records = Without(@, gone),
                  !.trees = [d \in Docs |-> IF d \in D THEN {} ELSE @[d]],
                  !.generations = [i \in DOMAIN @ |-> @[i] \ gone],
                  !.hits = [d \in Docs |-> IF d \in D THEN {} ELSE @[d]]]

\* A document's whole tree of n symbols; the throw leaves the evictions behind.
materialize(h, d, ids, record) ==
    LET n == Cardinality(ids)
        replaced == Cardinality(h.trees[d])
        room == reserveCapacity(h, n, replaced)
        cleared == invalidateDocuments(room, {d})
    IN  IF ~Fits(room, n, replaced) THEN room
        ELSE [cleared EXCEPT !.records = [i \in DOMAIN @ \cup ids |->
                                             IF i \in ids THEN record ELSE @[i]],
                             !.trees[d] = ids]

\* Individual results, a set of [id, record], as a generation of their own.
materializeTransient(h, drafts) ==
    LET n == Cardinality(drafts)
        ids == {draft.id : draft \in drafts}
        Of(i) == (CHOOSE draft \in drafts : draft.id = i).record
        room == reserveCapacity(h, n, 0)
        added == [room EXCEPT
                    !.records = [i \in DOMAIN @ \cup ids |-> IF i \in ids THEN Of(i) ELSE @[i]],
                    !.generations = Append(@, ids),
                    !.hits = [d \in Docs |-> @[d] \cup {i \in ids : Of(i).doc = d}]]
        length == Len(added.generations)
        excess == IF length > MAX_TRANSIENT_GENERATIONS
                  THEN length - MAX_TRANSIENT_GENERATIONS ELSE 0
    IN  IF ~Fits(room, n, 0) THEN room ELSE evictOldestTransient(added, excess)

HandlesInit == handles = NoHandles

-----------------------------------------------------------------------------
(* Properties.                                                             *)

Flat(generations) == UNION {generations[i] : i \in DOMAIN generations}

\* The collections describe the same handles: a tree holds exactly the document
\* handles of its document, the generations and the index by document hold
\* exactly the transient ones, each in one generation.  A handle missing from one
\* of them outlives a change of its document, and one left in it takes a slot for
\* good.
CollectionsAgree ==
    LET Of(kind, d) == {i \in Live(handles) : handles.records[i].kind = kind
                                              /\ handles.records[i].doc = d}
    IN  /\ \A d \in Docs : /\ handles.trees[d] = Of("document", d)
                           /\ handles.hits[d] = Of("transient", d)
        /\ Flat(handles.generations) = UNION {handles.hits[d] : d \in Docs}
        /\ \A i, j \in DOMAIN handles.generations :
            i # j => handles.generations[i] \cap handles.generations[j] = {}

\* The registry stays within its capacity, also when a tree replaces another
\* while search results about the same document are live.
HandlesBounded ==
    /\ size(handles) <= MaxHandles
    /\ Len(handles.generations) <= MAX_TRANSIENT_GENERATIONS

=============================================================================
