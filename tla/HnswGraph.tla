----------------------------- MODULE HnswGraph -----------------------------
(***************************************************************************)
(* The HNSW graph of crates/qv-hnsw/src/hnsw.rs as a value, and its        *)
(* operations as operators on that value.                                  *)
(*                                                                         *)
(* Nodes are numbered in the order of their insertion, from 1.  The level  *)
(* of a new node is an argument.  A layer search returns the contents of a *)
(* heap, whose order the code does not fix by distance alone: `rank' is    *)
(* the order among equal distances.                                        *)
(***************************************************************************)
EXTENDS Distance, Sequences, FiniteSets, FiniteSetsExt, SequencesExt

CONSTANTS
    M,               \* params.m: links of a node on the layers above 0
    M0,              \* params.m0: links on layer 0
    EfConstruction   \* params.ef_construction

\* The assertions of with_params.
ASSUME ParamsAssumption ==
    /\ M \in Nat /\ M0 \in Nat /\ EfConstruction \in Nat
    /\ M >= 2 /\ M0 >= M /\ EfConstruction >= 1

\* entry 0 stands for None; links[n] maps the layers of node n to its lists.
EmptyGraph == [vec |-> <<>>, id |-> <<>>, links |-> <<>>, del |-> {}, live |-> 0, entry |-> 0]

NodesOf(g) == DOMAIN g.vec
MMax(layer) == IF layer = 0 THEN M0 ELSE M
TopLayer(g, n) == Max(DOMAIN g.links[n])
LinksAt(g, n, layer) == IF layer \in DOMAIN g.links[n] THEN g.links[n][layer] ELSE <<>>

\* n steps from base, each with its number: a loop of the code.
Iterated(n, base, Step(_, _)) ==
    LET s[i \in 0 .. n] == IF i = 0 THEN base ELSE Step(s[i - 1], i)
    IN  s[n]

\* The orders of the heaps (MinCandidate, MaxCandidate): by distance, then by node.
Nearer(g, q, a, b) ==
    \/ Dist(g.vec[a], q) < Dist(g.vec[b], q)
    \/ Dist(g.vec[a], q) = Dist(g.vec[b], q) /\ a < b

Nearest(g, q, S) == CHOOSE a \in S : \A b \in S \ {a} : Nearer(g, q, a, b)
Farthest(g, q, S) == CHOOSE a \in S : \A b \in S \ {a} : Nearer(g, q, b, a)

\* S in the order Before: an element stands after those before it.
SortBy(S, Before(_, _)) ==
    [i \in 1 .. Cardinality(S) |->
        CHOOSE a \in S : Cardinality({b \in S : Before(b, a)}) = i - 1]

\* Sorting by distance: a set in the order of rank where distances are equal,
\* a list in its own order.
SortFound(g, q, S, rank) ==
    SortBy(S, LAMBDA a, b : \/ Dist(g.vec[a], q) < Dist(g.vec[b], q)
                            \/ Dist(g.vec[a], q) = Dist(g.vec[b], q) /\ rank[a] < rank[b])
SortList(g, q, list) ==
    LET order == SortBy(DOMAIN list,
                     LAMBDA i, j : \/ Dist(g.vec[list[i]], q) < Dist(g.vec[list[j]], q)
                                   \/ Dist(g.vec[list[i]], q) = Dist(g.vec[list[j]], q) /\ i < j)
    IN  [i \in DOMAIN list |-> list[order[i]]]

-----------------------------------------------------------------------------
(* Searching one layer.                                                    *)

\* greedy_search_layer: from a node to the first nearest of its neighbours, while
\* one is nearer than the node.  Every hop is to a nearer node, so the nodes bound
\* the hops.
Closer(g, q, n, nbr) == IF Dist(g.vec[nbr], q) < Dist(g.vec[n], q) THEN nbr ELSE n
Hop(g, q, n, layer) ==
    LET list == LinksAt(g, n, layer)
    IN  Iterated(Len(list), n, LAMBDA best, i : Closer(g, q, best, list[i]))
GreedySearchLayer(g, q, start, layer) ==
    Iterated(Len(g.vec), start, LAMBDA n, i : Hop(g, q, n, layer))

\* The descent through the layers from the top one to low + 1.
Descend(g, q, start, top, low) ==
    Iterated(Max({0, top - low}), start, LAMBDA n, i : GreedySearchLayer(g, q, n, top + 1 - i))

\* Mutant: tombstones are not followed.
VisitNeighborLive(g, q, ef, s, nbr) ==
    IF nbr \in s.visited \cup g.del THEN s
    ELSE [s EXCEPT !.visited = @ \cup {nbr}, !.candidates = @ \cup {nbr}, !.results = @ \cup {nbr}]

\* A neighbour of the expanded node: kept if it beats the worst result or there
\* is room, and then the farthest one goes if there are too many.
VisitNeighbor(g, q, ef, s, nbr) ==
    LET worst == Farthest(g, q, s.results)
        more  == s.results \cup {nbr}
    IN  IF nbr \in s.visited THEN s
        ELSE IF Dist(g.vec[nbr], q) < Dist(g.vec[worst], q) \/ Cardinality(s.results) < ef
          THEN [visited    |-> s.visited \cup {nbr},
                candidates |-> s.candidates \cup {nbr},
                results    |-> IF Cardinality(more) > ef
                                 THEN more \ {Farthest(g, q, more)} ELSE more]
          ELSE [s EXCEPT !.visited = @ \cup {nbr}]

\* The nearest candidate is farther than all results, and these are enough.
Stops(g, q, ef, s, c) ==
    /\ Dist(g.vec[c], q) > Dist(g.vec[Farthest(g, q, s.results)], q)
    /\ Cardinality(s.results) >= ef

\* One round of the loop of search_layer.
Expand(g, q, ef, layer, s) ==
    LET c    == Nearest(g, q, s.candidates)
        list == LinksAt(g, c, layer)
        rest == [s EXCEPT !.candidates = @ \ {c}]
    IN  IF s.candidates = {} THEN s
        ELSE IF Stops(g, q, ef, s, c) THEN [s EXCEPT !.candidates = {}]
        ELSE Iterated(Len(list), rest, LAMBDA t, i : VisitNeighbor(g, q, ef, t, list[i]))

\* search_layer: the nodes found.  A node is a candidate at most once.
SearchLayer(g, q, start, ef, layer) ==
    LET begin == [visited |-> {start}, candidates |-> {start}, results |-> {start}]
    IN  Iterated(Len(g.vec), begin, LAMBDA s, i : Expand(g, q, ef, layer, s)).results

-----------------------------------------------------------------------------
(* Building the graph.                                                     *)

\* select_neighbors_heuristic, on candidates sorted by their distance to base:
\* one is kept if no kept one is nearer to it than base.
Select(g, base, m, kept, c) ==
    IF \/ Len(kept) >= m
       \/ \E s \in Range(kept) : Dist(g.vec[c], g.vec[s]) < Dist(g.vec[c], base)
      THEN kept ELSE Append(kept, c)
SelectNeighbors(g, base, sorted, m) ==
    Iterated(Len(sorted), <<>>, LAMBDA kept, i : Select(g, base, m, kept, sorted[i]))

SetLinks(g, n, layer, list) == [g EXCEPT !.links[n][layer] = list]

\* The edge back to the new node, and prune_neighbors if the list overflows.
LinkBack(g, nbr, new, layer) ==
    LET list == Append(LinksAt(g, nbr, layer), new)
    IN  SetLinks(g, nbr, layer,
                 IF Len(list) > MMax(layer)
                   THEN SelectNeighbors(g, g.vec[nbr], SortList(g, g.vec[nbr], list), MMax(layer))
                   ELSE list)

LinkAllBack(g, selected, new, layer) ==
    Iterated(Len(selected), g, LAMBDA h, i : LinkBack(h, selected[i], new, layer))

\* One layer of phase 2 of insert_new: s holds the graph and where to start.
ConnectLayer(s, new, layer, rank) ==
    LET v        == s.g.vec[new]
        sorted   == SortFound(s.g, v, SearchLayer(s.g, v, s.at, EfConstruction, layer), rank)
        selected == SelectNeighbors(s.g, v, sorted, MMax(layer))
    IN  [g  |-> LinkAllBack(SetLinks(s.g, new, layer, selected), selected, new, layer),
         at |-> sorted[1]]

\* The node without its edges.
PushNode(g, id, v, level) ==
    [g EXCEPT !.vec = Append(@, v), !.id = Append(@, id), !.live = @ + 1,
              !.links = Append(@, [l \in 0 .. level |-> <<>>])]

\* Mutant: phase 2 starts at the level of the new node.
StartLayerOwn(level, top) == level

StartLayer(level, top) == Min({level, top})

\* The entry point is a node of the highest level.
EntryAfter(g, new, level) ==
    IF g.entry = 0 \/ level > TopLayer(g, g.entry) THEN new ELSE g.entry

\* The two phases of insert_new: descend above the level of the new node, then
\* connect it layer by layer.  rank[layer] orders equal distances on that layer.
Wire(pushed, level, rank) ==
    LET new   == Len(pushed.vec)
        top   == TopLayer(pushed, pushed.entry)
        low   == StartLayer(level, top)
        begin == [g |-> pushed, at |-> Descend(pushed, pushed.vec[new], pushed.entry, top, level)]
    IN  Iterated(low + 1, begin,
                 LAMBDA s, i : ConnectLayer(s, new, low + 1 - i, rank[low + 1 - i])).g

\* insert_new: edges and the entry point are all that the first node does without.
InsertNew(g, id, v, level, rank) ==
    LET pushed == PushNode(g, id, v, level)
    IN  [pushed EXCEPT !.links = IF g.entry = 0 THEN @ ELSE Wire(pushed, level, rank).links,
                       !.entry = EntryAfter(g, Len(pushed.vec), level)]

-----------------------------------------------------------------------------
(* VectorIndex for HnswIndex.                                              *)

NodeOf(g, id) == SelectInSeq(g.id, LAMBDA i : i = id)

\* The branch of insert for an id that has a node: overwrite and revive.
Replace(g, n, v) ==
    [g EXCEPT !.vec[n] = v, !.del = @ \ {n}, !.live = IF n \in g.del THEN @ + 1 ELSE @]

HnswInsert(g, id, v, level, rank) ==
    IF NodeOf(g, id) # 0 THEN Replace(g, NodeOf(g, id), v) ELSE InsertNew(g, id, v, level, rank)

HnswDelete(g, id) ==
    IF NodeOf(g, id) \in {0} \cup g.del THEN g
    ELSE [g EXCEPT !.del = @ \cup {NodeOf(g, id)}, !.live = @ - 1]

\* Mutant: a breadth below k is used as it is.
BreadthAsGiven(efSearch, k) == efSearch

Breadth(efSearch, k) == Max({efSearch, k})

\* search: nearest first, without tombstones, at most k.
HnswSearch(g, q, k, efSearch, rank) ==
    LET at    == Descend(g, q, g.entry, TopLayer(g, g.entry), 0)
        alive == SortFound(g, q, SearchLayer(g, q, at, Breadth(efSearch, k), 0) \ g.del, rank)
    IN  IF k = 0 \/ g.live = 0 THEN <<>>
        ELSE [i \in 1 .. Min({k, Len(alive)}) |->
                 [id |-> g.id[alive[i]], score |-> Dist(g.vec[alive[i]], q)]]
=============================================================================
