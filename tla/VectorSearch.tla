---------------------------- MODULE VectorSearch ----------------------------
(***************************************************************************)
(* Vector search: the indexes of the shard replicas (qv-hnsw) as points    *)
(* come and go, and coordinate_search of qv-node/src/router.rs, which asks *)
(* one replica per shard and merges the answers while writes go on.        *)
(*                                                                         *)
(* A replica holds an HNSW graph; beside it runs the exact index, the      *)
(* oracle of the repository's own recall tests.  How writes reach the      *)
(* replicas is the business of Replication: here each replica is written   *)
(* on its own.                                                             *)
(***************************************************************************)
EXTENDS HnswGraph, BruteForceIndex

CONSTANTS
    Ranks,       \* bound: orders among equal distances, as functions on the nodes
    Setups       \* what to consider: see Setup

\* order: the replicas of each shard in ring order.  The rest are bounds: the
\* ids written at each shard, vectors, levels, writes and deletes, searches, k
\* and failing calls.
Setup == [order : Seq(Seq(Nat) \ {<<>>}), ids : Seq(SUBSET (Nat \ {0})),
          vectors : SUBSET (Nat \X Nat), level : Nat, ops : Nat, searches : Nat,
          k : SUBSET Nat, faults : Nat]

\* An id belongs to one shard, by shard_for_id.
ASSUME SetupsAssumption ==
    /\ Setups \subseteq Setup
    /\ \A s \in Setups : /\ Len(s.ids) = Len(s.order)
                         /\ \A i, j \in DOMAIN s.ids : i # j => s.ids[i] \cap s.ids[j] = {}

\* A rank tells the nodes that the writes can make apart.
ASSUME RanksAssumption ==
    \A s \in Setups : \A rank \in Ranks : \A a, b \in 1 .. s.ops :
        rank[a] \in Int /\ (rank[a] = rank[b] => a = b)

VARIABLES
    setup,     \* fixed
    hnsw,      \* <<shard, node>> -> graph
    brute,     \* <<shard, node>> -> slot table
    stored,    \* history: <<shard, node>> -> what the calls made it hold
    pruned,    \* history: replicas whose graph has lost an edge
    task,      \* the search under way
    count      \* how often things happened, for the bounds

store == <<hnsw, brute, stored, pruned>>
vars == <<setup, hnsw, brute, stored, pruned, task, count>>

Shards == DOMAIN setup.order
Replicas == UNION {{<<s, n>> : n \in Range(setup.order[s])} : s \in Shards}
Absent == <<>>

Idle == [pc |-> "idle"]

Init ==
    /\ setup \in Setups
    /\ hnsw = [r \in Replicas |-> EmptyGraph]
    /\ brute = [r \in Replicas |-> EmptyTable]
    /\ stored = [r \in Replicas |-> [i \in setup.ids[r[1]] |-> Absent]]
    /\ pruned = {} /\ task = Idle
    /\ count = [ops |-> 0, searches |-> 0, faults |-> 0]

-----------------------------------------------------------------------------
(* Writes, applied under the mutex of the shard.                           *)

\* Some edge of the old graph is gone, or the new node was not linked back.
LosesEdge(g, h) ==
    \/ \E n \in NodesOf(g) : \E l \in DOMAIN g.links[n] :
          ~ Range(g.links[n][l]) \subseteq Range(h.links[n][l])
    \/ Len(h.vec) > Len(g.vec) /\ \E l \in DOMAIN h.links[Len(h.vec)] :
          \E n \in Range(h.links[Len(h.vec)][l]) : Len(h.vec) \notin Range(LinksAt(h, n, l))

\* Bound: ids are first used in increasing order.
Fresh(r, id) == \A i \in setup.ids[r[1]] : i < id => NodeOf(hnsw[r], i) # 0

\* The insert of one index and of the other.
Insert(r, id, v, level, rank) ==
    /\ count.ops < setup.ops
    /\ hnsw' = [hnsw EXCEPT ![r] = HnswInsert(@, id, v, level, rank)]
    /\ brute' = [brute EXCEPT ![r] = BruteInsert(@, id, v)]
    /\ stored' = [stored EXCEPT ![r][id] = v]
    /\ pruned' = pruned \cup {x \in {r} : LosesEdge(hnsw[r], hnsw'[r])}
    /\ count' = [count EXCEPT !.ops = @ + 1]
    /\ UNCHANGED <<setup, task>>

\* A new id, with any level; one that is known, where no level is drawn.
Upsert(r, id) ==
    \E v \in setup.vectors :
        \/ /\ NodeOf(hnsw[r], id) = 0 /\ Fresh(r, id)
           /\ \E level \in 0 .. setup.level : \E rank \in [0 .. level -> Ranks] :
                 Insert(r, id, v, level, rank)
        \/ NodeOf(hnsw[r], id) # 0 /\ Insert(r, id, v, 0, <<>>)

Delete(r, id) ==
    /\ count.ops < setup.ops /\ NodeOf(hnsw[r], id) # 0
    /\ hnsw' = [hnsw EXCEPT ![r] = HnswDelete(@, id)]
    /\ brute' = [brute EXCEPT ![r] = BruteDelete(@, id)]
    /\ stored' = [stored EXCEPT ![r][id] = Absent]
    /\ count' = [count EXCEPT !.ops = @ + 1]
    /\ UNCHANGED <<setup, pruned, task>>

-----------------------------------------------------------------------------
(* coordinate_search.                                                      *)

\* Mutant: in ring order, whatever their state.
OrderedAnyhow(meta, s) == setup.order[s]

\* Active replicas first, each part in ring order.
Ordered(meta, s) ==
    LET list == setup.order[s]
        Syncing(i) == <<s, list[i]>> \in meta
        Earlier(i, j) == \/ ~Syncing(i) /\ Syncing(j)
                         \/ (Syncing(i) <=> Syncing(j)) /\ i < j
        place == SortBy(DOMAIN list, Earlier)
    IN  [i \in DOMAIN list |-> list[place[i]]]

\* The metadata is read once; any replicas may be Syncing in it.
BeginSearch(q, k, meta) ==
    /\ task.pc = "idle" /\ count.searches < setup.searches
    /\ task' = [pc |-> "ask", q |-> q, k |-> k, meta |-> meta, shard |-> 1, try |-> 1,
                merged |-> <<>>, held |-> {}, failed |-> {}, from |-> <<>>]
    /\ count' = [count EXCEPT !.searches = @ + 1]
    /\ UNCHANGED <<setup, store>>

Target == Ordered(task.meta, task.shard)[task.try]

\* What the exact answer would be taken from: history of the search.
Points(r, q) ==
    {[id |-> i, score |-> Dist(stored[r][i], q)] :
        i \in {j \in DOMAIN stored[r] : stored[r][j] # Absent}}

\* search_one_replica answers; the breadth is as large as the graph.
SearchReplica(rank) ==
    LET r == <<task.shard, Target>>
    IN  /\ task.pc = "ask" /\ task.shard \in Shards
        /\ task' = [task EXCEPT
                       !.merged = @ \o HnswSearch(hnsw[r], task.q, task.k, Len(hnsw[r].vec), rank),
                       !.held = @ \cup Points(r, task.q), !.from = Append(@, Target),
                       !.shard = @ + 1, !.try = 1]
        /\ UNCHANGED <<setup, store, count>>

\* NoReplica: no replica of the shard answered.
GiveUp == [task EXCEPT !.pc = "failed"]

\* ConnError: the next replica, if there is one.
SearchFails ==
    /\ task.pc = "ask" /\ task.shard \in Shards /\ count.faults < setup.faults
    /\ task' = [(IF task.try = Len(Ordered(task.meta, task.shard))
                   THEN GiveUp ELSE [task EXCEPT !.try = @ + 1])
                  EXCEPT !.failed = @ \cup {<<task.shard, Target>>}]
    /\ count' = [count EXCEPT !.faults = @ + 1]
    /\ UNCHANGED <<setup, store>>

\* Mutant: the answers are cut before they are sorted.
TopKUnsorted(hits, k) == SubSeq(hits, 1, Min({k, Len(hits)}))

\* By score, then by id, a stable sort; then the first k.
TopK(hits, k) ==
    LET Before(i, j) ==
            \/ hits[i].score < hits[j].score
            \/ hits[i].score = hits[j].score /\ hits[i].id < hits[j].id
            \/ hits[i].score = hits[j].score /\ hits[i].id = hits[j].id /\ i < j
        order == SortBy(DOMAIN hits, Before)
    IN  [i \in 1 .. Min({k, Len(hits)}) |-> hits[order[i]]]

FinishSearch ==
    /\ task.pc = "ask" /\ task.shard = Len(setup.order) + 1
    /\ task' = [task EXCEPT !.pc = "done", !.merged = TopK(@, task.k)]
    /\ UNCHANGED <<setup, store, count>>

Next ==
    \/ \E r \in Replicas : \E id \in setup.ids[r[1]] : Upsert(r, id) \/ Delete(r, id)
    \/ \E q \in setup.vectors, k \in setup.k, meta \in SUBSET Replicas :
          BeginSearch(q, k, meta)
    \/ \E rank \in Ranks : SearchReplica(rank)
    \/ SearchFails
    \/ FinishSearch

Spec == Init /\ [][Next]_vars

-----------------------------------------------------------------------------
(* Properties.                                                             *)

\* What keeps insert_new from indexing past a node's layers and a search from
\* missing the top of the graph: on every layer a list leads only to other nodes
\* that have this layer, at most once to each, and keeps the degree bound; and no
\* node is above the entry point.  validate_invariants checks less than this.
WellLayered ==
    \A r \in Replicas : LET g == hnsw[r] IN
        \A n \in NodesOf(g) :
            /\ TopLayer(g, n) <= TopLayer(g, g.entry)
            /\ \A l \in DOMAIN g.links[n] :
                  LET list == g.links[n][l]
                  IN  /\ Len(list) <= MMax(l) /\ Cardinality(Range(list)) = Len(list)
                      /\ \A x \in Range(list) : x # n /\ l \in DOMAIN g.links[x]

\* Both indexes hold what the inserts and deletes say, through replacements,
\* revived tombstones and reused slots: the id reads back its last vector, and the
\* live counts, on which a search gives up early, are right.
HoldWhatWasStored ==
    \A r \in Replicas : \A i \in DOMAIN stored[r] :
        LET g == hnsw[r]  n == NodeOf(g, i)  s == SlotOf(brute[r], i)
        IN  /\ stored[r][i] = (IF n \in {0} \cup g.del THEN Absent ELSE g.vec[n])
            /\ stored[r][i] = (IF s = 0 THEN Absent ELSE brute[r].vec[s])
            /\ g.live = Cardinality({j \in DOMAIN stored[r] : stored[r][j] # Absent})
            /\ brute[r].live = g.live

Scores(hits) == [i \in DOMAIN hits |-> hits[i].score]

\* While no list has overflowed, a search as broad as the graph is exact: it finds
\* the scores the brute-force oracle finds, past tombstones, replaced vectors and
\* whatever levels were drawn.
ExactWhenBroad ==
    \A r \in Replicas \ pruned : \A q \in setup.vectors, k \in setup.k, rank \in Ranks :
        Scores(HnswSearch(hnsw[r], q, k, Len(hnsw[r].vec), rank))
            = Scores(BruteSearch(brute[r], q, k))

\* A search of any breadth returns live points with their true scores, nearest
\* first and none twice; and while no list has overflowed only tombstones, which
\* take up room in the breadth, can make it return fewer than it has room for.
SearchSound ==
    \A r \in Replicas : \A q \in setup.vectors, k \in setup.k, ef \in 1 .. Len(hnsw[r].vec) - 1 :
        LET hits == HnswSearch(hnsw[r], q, k, ef, [n \in NodesOf(hnsw[r]) |-> n])
            room == Min({Max({ef, k}), Len(hnsw[r].vec)})
        IN  /\ Range(hits) \subseteq Points(r, q)
            /\ Cardinality(Range(hits)) = Len(hits) /\ Len(hits) <= k
            /\ \A i, j \in DOMAIN hits : i < j => hits[i].score <= hits[j].score
            /\ r \notin pruned => Len(hits) >= Min({k, room - Cardinality(hnsw[r].del)})

\* An answered search covers every shard, and its scores are the k best among the
\* points its replicas held when each was asked, although writes went on between
\* the shards (no replica here overflows a list).
MergedIsTopK ==
    task.pc = "done" =>
        LET best == SortHits(task.held)
        IN  /\ Len(task.from) = Len(setup.order)
            /\ Range(task.merged) \subseteq task.held
            /\ pruned = {} =>
                  Scores(task.merged) = Scores(SubSeq(best, 1, Min({task.k, Len(best)})))

\* A replica that was Syncing when the search began answers only if every Active
\* replica of its shard failed: "The Active ones are always tried first"
\* (coordinate_search).  docs/consistency.md:66-67 says more, that such a replica
\* is never read; the code's last resort reads it, as the README reports.
SyncingIsLastResort ==
    task.pc # "idle" =>
        \A s \in DOMAIN task.from : <<s, task.from[s]>> \in task.meta =>
            \A n \in Range(setup.order[s]) : <<s, n>> \in task.meta \cup task.failed
=============================================================================
