-------------------------- MODULE BruteForceIndex --------------------------
(***************************************************************************)
(* The exact index of crates/qv-hnsw/src/index.rs, the oracle the graph is *)
(* measured against, as a value and operators on it: a table of slots that *)
(* are reused after a delete.                                              *)
(***************************************************************************)
EXTENDS Distance, Sequences, FiniteSets, FiniteSetsExt, SequencesExt

\* ids[s] is 0 for a free slot; free is a stack; point ids are positive here.
EmptyTable == [ids |-> <<>>, vec |-> <<>>, free |-> <<>>, live |-> 0]

SlotOf(t, id) == SelectInSeq(t.ids, LAMBDA i : i = id)

\* Mutant: a reused slot keeps its vector.
TakeSlotStale(t, id, v) == [t EXCEPT !.ids[Last(t.free)] = id, !.free = Front(@)]

\* The slot freed last is used again.
TakeSlot(t, id, v) ==
    LET s == Last(t.free)
    IN  [t EXCEPT !.ids[s] = id, !.vec[s] = v, !.free = Front(@)]

BruteInsert(t, id, v) ==
    IF SlotOf(t, id) # 0 THEN [t EXCEPT !.vec[SlotOf(t, id)] = v]
    ELSE LET u == IF t.free # <<>> THEN TakeSlot(t, id, v)
                  ELSE [t EXCEPT !.ids = Append(@, id), !.vec = Append(@, v)]
         IN  [u EXCEPT !.live = @ + 1]

BruteDelete(t, id) ==
    LET s == SlotOf(t, id)
    IN  IF s = 0 THEN t
        ELSE [t EXCEPT !.ids[s] = 0, !.free = Append(@, s), !.live = @ - 1]

\* By score, then by id.
SortHits(hits) ==
    LET Before(a, b) == a.score < b.score \/ (a.score = b.score /\ a.id < b.id)
    IN  [i \in 1 .. Cardinality(hits) |->
            CHOOSE a \in hits : Cardinality({b \in hits : Before(b, a)}) = i - 1]

\* Every live vector, by score and then by id, the first k.
BruteSearch(t, q, k) ==
    LET hits   == {[id |-> t.ids[s], score |-> Dist(q, t.vec[s])] : s \in {x \in DOMAIN t.ids : t.ids[x] # 0}}
        sorted == SortHits(hits)
    IN  IF k = 0 \/ t.live = 0 THEN <<>> ELSE SubSeq(sorted, 1, Min({k, Len(sorted)}))
=============================================================================
