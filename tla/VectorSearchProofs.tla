------------------------- MODULE VectorSearchProofs -------------------------
(***************************************************************************)
(* Proofs about the search coordination and the indexes of VectorSearch,   *)
(* for every number of shards, replicas, ids, writes and failing calls.    *)
(***************************************************************************)
EXTENDS VectorSearch, WellFoundedInduction, FiniteSetTheorems, SequenceTheorems, TLAPS

-----------------------------------------------------------------------------
(* Sorting by rank.  B[a] is what comes before a.                          *)

Orders(S, B) ==
    /\ IsFiniteSet(S) /\ B \in [S -> SUBSET S]
    /\ \A a \in S : a \notin B[a]
    /\ \A a, b \in S : a # b => a \in B[b] \/ b \in B[a]
    /\ \A a, b, c \in S : a \in B[b] /\ b \in B[c] => a \in B[c]

\* The ranks of a finite strict total order follow the order.
LEMMA RanksFollow ==
    ASSUME NEW S, NEW B, Orders(S, B), NEW a \in S, NEW b \in S
    PROVE  /\ Cardinality(B[a]) \in 0 .. Cardinality(S) - 1
           /\ a \in B[b] <=> Cardinality(B[a]) < Cardinality(B[b])
           /\ Cardinality(B[a]) = Cardinality(B[b]) => a = b
<1>1. ASSUME NEW x \in S
      PROVE  /\ IsFiniteSet(B[x]) /\ Cardinality(B[x]) \in Nat
             /\ Cardinality(B[x]) < Cardinality(S) /\ Cardinality(S) \in Nat
  <2>1. B[x] \subseteq S /\ B[x] # S
    BY DEF Orders
  <2>2. /\ IsFiniteSet(B[x]) /\ Cardinality(B[x]) <= Cardinality(S)
        /\ Cardinality(B[x]) # Cardinality(S)
    BY <2>1, FS_Subset DEF Orders
  <2>3. Cardinality(B[x]) \in Nat /\ Cardinality(S) \in Nat
    BY <2>2, FS_CardinalityType DEF Orders
  <2> QED
    BY <2>2, <2>3
<1>2. ASSUME NEW x \in S, NEW y \in S, x \in B[y]
      PROVE  Cardinality(B[x]) < Cardinality(B[y])
  <2>1. B[x] \subseteq B[y] /\ B[x] # B[y]
    BY <1>2 DEF Orders
  <2>2. Cardinality(B[x]) <= Cardinality(B[y]) /\ Cardinality(B[x]) # Cardinality(B[y])
    BY <1>1, <2>1, FS_Subset
  <2> QED
    BY <1>1, <2>2
<1>3. a = b \/ a \in B[b] \/ b \in B[a]
  BY DEF Orders
<1>4. Cardinality(B[a]) \in Nat /\ Cardinality(B[b]) \in Nat
  BY <1>1
<1>5. a \in B[b] <=> Cardinality(B[a]) < Cardinality(B[b])
  BY <1>2, <1>3, <1>4
<1>6. Cardinality(B[a]) = Cardinality(B[b]) => a = b
  BY <1>2, <1>3, <1>4
<1> QED
  BY <1>1, <1>5, <1>6

\* r is the sequence in which each element stands after those before it.
Arranges(S, B, r) ==
    /\ r = [i \in 1 .. Cardinality(S) |-> r[i]]
    /\ \A i \in 1 .. Cardinality(S) :
          (\E a \in S : Cardinality(B[a]) = i - 1) => r[i] \in S /\ Cardinality(B[r[i]]) = i - 1

\* It has every element once, in order.
LEMMA ArrangedIs ==
    ASSUME NEW S, NEW B, Orders(S, B), NEW r, Arranges(S, B, r)
    PROVE  /\ Cardinality(S) \in Nat /\ r \in [1 .. Cardinality(S) -> S]
           /\ \A i, j \in 1 .. Cardinality(S) : i < j => r[i] \in B[r[j]]
           /\ \A i, j \in 1 .. Cardinality(S) : r[i] = r[j] => i = j
           /\ \A a \in S : \E i \in 1 .. Cardinality(S) : r[i] = a
<1> DEFINE N == Cardinality(S)
           f == [a \in S |-> Cardinality(B[a])]
<1>0. N \in Nat
  BY FS_CardinalityType DEF Orders
<1>1. IsFiniteSet(0 .. N - 1) /\ Cardinality(0 .. N - 1) = N
  <2>1. IsFiniteSet(0 .. N - 1) /\ Cardinality(0 .. N - 1) = IF 0 > N - 1 THEN 0 ELSE N - 1 - 0 + 1
    <3>1. N - 1 \in Int /\ 0 \in Int
      BY <1>0
    <3> HIDE DEF N
    <3> QED
      BY <3>1, FS_Interval
  <2> QED
    BY <1>0, <2>1
<1>2. f \in [S -> 0 .. N - 1] /\ \A a, b \in S : f[a] = f[b] => a = b
  BY RanksFollow
<1>3. f \in Injection(S, 0 .. N - 1)
  BY <1>2 DEF Injection, IsInjective
<1>4. f \in Surjection(S, 0 .. N - 1)
  BY <1>1, <1>3, FS_Injection DEF Orders
<1>5. \A k \in 0 .. N - 1 : \E a \in S : Cardinality(B[a]) = k
  BY <1>4 DEF Surjection
<1>6. ASSUME NEW i \in 1 .. N
      PROVE  r[i] \in S /\ Cardinality(B[r[i]]) = i - 1
  <2>1. i - 1 \in 0 .. N - 1
    BY <1>0
  <2>2. \E a \in S : Cardinality(B[a]) = i - 1
    BY <1>5, <2>1
  <2> QED
    BY <2>2 DEF Arranges
<1>7. r \in [1 .. N -> S]
  BY <1>6 DEF Arranges
<1>8. \A i, j \in 1 .. N : i < j => r[i] \in B[r[j]]
  <2> TAKE i, j \in 1 .. N
  <2> HAVE i < j
  <2>1. Cardinality(B[r[i]]) < Cardinality(B[r[j]])
    BY <1>0, <1>6
  <2> QED
    BY <1>6, <2>1, RanksFollow
<1>9. \A i, j \in 1 .. N : r[i] = r[j] => i = j
  <2> TAKE i, j \in 1 .. N
  <2> HAVE r[i] = r[j]
  <2>1. i - 1 = j - 1
    BY <1>6
  <2> QED
    BY <2>1
<1>10. \A a \in S : \E i \in 1 .. N : r[i] = a
  <2> TAKE a \in S
  <2>1. Cardinality(B[a]) \in 0 .. N - 1
    BY RanksFollow
  <2>2. Cardinality(B[a]) + 1 \in 1 .. N
    BY <1>0, <2>1
  <2>3. /\ r[Cardinality(B[a]) + 1] \in S
        /\ Cardinality(B[r[Cardinality(B[a]) + 1]]) = Cardinality(B[a])
    BY <1>6, <2>1, <2>2
  <2>4. r[Cardinality(B[a]) + 1] = a
    BY <2>3, RanksFollow
  <2> QED
    BY <2>2, <2>4
<1> QED
  BY <1>0, <1>7, <1>8, <1>9, <1>10

-----------------------------------------------------------------------------
(* coordinate_search.                                                      *)

\* The list of a shard, as far as the proofs need it.
LEMMA ListIs ==
    ASSUME setup \in Setups, NEW s \in Shards
    PROVE  /\ setup.order[s] \in Seq(Nat) /\ setup.order[s] # <<>>
           /\ Len(setup.order[s]) \in Nat /\ Len(setup.order[s]) >= 1
           /\ DOMAIN setup.order[s] = 1 .. Len(setup.order[s])
<1>1. setup.order \in Seq(Seq(Nat) \ {<<>>})
  BY SetupsAssumption DEF Setup
<1>2. setup.order[s] \in Seq(Nat) \ {<<>>}
  BY <1>1 DEF Shards
<1> QED
  BY <1>2

\* The order of coordinate_search has every replica of the shard, and no Active one
\* after one that is Syncing.
LEMMA OrderedIs ==
    ASSUME setup \in Setups, NEW meta, NEW s \in Shards
    PROVE  /\ Ordered(meta, s) \in [1 .. Len(setup.order[s]) -> Nat]
           /\ Len(Ordered(meta, s)) = Len(setup.order[s])
           /\ \A x \in 1 .. Len(setup.order[s]) :
                 \E i \in 1 .. Len(setup.order[s]) : Ordered(meta, s)[i] = setup.order[s][x]
           /\ \A i, j \in 1 .. Len(setup.order[s]) :
                 i < j /\ <<s, Ordered(meta, s)[i]>> \in meta => <<s, Ordered(meta, s)[j]>> \in meta
           /\ \A i \in 1 .. Len(setup.order[s]) : Ordered(meta, s)[i] \in Range(setup.order[s])
<1> DEFINE list == setup.order[s]
           N == Len(list)
           S == 1 .. N
           Sync(i) == <<s, list[i]>> \in meta
           Earlier(i, j) == (~Sync(i) /\ Sync(j)) \/ ((Sync(i) <=> Sync(j)) /\ i < j)
           B == [j \in S |-> {i \in S : Earlier(i, j)}]
           at(i) == CHOOSE a \in S : Cardinality({b \in S : Earlier(b, a)}) = i - 1
           place == [i \in 1 .. Cardinality(S) |-> at(i)]
<1>1. list \in Seq(Nat) /\ N \in Nat /\ N >= 1 /\ DOMAIN list = S
  BY ListIs
<1>2. IsFiniteSet(S) /\ Cardinality(S) = N
  <2>1. 1 \in Int /\ N \in Int /\ ~(1 > N)
    BY <1>1
  <2>2. IsFiniteSet(1 .. N) /\ Cardinality(1 .. N) = IF 1 > N THEN 0 ELSE N - 1 + 1
    <3> HIDE DEF N
    <3> QED
      BY <2>1, FS_Interval
  <2> QED
    BY <1>1, <2>1, <2>2
<1>3. Ordered(meta, s) = [i \in S |-> list[place[i]]]
  BY <1>1 DEF Ordered, SortBy
<1>4. Orders(S, B)
  <2>1. S \in SUBSET Nat
    BY <1>1
  <2> HIDE DEF S, N
  <2>2. B \in [S -> SUBSET S]
    OBVIOUS
  <2>3. \A a, b \in S : a \in B[b] <=> Earlier(a, b)
    OBVIOUS
  <2> HIDE DEF B, Sync
  <2> QED
    BY <1>2, <2>1, <2>2, <2>3 DEF Orders
<1>5. Arranges(S, B, place)
  <2>1. \A a \in S : B[a] = {b \in S : Earlier(b, a)}
    OBVIOUS
  <2> HIDE DEF B, S, Earlier
  <2>2. place = [i \in 1 .. Cardinality(S) |-> place[i]]
    <3> HIDE DEF at
    <3> QED
      OBVIOUS
  <2>3. ASSUME NEW i \in 1 .. Cardinality(S), NEW x \in S, Cardinality(B[x]) = i - 1
        PROVE  place[i] \in S /\ Cardinality(B[place[i]]) = i - 1
    <3>1. place[i] = at(i)
      <4> HIDE DEF at
      <4> QED
        OBVIOUS
    <3>2. \E a \in S : Cardinality({b \in S : Earlier(b, a)}) = i - 1
      BY <2>1, <2>3
    <3>3. place[i] \in S /\ Cardinality({b \in S : Earlier(b, place[i])}) = i - 1
      BY <3>1, <3>2
    <3> QED
      BY <2>1, <3>3
  <2> HIDE DEF place
  <2> QED
    BY <2>2, <2>3 DEF Arranges
<1>6. /\ place \in [S -> S]
      /\ \A i, j \in S : i < j => place[i] \in B[place[j]]
      /\ \A a \in S : \E i \in S : place[i] = a
  <2>1. S = 1 .. Cardinality(S)
    BY <1>2
  <2> HIDE DEF B, place, S
  <2>2. /\ place \in [1 .. Cardinality(S) -> S]
        /\ \A i, j \in 1 .. Cardinality(S) : i < j => place[i] \in B[place[j]]
        /\ \A a \in S : \E i \in 1 .. Cardinality(S) : place[i] = a
    BY <1>4, <1>5, ArrangedIs
  <2> QED
    BY <2>1, <2>2
<1> HIDE DEF place
<1>7. Ordered(meta, s) \in [S -> Nat]
  <2>1. \A i \in S : list[i] \in Nat
    BY <1>1
  <2> HIDE DEF S, list
  <2> QED
    BY <1>3, <1>6, <2>1
<1>8. Len(Ordered(meta, s)) = N
  BY <1>1, <1>7
<1>9. \A a \in S : \E i \in S : Ordered(meta, s)[i] = list[a]
  <2> TAKE a \in S
  <2>1. PICK i \in S : place[i] = a
    BY <1>6
  <2>2. Ordered(meta, s)[i] = list[a]
    BY <1>3, <2>1
  <2> QED
    BY <2>2
<1>10. ASSUME NEW i \in S, NEW j \in S, i < j, <<s, Ordered(meta, s)[i]>> \in meta
       PROVE  <<s, Ordered(meta, s)[j]>> \in meta
  <2>1. place[i] \in S /\ place[j] \in S /\ place[i] \in B[place[j]]
    BY <1>6, <1>10
  <2>2. Earlier(place[i], place[j])
    BY <2>1
  <2>3. Sync(place[i])
    BY <1>3, <1>10
  <2>4. Sync(place[j])
    BY <2>2, <2>3
  <2> QED
    BY <1>3, <2>4
<1>11. \A i \in S : Ordered(meta, s)[i] \in Range(list)
  BY <1>1, <1>3, <1>6 DEF Range
<1> QED
  BY <1>7, <1>8, <1>9, <1>10, <1>11

\* A search is idle, or a record of these fields.
TaskOK ==
    \/ task = Idle
    \/ /\ task = [pc |-> task.pc, q |-> task.q, k |-> task.k, meta |-> task.meta,
                  shard |-> task.shard, try |-> task.try, merged |-> task.merged,
                  held |-> task.held, failed |-> task.failed, from |-> task.from]
       /\ task.pc \in {"ask", "done", "failed"}
       /\ task.shard \in Nat /\ task.try \in Nat /\ task.from \in Seq(Nat)

\* The search has an answer of each shard before the present one, and of that one
\* every replica before the next to ask has failed.
TriedInOrder ==
    task.pc # "idle" =>
        /\ task.shard = Len(task.from) + 1
        /\ task.pc = "ask" /\ task.shard \in Shards =>
              /\ task.try \in 1 .. Len(setup.order[task.shard])
              /\ \A i \in 1 .. task.try - 1 :
                    <<task.shard, Ordered(task.meta, task.shard)[i]>> \in task.failed

SearchInv == setup \in Setups /\ TaskOK /\ TriedInOrder /\ SyncingIsLastResort

LEMMA SearchInvInit == Init => SearchInv
  BY DEF Init, SearchInv, TaskOK, TriedInOrder, SyncingIsLastResort, Idle

LEMMA SearchInvKept ==
    ASSUME SearchInv, UNCHANGED <<setup, task>>
    PROVE  SearchInv'
<1>1. \A meta, s : Ordered(meta, s)' = Ordered(meta, s)
  BY DEF Ordered, SortBy
<1> QED
  BY <1>1 DEF SearchInv, TaskOK, TriedInOrder, SyncingIsLastResort, Shards

LEMMA BeginSearchKeeps ==
    ASSUME SearchInv, NEW q, NEW k, NEW meta, BeginSearch(q, k, meta)
    PROVE  SearchInv'
<1>1. /\ task' = [pc |-> "ask", q |-> q, k |-> k, meta |-> meta, shard |-> 1, try |-> 1,
                  merged |-> <<>>, held |-> {}, failed |-> {}, from |-> <<>>]
      /\ setup' = setup
  BY DEF BeginSearch
<1>2. TaskOK'
  BY <1>1 DEF TaskOK
<1>3. setup \in Setups /\ setup' \in Setups
  BY <1>1 DEF SearchInv
<1>4. 1 \in Shards => 1 \in 1 .. Len(setup.order[1])
  BY <1>3, ListIs
<1>5. TriedInOrder' /\ SyncingIsLastResort'
  BY <1>1, <1>4 DEF TriedInOrder, SyncingIsLastResort, Shards
<1> QED
  BY <1>2, <1>3, <1>5 DEF SearchInv

\* A Syncing replica is asked when all Active ones have failed: they come first.
LEMMA SearchReplicaKeeps ==
    ASSUME SearchInv, NEW rank, SearchReplica(rank)
    PROVE  SearchInv'
<1> DEFINE s == task.shard
           o == Ordered(task.meta, s)
           N == Len(setup.order[s])
<1>1. /\ task.pc = "ask" /\ s \in Shards /\ setup' = setup
      /\ \E m, h : task' = [task EXCEPT !.merged = m, !.held = h, !.from = Append(@, Target),
                                        !.shard = @ + 1, !.try = 1]
  BY DEF SearchReplica
<1>2. task # Idle /\ setup \in Setups
  BY <1>1 DEF SearchInv, Idle
<1>3. /\ task = [pc |-> task.pc, q |-> task.q, k |-> task.k, meta |-> task.meta,
                 shard |-> task.shard, try |-> task.try, merged |-> task.merged,
                 held |-> task.held, failed |-> task.failed, from |-> task.from]
      /\ task.shard \in Nat /\ task.try \in Nat /\ task.from \in Seq(Nat)
  BY <1>2 DEF SearchInv, TaskOK
<1>4. /\ s = Len(task.from) + 1 /\ task.try \in 1 .. N
      /\ \A i \in 1 .. task.try - 1 : <<s, o[i]>> \in task.failed
  BY <1>1 DEF SearchInv, TriedInOrder
<1>5. /\ o \in [1 .. N -> Nat] /\ N \in Nat
      /\ \A x \in 1 .. N : \E i \in 1 .. N : o[i] = setup.order[s][x]
      /\ DOMAIN setup.order[s] = 1 .. N
      /\ \A i, j \in 1 .. N : i < j /\ <<s, o[i]>> \in task.meta => <<s, o[j]>> \in task.meta
  <2> HIDE DEF s
  <2>1. N \in Nat /\ DOMAIN setup.order[s] = 1 .. N
    BY <1>1, <1>2, ListIs
  <2>2. setup \in Setups /\ s \in Shards
    BY <1>1, <1>2
  <2>3. o \in [1 .. N -> Nat]
    BY <2>2, OrderedIs
  <2>4. \A x \in 1 .. N : \E i \in 1 .. N : o[i] = setup.order[s][x]
    BY <2>2, OrderedIs
  <2>5. \A i, j \in 1 .. N : i < j /\ <<s, o[i]>> \in task.meta => <<s, o[j]>> \in task.meta
    BY <2>2, OrderedIs
  <2> QED
    BY <2>1, <2>3, <2>4, <2>5
<1>6. Target = o[task.try] /\ Target \in Nat
  BY <1>4, <1>5 DEF Target
<1>7. /\ task'.pc = "ask" /\ task'.shard = s + 1 /\ task'.try = 1
      /\ task'.from = Append(task.from, Target)
      /\ task'.meta = task.meta /\ task'.failed = task.failed
      /\ task' = [pc |-> task'.pc, q |-> task'.q, k |-> task'.k, meta |-> task'.meta,
                  shard |-> task'.shard, try |-> task'.try, merged |-> task'.merged,
                  held |-> task'.held, failed |-> task'.failed, from |-> task'.from]
  <2> HIDE DEF s
  <2>1. PICK m, h : task' = [task EXCEPT !.merged = m, !.held = h, !.from = Append(@, Target),
                                        !.shard = @ + 1, !.try = 1]
    BY <1>1
  <2> HIDE DEF Target
  <2> QED
    BY <1>1, <1>3, <2>1 DEF s
<1>8. task'.from \in Seq(Nat) /\ Len(task'.from) = s
  BY <1>3, <1>4, <1>6, <1>7
<1>9. TaskOK'
  BY <1>3, <1>7, <1>8 DEF TaskOK
<1>10. TriedInOrder'
  <2>1. s + 1 \in Shards => 1 \in 1 .. Len(setup.order[s + 1])
    BY <1>2, ListIs
  <2> QED
    BY <1>1, <1>7, <1>8, <2>1 DEF TriedInOrder, Shards
<1>11. ASSUME <<s, Target>> \in task.meta, NEW n \in Range(setup.order[s])
       PROVE  <<s, n>> \in task.meta \cup task.failed
  <2>0. PICK x \in 1 .. N : setup.order[s][x] = n
    BY <1>5 DEF Range
  <2>1. PICK i \in 1 .. N : o[i] = n
    BY <1>5, <2>0
  <2>2. CASE i < task.try
    BY <1>4, <2>1, <2>2
  <2>3. CASE i >= task.try
    <3>1. i = task.try \/ task.try < i
      BY <1>3, <1>5, <2>3
    <3> QED
      BY <1>4, <1>5, <1>6, <1>11, <2>1, <3>1
  <2> QED
    BY <1>3, <1>5, <2>2, <2>3
<1>12. ASSUME NEW x \in DOMAIN task'.from, <<x, task'.from[x]>> \in task'.meta,
              NEW n \in Range(setup'.order[x])
       PROVE  <<x, n>> \in task'.meta \cup task'.failed
  <2>1. CASE x = s
    <3>1. task'.from[s] = Target
      BY <1>3, <1>4, <1>6, <1>7
    <3> HIDE DEF Target, s
    <3> QED
      BY <1>1, <1>7, <1>11, <1>12, <2>1, <3>1
  <2>2. CASE x # s
    <3>1. x \in DOMAIN task.from /\ task'.from[x] = task.from[x]
      BY <1>3, <1>4, <1>7, <1>8, <2>2
    <3> QED
      BY <1>1, <1>7, <1>12, <3>1 DEF SearchInv, SyncingIsLastResort
  <2> QED
    BY <2>1, <2>2
<1> QED
  BY <1>1, <1>2, <1>9, <1>10, <1>12 DEF SearchInv, SyncingIsLastResort

\* A replica that fails joins the others before it; the next is asked, or none is left.
LEMMA SearchFailsKeeps ==
    ASSUME SearchInv, SearchFails
    PROVE  SearchInv'
<1> DEFINE s == task.shard
           o == Ordered(task.meta, s)
           N == Len(setup.order[s])
<1>1. /\ task.pc = "ask" /\ s \in Shards /\ setup' = setup
      /\ task' = [(IF task.try = Len(o) THEN GiveUp ELSE [task EXCEPT !.try = @ + 1])
                    EXCEPT !.failed = @ \cup {<<s, Target>>}]
  BY DEF SearchFails
<1>2. task # Idle /\ setup \in Setups
  BY <1>1 DEF SearchInv, Idle
<1>3. /\ task = [pc |-> task.pc, q |-> task.q, k |-> task.k, meta |-> task.meta,
                 shard |-> task.shard, try |-> task.try, merged |-> task.merged,
                 held |-> task.held, failed |-> task.failed, from |-> task.from]
      /\ task.shard \in Nat /\ task.try \in Nat /\ task.from \in Seq(Nat)
  BY <1>2 DEF SearchInv, TaskOK
<1>4. /\ s = Len(task.from) + 1 /\ task.try \in 1 .. N
      /\ \A i \in 1 .. task.try - 1 : <<s, o[i]>> \in task.failed
  BY <1>1 DEF SearchInv, TriedInOrder
<1>5. N \in Nat /\ Len(o) = N
  <2> HIDE DEF s
  <2>1. N \in Nat
    BY <1>1, <1>2, ListIs
  <2> QED
    BY <1>1, <1>2, <2>1, OrderedIs
<1>6. /\ task' = [pc |-> task'.pc, q |-> task'.q, k |-> task'.k, meta |-> task'.meta,
                  shard |-> task'.shard, try |-> task'.try, merged |-> task'.merged,
                  held |-> task'.held, failed |-> task'.failed, from |-> task'.from]
      /\ task'.shard = s /\ task'.meta = task.meta /\ task'.from = task.from
      /\ task'.failed = task.failed \cup {<<s, Target>>}
      /\ \/ task'.pc = "failed" /\ task'.try = task.try
         \/ task'.pc = "ask" /\ task.try # N /\ task'.try = task.try + 1
  <2> HIDE DEF Target
  <2>1. CASE task.try = Len(o)
    <3>1. task' = [[task EXCEPT !.pc = "failed"] EXCEPT !.failed = @ \cup {<<s, Target>>}]
      BY <1>1, <2>1 DEF GiveUp
    <3> QED
      BY <1>3, <3>1
  <2>2. CASE task.try # Len(o)
    <3>1. task' = [[task EXCEPT !.try = @ + 1] EXCEPT !.failed = @ \cup {<<s, Target>>}]
      BY <1>1, <2>2
    <3>2. task.try # N
      BY <1>5, <2>2
    <3> QED
      BY <1>1, <1>3, <3>1, <3>2
  <2> QED
    BY <2>1, <2>2
<1>7. TaskOK'
  BY <1>3, <1>6 DEF TaskOK
<1>8. TriedInOrder'
  <2>1. Target = o[task.try]
    BY DEF Target
  <2>2. Ordered(task.meta, task.shard)' = o
    <3>1. \A m, x : Ordered(m, x)' = Ordered(m, x)
      BY <1>1 DEF Ordered, SortBy
    <3> QED
      BY <1>6, <3>1
  <2>3. task'.pc = "ask" => task'.try \in 1 .. N
    BY <1>4, <1>5, <1>6
  <2>4. ASSUME task'.pc = "ask", NEW i \in 1 .. task'.try - 1
        PROVE  <<s, o[i]>> \in task'.failed
    <3>1. i = task.try \/ i \in 1 .. task.try - 1
      BY <1>3, <1>6, <2>4
    <3> HIDE DEF o
    <3> QED
      BY <1>4, <1>6, <2>1, <3>1
  <2>5. task'.shard = Len(task'.from) + 1
    BY <1>4, <1>6
  <2> HIDE DEF o
  <2> QED
    BY <1>1, <1>6, <2>2, <2>3, <2>4, <2>5 DEF TriedInOrder
<1>9. SyncingIsLastResort'
  BY <1>1, <1>6 DEF SearchInv, SyncingIsLastResort
<1> QED
  BY <1>1, <1>2, <1>7, <1>8, <1>9 DEF SearchInv

LEMMA FinishSearchKeeps ==
    ASSUME SearchInv, FinishSearch
    PROVE  SearchInv'
<1>1. /\ task.pc = "ask" /\ setup' = setup
      /\ \E m : task' = [task EXCEPT !.pc = "done", !.merged = m]
  BY DEF FinishSearch
<1>2. task # Idle /\ setup \in Setups
  BY <1>1 DEF SearchInv, Idle
<1>3. /\ task = [pc |-> task.pc, q |-> task.q, k |-> task.k, meta |-> task.meta,
                 shard |-> task.shard, try |-> task.try, merged |-> task.merged,
                 held |-> task.held, failed |-> task.failed, from |-> task.from]
      /\ task.shard \in Nat /\ task.try \in Nat /\ task.from \in Seq(Nat)
  BY <1>2 DEF SearchInv, TaskOK
<1>4. /\ task' = [pc |-> task'.pc, q |-> task'.q, k |-> task'.k, meta |-> task'.meta,
                  shard |-> task'.shard, try |-> task'.try, merged |-> task'.merged,
                  held |-> task'.held, failed |-> task'.failed, from |-> task'.from]
      /\ task'.pc = "done" /\ task'.shard = task.shard /\ task'.try = task.try
      /\ task'.meta = task.meta /\ task'.from = task.from /\ task'.failed = task.failed
  <2>1. PICK m : task' = [task EXCEPT !.pc = "done", !.merged = m]
    BY <1>1
  <2> QED
    BY <1>3, <2>1
<1>5. TaskOK'
  BY <1>3, <1>4 DEF TaskOK
<1>6. TriedInOrder' /\ SyncingIsLastResort'
  BY <1>1, <1>4 DEF SearchInv, TriedInOrder, SyncingIsLastResort
<1> QED
  BY <1>1, <1>2, <1>5, <1>6 DEF SearchInv

LEMMA SearchInvNext == SearchInv /\ [Next]_vars => SearchInv'
<1> SUFFICES ASSUME SearchInv, [Next]_vars
             PROVE  SearchInv'
  OBVIOUS
<1>1. ASSUME NEW r, NEW id, Upsert(r, id) \/ Delete(r, id)
      PROVE  SearchInv'
  BY <1>1, SearchInvKept DEF Upsert, Insert, Delete
<1>2. ASSUME NEW q, NEW k, NEW meta, BeginSearch(q, k, meta)
      PROVE  SearchInv'
  BY <1>2, BeginSearchKeeps
<1>3. ASSUME NEW rank, SearchReplica(rank)
      PROVE  SearchInv'
  BY <1>3, SearchReplicaKeeps
<1>4. CASE SearchFails
  BY <1>4, SearchFailsKeeps
<1>5. CASE FinishSearch
  BY <1>5, FinishSearchKeeps
<1>6. CASE UNCHANGED vars
  BY <1>6, SearchInvKept DEF vars
<1> QED
  BY <1>1, <1>2, <1>3, <1>4, <1>5, <1>6 DEF Next

\* For any shards, replicas, metadata and failing calls, coordinate_search takes an answer
\* from a Syncing replica only after every Active replica of that shard failed, but then
\* it does (the README has what the docs say instead).
THEOREM SyncingStaysLastResort == Spec => []SyncingIsLastResort
<1>1. SearchInv => SyncingIsLastResort
  BY DEF SearchInv
<1> QED
  BY <1>1, SearchInvInit, SearchInvNext, PTL DEF Spec

-----------------------------------------------------------------------------
(* What the two indexes hold.                                              *)

Vector == Nat \X Nat

\* The ids that a history of calls leaves with a vector.
Kept(st) == {j \in DOMAIN st : st[j] # Absent}

IsHistory(st) ==
    /\ DOMAIN st \subseteq Nat \ {0} /\ st \in [DOMAIN st -> Vector \cup {Absent}]
    /\ IsFiniteSet(Kept(st))

\* Each id that was ever stored has one node: its vector, or a tombstone.
GraphHolds(g, st) ==
    /\ g = [vec |-> g.vec, id |-> g.id, links |-> g.links, del |-> g.del, live |-> g.live,
            entry |-> g.entry]
    /\ g.vec \in Seq(Vector) /\ g.id \in Seq(DOMAIN st) /\ Len(g.id) = Len(g.vec)
    /\ \A n, m \in 1 .. Len(g.id) : g.id[n] = g.id[m] => n = m
    /\ g.del \subseteq 1 .. Len(g.id)
    /\ \A n \in 1 .. Len(g.id) : st[g.id[n]] = IF n \in g.del THEN Absent ELSE g.vec[n]
    /\ \A i \in DOMAIN st : i \notin Range(g.id) => st[i] = Absent
    /\ g.live = Cardinality(Kept(st))

\* Each id that is stored has one slot, and the free slots are stacked once each.
TableHolds(t, st) ==
    /\ t = [ids |-> t.ids, vec |-> t.vec, free |-> t.free, live |-> t.live]
    /\ t.ids \in Seq(DOMAIN st \cup {0}) /\ t.vec \in Seq(Vector) /\ Len(t.ids) = Len(t.vec)
    /\ \A a, b \in 1 .. Len(t.ids) : t.ids[a] = t.ids[b] /\ t.ids[a] # 0 => a = b
    /\ t.free \in Seq(1 .. Len(t.ids))
    /\ \A a \in 1 .. Len(t.free) : t.ids[t.free[a]] = 0
    /\ \A a, b \in 1 .. Len(t.free) : t.free[a] = t.free[b] => a = b
    /\ \A a \in 1 .. Len(t.ids) : t.ids[a] # 0 => st[t.ids[a]] = t.vec[a]
    /\ \A i \in DOMAIN st : i \notin Range(t.ids) => st[i] = Absent
    /\ t.live = Cardinality(Kept(st))

\* id_to_node and id_to_slot: the place of an id in a list that has it at most once.
LEMMA PlaceOf ==
    ASSUME NEW X, NEW list \in Seq(X), NEW i,
           \A n, m \in 1 .. Len(list) : list[n] = i /\ list[m] = i => n = m
    PROVE  LET p == SelectInSeq(list, LAMBDA x : x = i)
           IN  /\ p = 0 \/ (p \in 1 .. Len(list) /\ list[p] = i)
               /\ p = 0 => i \notin Range(list)
               /\ \A n \in 1 .. Len(list) : list[n] = i => p = n
<1> DEFINE I == {n \in 1 .. Len(list) : list[n] = i}
           p == IF I # {} THEN Min(I) ELSE 0
<1>1. SelectInSeq(list, LAMBDA x : x = i) = p
  BY DEF SelectInSeq
<1>2. ASSUME NEW n \in I
      PROVE  p = n
  <2>1. I = {n}
    BY <1>2
  <2>2. n \in Nat
    OBVIOUS
  <2>3. Min({n}) = n
    BY <2>2 DEF Min
  <2> HIDE DEF I
  <2> QED
    BY <2>1, <2>3
<1>3. I = {} => p = 0
  OBVIOUS
<1>4. DOMAIN list = 1 .. Len(list) /\ 0 \notin 1 .. Len(list)
  OBVIOUS
<1>5. /\ p = 0 \/ (p \in 1 .. Len(list) /\ list[p] = i)
      /\ p = 0 => i \notin Range(list)
      /\ \A n \in 1 .. Len(list) : list[n] = i => p = n
  <2> HIDE DEF p
  <2> QED
    BY <1>2, <1>3, <1>4 DEF Range
<1> QED
  BY <1>1, <1>5

LEMMA NodeIs ==
    ASSUME NEW g, NEW st, GraphHolds(g, st), NEW i
    PROVE  /\ NodeOf(g, i) = 0 \/ (NodeOf(g, i) \in 1 .. Len(g.id) /\ g.id[NodeOf(g, i)] = i)
           /\ NodeOf(g, i) = 0 => i \notin Range(g.id)
           /\ \A n \in 1 .. Len(g.id) : g.id[n] = i => NodeOf(g, i) = n
<1>1. /\ g.id \in Seq(DOMAIN st)
      /\ \A n, m \in 1 .. Len(g.id) : g.id[n] = i /\ g.id[m] = i => n = m
  BY DEF GraphHolds
<1> QED
  BY <1>1, PlaceOf DEF NodeOf

LEMMA SlotIs ==
    ASSUME NEW t, NEW st, TableHolds(t, st), NEW i, i # 0
    PROVE  /\ SlotOf(t, i) = 0 \/ (SlotOf(t, i) \in 1 .. Len(t.ids) /\ t.ids[SlotOf(t, i)] = i)
           /\ SlotOf(t, i) = 0 => i \notin Range(t.ids)
           /\ \A n \in 1 .. Len(t.ids) : t.ids[n] = i => SlotOf(t, i) = n
<1>1. /\ t.ids \in Seq(DOMAIN st \cup {0})
      /\ \A n, m \in 1 .. Len(t.ids) : t.ids[n] = i /\ t.ids[m] = i => n = m
  BY DEF TableHolds
<1> QED
  BY <1>1, PlaceOf DEF SlotOf

\* The history of a call, and what it does to the number of ids with a vector.
LEMMA KeptStores ==
    ASSUME NEW st, IsHistory(st), NEW id \in DOMAIN st, NEW v \in Vector \cup {Absent}
    PROVE  LET s == [st EXCEPT ![id] = v]
           IN  /\ IsHistory(s) /\ DOMAIN s = DOMAIN st /\ s[id] = v
               /\ \A i \in DOMAIN st : i # id => s[i] = st[i]
               /\ Cardinality(Kept(st)) \in Nat
               /\ v # Absent /\ st[id] = Absent => Cardinality(Kept(s)) = Cardinality(Kept(st)) + 1
               /\ v # Absent /\ st[id] # Absent => Cardinality(Kept(s)) = Cardinality(Kept(st))
               /\ v = Absent /\ st[id] # Absent => Cardinality(Kept(s)) = Cardinality(Kept(st)) - 1
               /\ v = Absent /\ st[id] = Absent => s = st
<1> DEFINE s == [st EXCEPT ![id] = v]
<1>1. /\ st \in [DOMAIN st -> Vector \cup {Absent}] /\ IsFiniteSet(Kept(st))
      /\ DOMAIN st \subseteq Nat \ {0}
  BY DEF IsHistory
<1>2. /\ DOMAIN s = DOMAIN st /\ s[id] = v /\ s \in [DOMAIN s -> Vector \cup {Absent}]
      /\ \A i \in DOMAIN st : i # id => s[i] = st[i]
  BY <1>1
<1>3. v = Absent /\ st[id] = Absent => s = st
  BY <1>1
<1> HIDE DEF s
<1>4. /\ v # Absent => Kept(s) = Kept(st) \cup {id}
      /\ v = Absent => Kept(s) = Kept(st) \ {id}
  BY <1>2 DEF Kept
<1>5. id \in Kept(st) <=> st[id] # Absent
  BY DEF Kept
<1>6. /\ IsFiniteSet(Kept(st) \cup {id}) /\ IsFiniteSet(Kept(st) \ {id})
      /\ Cardinality(Kept(st) \cup {id})
           = IF id \in Kept(st) THEN Cardinality(Kept(st)) ELSE Cardinality(Kept(st)) + 1
      /\ Cardinality(Kept(st) \ {id})
           = IF id \in Kept(st) THEN Cardinality(Kept(st)) - 1 ELSE Cardinality(Kept(st))
  BY <1>1, FS_AddElement, FS_RemoveElement
<1>7. IsFiniteSet(Kept(s))
  BY <1>4, <1>6
<1>8. IsHistory(s)
  BY <1>1, <1>2, <1>7 DEF IsHistory
<1>9. Cardinality(Kept(st)) \in Nat
  BY <1>1, FS_CardinalityType
<1> QED
  BY <1>2, <1>3, <1>4, <1>5, <1>6, <1>8, <1>9 DEF s

LEMMA VectorIsPresent == \A v \in Vector : v # Absent
  BY DEF Vector, Absent

\* The branch of insert for a known id: the vector is exchanged, a tombstone revived.
LEMMA ReplaceHolds ==
    ASSUME NEW g, NEW st, IsHistory(st), GraphHolds(g, st), NEW id \in DOMAIN st,
           NEW v \in Vector, NodeOf(g, id) # 0
    PROVE  GraphHolds(Replace(g, NodeOf(g, id), v), [st EXCEPT ![id] = v])
<1> DEFINE n == NodeOf(g, id)
           h == Replace(g, n, v)
           s == [st EXCEPT ![id] = v]
<1>1. n \in 1 .. Len(g.id) /\ g.id[n] = id
  BY NodeIs
<1>2. v # Absent
  BY VectorIsPresent
<1>3. /\ DOMAIN s = DOMAIN st /\ s[id] = v /\ \A i \in DOMAIN st : i # id => s[i] = st[i]
      /\ Cardinality(Kept(st)) \in Nat
      /\ st[id] = Absent => Cardinality(Kept(s)) = Cardinality(Kept(st)) + 1
      /\ st[id] # Absent => Cardinality(Kept(s)) = Cardinality(Kept(st))
  BY <1>2, KeptStores
<1>4. /\ g.vec \in Seq(Vector) /\ g.id \in Seq(DOMAIN st) /\ Len(g.id) = Len(g.vec)
      /\ g.del \subseteq 1 .. Len(g.id)
  BY DEF GraphHolds
<1>5. /\ h.vec = [g.vec EXCEPT ![n] = v] /\ h.id = g.id /\ h.del = g.del \ {n}
      /\ h.live = IF n \in g.del THEN g.live + 1 ELSE g.live
      /\ h = [vec |-> h.vec, id |-> h.id, links |-> h.links, del |-> h.del, live |-> h.live,
              entry |-> h.entry]
  <2>1. g = [vec |-> g.vec, id |-> g.id, links |-> g.links, del |-> g.del, live |-> g.live,
            entry |-> g.entry]
    BY DEF GraphHolds
  <2> HIDE DEF n
  <2>2. h = [vec |-> [g.vec EXCEPT ![n] = v], id |-> g.id, links |-> g.links,
             del |-> g.del \ {n}, live |-> IF n \in g.del THEN g.live + 1 ELSE g.live,
             entry |-> g.entry]
    <3> DEFINE x == g.vec
               y == g.del
               z == g.live
    <3>1. h = [g EXCEPT !.vec = [x EXCEPT ![n] = v], !.del = y \ {n},
                        !.live = IF n \in y THEN z + 1 ELSE z]
      BY <2>1 DEF Replace
    <3> HIDE DEF x, y, z, h
    <3>2. h = [vec |-> [x EXCEPT ![n] = v], id |-> g.id, links |-> g.links,
               del |-> y \ {n}, live |-> IF n \in y THEN z + 1 ELSE z, entry |-> g.entry]
      BY <2>1, <3>1
    <3> QED
      BY <3>2 DEF x, y, z
  <2> HIDE DEF h
  <2> QED
    BY <2>2
<1> HIDE DEF h, s, n
<1>6. h.vec \in Seq(Vector) /\ Len(h.vec) = Len(g.vec) /\ h.vec[n] = v
      /\ \A m \in 1 .. Len(g.id) : m # n => h.vec[m] = g.vec[m]
  BY <1>1, <1>4, <1>5
<1>7. n \in g.del <=> st[id] = Absent
  <2>1. st[id] = IF n \in g.del THEN Absent ELSE g.vec[n]
    BY <1>1 DEF GraphHolds
  <2>2. g.vec[n] \in Vector
    BY <1>1, <1>4
  <2> QED
    BY <2>1, <2>2, VectorIsPresent
<1>8. h.live = Cardinality(Kept(s))
  BY <1>3, <1>5, <1>7 DEF GraphHolds
<1>9. ASSUME NEW m \in 1 .. Len(h.id)
      PROVE  s[h.id[m]] = IF m \in h.del THEN Absent ELSE h.vec[m]
  <2>1. CASE m = n
    BY <1>1, <1>3, <1>5, <1>6, <2>1
  <2>2. CASE m # n
    <3>1. g.id[m] # id /\ g.id[m] \in DOMAIN st
      BY <1>1, <1>4, <1>5, <2>2 DEF GraphHolds
    <3> QED
      BY <1>3, <1>5, <1>6, <2>2, <3>1 DEF GraphHolds
  <2> QED
    BY <2>1, <2>2
<1>10. ASSUME NEW i \in DOMAIN s, i \notin Range(h.id)
       PROVE  s[i] = Absent
  <2>1. i # id
    BY <1>1, <1>4, <1>5, <1>10 DEF Range
  <2> QED
    BY <1>3, <1>5, <1>10, <2>1 DEF GraphHolds
<1>11. GraphHolds(h, s)
  BY <1>3, <1>4, <1>5, <1>6, <1>8, <1>9, <1>10 DEF GraphHolds
<1> QED
  BY <1>11 DEF h, s, n

\* insert_new: whatever edges it makes, the node is the last one and live.
LEMMA InsertNewHolds ==
    ASSUME NEW g, NEW st, IsHistory(st), GraphHolds(g, st), NEW id \in DOMAIN st,
           NEW v \in Vector, NodeOf(g, id) = 0, NEW level, NEW rank
    PROVE  GraphHolds(InsertNew(g, id, v, level, rank), [st EXCEPT ![id] = v])
<1> DEFINE h == InsertNew(g, id, v, level, rank)
           s == [st EXCEPT ![id] = v]
           N == Len(g.id)
<1>1. id \notin Range(g.id)
  BY NodeIs
<1>2. v # Absent
  BY VectorIsPresent
<1>3. /\ g.vec \in Seq(Vector) /\ g.id \in Seq(DOMAIN st) /\ Len(g.vec) = N
      /\ g.del \subseteq 1 .. N /\ N \in Nat /\ st[id] = Absent
  BY <1>1 DEF GraphHolds
<1>4. /\ DOMAIN s = DOMAIN st /\ s[id] = v /\ \A i \in DOMAIN st : i # id => s[i] = st[i]
      /\ Cardinality(Kept(st)) \in Nat /\ Cardinality(Kept(s)) = Cardinality(Kept(st)) + 1
  BY <1>2, <1>3, KeptStores
<1>5. /\ h.vec = Append(g.vec, v) /\ h.id = Append(g.id, id) /\ h.del = g.del
      /\ h.live = g.live + 1
      /\ h = [vec |-> h.vec, id |-> h.id, links |-> h.links, del |-> h.del, live |-> h.live,
              entry |-> h.entry]
  <2> DEFINE pushed == PushNode(g, id, v, level)
  <2>1. g = [vec |-> g.vec, id |-> g.id, links |-> g.links, del |-> g.del, live |-> g.live,
            entry |-> g.entry]
    BY DEF GraphHolds
  <2>2. \E k : pushed = [g EXCEPT !.vec = Append(g.vec, v), !.id = Append(g.id, id),
                                  !.live = g.live + 1, !.links = k]
    BY <2>1 DEF PushNode
  <2>3. \E k, e : h = [pushed EXCEPT !.links = k, !.entry = e]
    BY DEF InsertNew
  <2>4. PICK k : pushed = [g EXCEPT !.vec = Append(g.vec, v), !.id = Append(g.id, id),
                                    !.live = g.live + 1, !.links = k]
    BY <2>2
  <2>5. PICK x, e : h = [pushed EXCEPT !.links = x, !.entry = e]
    BY <2>3
  <2> HIDE DEF pushed, h
  <2>6. pushed = [vec |-> Append(g.vec, v), id |-> Append(g.id, id), links |-> k,
                  del |-> g.del, live |-> g.live + 1, entry |-> g.entry]
    BY <2>1, <2>4
  <2>7. h = [vec |-> Append(g.vec, v), id |-> Append(g.id, id), links |-> x,
             del |-> g.del, live |-> g.live + 1, entry |-> e]
    BY <2>5, <2>6
  <2> QED
    BY <2>7
<1> HIDE DEF h, s
<1>6. /\ h.vec \in Seq(Vector) /\ h.id \in Seq(DOMAIN s) /\ Len(h.id) = N + 1
      /\ Len(h.vec) = N + 1 /\ h.id[N + 1] = id /\ h.vec[N + 1] = v
      /\ \A m \in 1 .. N : h.id[m] = g.id[m] /\ h.vec[m] = g.vec[m]
  BY <1>3, <1>4, <1>5
<1>7. h.live = Cardinality(Kept(s))
  BY <1>4, <1>5 DEF GraphHolds
<1>8. \A m \in 1 .. N : g.id[m] # id /\ g.id[m] \in DOMAIN st
  BY <1>1, <1>3 DEF Range
<1>9. \A m \in 1 .. N + 1 : m = N + 1 \/ m \in 1 .. N
  BY <1>3
<1>10. ASSUME NEW m \in 1 .. N + 1
       PROVE  s[h.id[m]] = IF m \in h.del THEN Absent ELSE h.vec[m]
  <2>1. CASE m = N + 1
    BY <1>3, <1>4, <1>5, <1>6, <2>1
  <2>2. CASE m \in 1 .. N
    BY <1>4, <1>5, <1>6, <1>8, <2>2 DEF GraphHolds
  <2> QED
    BY <1>9, <2>1, <2>2
<1>11. ASSUME NEW i \in DOMAIN s, i \notin Range(h.id)
       PROVE  s[i] = Absent
  <2>1. i # id /\ i \notin Range(g.id)
    <3>1. DOMAIN h.id = 1 .. N + 1 /\ DOMAIN g.id = 1 .. N /\ 1 .. N \subseteq 1 .. N + 1
          /\ N + 1 \in 1 .. N + 1
      BY <1>3, <1>6
    <3> QED
      BY <1>6, <1>11, <3>1 DEF Range
  <2> QED
    BY <1>4, <1>11, <2>1 DEF GraphHolds
<1>12. \A n, m \in 1 .. Len(h.id) : h.id[n] = h.id[m] => n = m
  <2> TAKE n, m \in 1 .. Len(h.id)
  <2>1. \A a, b \in 1 .. N : g.id[a] = g.id[b] => a = b
    BY DEF GraphHolds
  <2> QED
    <3>1. CASE n \in 1 .. N /\ m \in 1 .. N
      BY <1>6, <2>1, <3>1
    <3>2. CASE n = N + 1 /\ m \in 1 .. N
      BY <1>6, <1>8, <3>2
    <3>3. CASE n \in 1 .. N /\ m = N + 1
      BY <1>6, <1>8, <3>3
    <3> QED
      BY <1>6, <1>9, <3>1, <3>2, <3>3
<1>13. h.del \subseteq 1 .. Len(h.id)
  BY <1>3, <1>5, <1>6
<1>14. GraphHolds(h, s)
  BY <1>5, <1>6, <1>7, <1>10, <1>11, <1>12, <1>13 DEF GraphHolds
<1> QED
  BY <1>14 DEF h, s

\* A delete leaves a tombstone, and nothing else when there is one or no node.
LEMMA HnswDeleteHolds ==
    ASSUME NEW g, NEW st, IsHistory(st), GraphHolds(g, st), NEW id \in DOMAIN st
    PROVE  GraphHolds(HnswDelete(g, id), [st EXCEPT ![id] = Absent])
<1> DEFINE n == NodeOf(g, id)
           h == HnswDelete(g, id)
           s == [st EXCEPT ![id] = Absent]
<1>1. /\ g.vec \in Seq(Vector) /\ g.id \in Seq(DOMAIN st) /\ Len(g.vec) = Len(g.id)
      /\ g.del \subseteq 1 .. Len(g.id)
  BY DEF GraphHolds
<1>2. /\ DOMAIN s = DOMAIN st /\ s[id] = Absent /\ \A i \in DOMAIN st : i # id => s[i] = st[i]
      /\ Cardinality(Kept(st)) \in Nat
      /\ st[id] # Absent => Cardinality(Kept(s)) = Cardinality(Kept(st)) - 1
      /\ st[id] = Absent => s = st
  BY KeptStores
<1>3. CASE n \in {0} \cup g.del
  <2>1. h = g
    BY <1>3 DEF HnswDelete
  <2>2. st[id] = Absent
    <3>1. CASE n = 0
      BY <3>1, NodeIs DEF GraphHolds
    <3>2. CASE n # 0
      <4>1. n \in g.del /\ n \in 1 .. Len(g.id) /\ g.id[n] = id
        BY <1>3, <3>2, NodeIs
      <4> QED
        BY <4>1 DEF GraphHolds
    <3> QED
      BY <3>1, <3>2
  <2> QED
    BY <1>2, <2>1, <2>2
<1>4. CASE n \notin {0} \cup g.del
  <2>1. n \in 1 .. Len(g.id) /\ g.id[n] = id /\ n \notin g.del
    BY <1>4, NodeIs
  <2>2. st[id] # Absent
    <3>1. st[id] = g.vec[n] /\ g.vec[n] \in Vector
      BY <1>1, <2>1 DEF GraphHolds
    <3> QED
      BY <3>1, VectorIsPresent
  <2>3. /\ h.vec = g.vec /\ h.id = g.id /\ h.del = g.del \cup {n} /\ h.live = g.live - 1
        /\ h = [vec |-> h.vec, id |-> h.id, links |-> h.links, del |-> h.del, live |-> h.live,
                entry |-> h.entry]
    <3>1. g = [vec |-> g.vec, id |-> g.id, links |-> g.links, del |-> g.del, live |-> g.live,
               entry |-> g.entry]
      BY DEF GraphHolds
    <3> DEFINE y == g.del
               z == g.live
    <3>2. h = [g EXCEPT !.del = y \cup {n}, !.live = z - 1]
      BY <1>4, <3>1 DEF HnswDelete
    <3> HIDE DEF n, h, y, z
    <3>3. h = [vec |-> g.vec, id |-> g.id, links |-> g.links, del |-> y \cup {n},
               live |-> z - 1, entry |-> g.entry]
      BY <3>1, <3>2
    <3> QED
      BY <3>3 DEF y, z
  <2> HIDE DEF h, s, n
  <2>4. ASSUME NEW m \in 1 .. Len(g.id)
        PROVE  s[g.id[m]] = IF m \in g.del \cup {n} THEN Absent ELSE g.vec[m]
    <3>1. CASE m = n
      BY <1>2, <2>1, <3>1
    <3>2. CASE m # n
      <4>1. g.id[m] # id /\ g.id[m] \in DOMAIN st
        BY <1>1, <2>1, <3>2 DEF GraphHolds
      <4> QED
        BY <1>2, <3>2, <4>1 DEF GraphHolds
    <3> QED
      BY <3>1, <3>2
  <2>5. \A i \in DOMAIN s : i \notin Range(g.id) => s[i] = Absent
    BY <1>2 DEF GraphHolds
  <2>6. h.live = Cardinality(Kept(s))
    BY <1>2, <2>2, <2>3 DEF GraphHolds
  <2>7. GraphHolds(h, s)
    BY <1>1, <1>2, <2>1, <2>3, <2>4, <2>5, <2>6 DEF GraphHolds
  <2> QED
    BY <2>7 DEF h, s, n
<1> QED
  BY <1>3, <1>4

LEMMA HnswInsertHolds ==
    ASSUME NEW g, NEW st, IsHistory(st), GraphHolds(g, st), NEW id \in DOMAIN st,
           NEW v \in Vector, NEW level, NEW rank
    PROVE  GraphHolds(HnswInsert(g, id, v, level, rank), [st EXCEPT ![id] = v])
  BY ReplaceHolds, InsertNewHolds DEF HnswInsert

-----------------------------------------------------------------------------
(* The exact index.                                                        *)

LEMMA BruteReplaceHolds ==
    ASSUME NEW t, NEW st, IsHistory(st), TableHolds(t, st), NEW id \in DOMAIN st,
           NEW v \in Vector, SlotOf(t, id) # 0
    PROVE  TableHolds(BruteInsert(t, id, v), [st EXCEPT ![id] = v])
<1> DEFINE n == SlotOf(t, id)
           u == BruteInsert(t, id, v)
           s == [st EXCEPT ![id] = v]
<1>0. id # 0
  BY DEF IsHistory
<1>1. n \in 1 .. Len(t.ids) /\ t.ids[n] = id
  BY <1>0, SlotIs
<1>2. /\ t.ids \in Seq(DOMAIN st \cup {0}) /\ t.vec \in Seq(Vector) /\ Len(t.vec) = Len(t.ids)
      /\ t.free \in Seq(1 .. Len(t.ids))
  BY DEF TableHolds
<1>3. st[id] # Absent
  <2>1. st[id] = t.vec[n] /\ t.vec[n] \in Vector
    BY <1>0, <1>1, <1>2 DEF TableHolds
  <2> QED
    BY <2>1, VectorIsPresent
<1>4. /\ DOMAIN s = DOMAIN st /\ s[id] = v /\ \A i \in DOMAIN st : i # id => s[i] = st[i]
      /\ Cardinality(Kept(s)) = Cardinality(Kept(st))
  BY <1>3, KeptStores, VectorIsPresent
<1>5. /\ u.ids = t.ids /\ u.vec = [t.vec EXCEPT ![n] = v] /\ u.free = t.free /\ u.live = t.live
      /\ u = [ids |-> u.ids, vec |-> u.vec, free |-> u.free, live |-> u.live]
  <2>1. t = [ids |-> t.ids, vec |-> t.vec, free |-> t.free, live |-> t.live]
    BY DEF TableHolds
  <2> DEFINE x == t.vec
  <2>2. u = [t EXCEPT !.vec = [x EXCEPT ![n] = v]]
    BY <2>1 DEF BruteInsert
  <2> HIDE DEF x, u, n
  <2>3. u = [ids |-> t.ids, vec |-> [x EXCEPT ![n] = v], free |-> t.free, live |-> t.live]
    BY <2>1, <2>2
  <2> QED
    BY <2>3 DEF x
<1> HIDE DEF n, u, s
<1>6. /\ u.vec \in Seq(Vector) /\ Len(u.vec) = Len(t.ids) /\ u.vec[n] = v
      /\ \A m \in 1 .. Len(t.ids) : m # n => u.vec[m] = t.vec[m]
  BY <1>1, <1>2, <1>5
<1>7. ASSUME NEW a \in 1 .. Len(t.ids), t.ids[a] # 0
      PROVE  s[t.ids[a]] = u.vec[a]
  <2>1. CASE a = n
    BY <1>1, <1>4, <1>6, <2>1
  <2>2. CASE a # n
    <3>1. t.ids[a] # id /\ t.ids[a] \in DOMAIN st
      BY <1>0, <1>1, <1>2, <1>7, <2>2 DEF TableHolds
    <3> QED
      BY <1>4, <1>6, <1>7, <2>2, <3>1 DEF TableHolds
  <2> QED
    BY <2>1, <2>2
<1>8. ASSUME NEW i \in DOMAIN s, i \notin Range(t.ids)
      PROVE  s[i] = Absent
  <2>1. i # id
    BY <1>1, <1>2, <1>8 DEF Range
  <2> QED
    BY <1>4, <1>8, <2>1 DEF TableHolds
<1>9. u.live = Cardinality(Kept(s))
  BY <1>4, <1>5 DEF TableHolds
<1>10. TableHolds(u, s)
  BY <1>2, <1>4, <1>5, <1>6, <1>7, <1>8, <1>9 DEF TableHolds
<1> QED
  BY <1>10 DEF u, s

\* A new id takes the slot that was freed last: it is free, and no longer on the stack.
LEMMA TakeSlotHolds ==
    ASSUME NEW t, NEW st, IsHistory(st), TableHolds(t, st), NEW id \in DOMAIN st,
           NEW v \in Vector, SlotOf(t, id) = 0, t.free # <<>>
    PROVE  TableHolds(BruteInsert(t, id, v), [st EXCEPT ![id] = v])
<1> DEFINE u == BruteInsert(t, id, v)
           s == [st EXCEPT ![id] = v]
           F == Len(t.free)
           n == t.free[F]
<1>0. id # 0 /\ 0 \notin DOMAIN st
  BY DEF IsHistory
<1>1. id \notin Range(t.ids)
  BY <1>0, SlotIs
<1>2. /\ t.ids \in Seq(DOMAIN st \cup {0}) /\ t.vec \in Seq(Vector) /\ Len(t.vec) = Len(t.ids)
      /\ t.free \in Seq(1 .. Len(t.ids)) /\ st[id] = Absent
  BY <1>1 DEF TableHolds
<1>3. F \in Nat /\ F >= 1 /\ n \in 1 .. Len(t.ids) /\ t.ids[n] = 0
  <2>1. F \in Nat /\ F >= 1
    BY <1>2
  <2>2. F \in 1 .. Len(t.free)
    BY <2>1
  <2>3. t.ids[t.free[F]] = 0 /\ t.free[F] \in 1 .. Len(t.ids)
    BY <1>2, <2>2 DEF TableHolds
  <2> QED
    BY <2>1, <2>3
<1>4. /\ DOMAIN s = DOMAIN st /\ s[id] = v /\ \A i \in DOMAIN st : i # id => s[i] = st[i]
      /\ Cardinality(Kept(st)) \in Nat /\ Cardinality(Kept(s)) = Cardinality(Kept(st)) + 1
  BY <1>2, KeptStores, VectorIsPresent
<1>5. /\ u.ids = [t.ids EXCEPT ![n] = id] /\ u.vec = [t.vec EXCEPT ![n] = v]
      /\ u.free = SubSeq(t.free, 1, F - 1) /\ u.live = t.live + 1
      /\ u = [ids |-> u.ids, vec |-> u.vec, free |-> u.free, live |-> u.live]
  <2>1. t = [ids |-> t.ids, vec |-> t.vec, free |-> t.free, live |-> t.live]
    BY DEF TableHolds
  <2> DEFINE x == t.vec
             y == t.ids
             z == t.free
             w == t.live
             c == TakeSlot(t, id, v)
  <2>2. c = [t EXCEPT !.ids = [y EXCEPT ![n] = id], !.vec = [x EXCEPT ![n] = v],
                      !.free = SubSeq(z, 1, F - 1)]
    BY <2>1 DEF TakeSlot, Last, Front
  <2>3. u = [c EXCEPT !.live = c.live + 1]
    BY DEF BruteInsert
  <2> HIDE DEF x, y, z, w, u, n, c, F
  <2>4. c = [ids |-> [y EXCEPT ![n] = id], vec |-> [x EXCEPT ![n] = v],
             free |-> SubSeq(z, 1, F - 1), live |-> w]
    BY <2>1, <2>2 DEF w
  <2>5. u = [ids |-> [y EXCEPT ![n] = id], vec |-> [x EXCEPT ![n] = v],
             free |-> SubSeq(z, 1, F - 1), live |-> w + 1]
    BY <2>3, <2>4
  <2> QED
    BY <2>5 DEF x, y, z, w
<1> HIDE DEF u, s
<1>6. /\ u.vec \in Seq(Vector) /\ Len(u.vec) = Len(t.ids) /\ u.vec[n] = v
      /\ u.ids \in Seq(DOMAIN st \cup {0}) /\ Len(u.ids) = Len(t.ids) /\ u.ids[n] = id
      /\ \A m \in 1 .. Len(t.ids) : m # n => u.vec[m] = t.vec[m] /\ u.ids[m] = t.ids[m]
  <2> HIDE DEF n
  <2> QED
    BY <1>2, <1>3, <1>5
<1>7. /\ u.free \in Seq(1 .. Len(t.ids)) /\ Len(u.free) = F - 1
      /\ \A a \in 1 .. F - 1 : u.free[a] = t.free[a] /\ a \in 1 .. F /\ a # F
  <2>1. F - 1 \in Nat /\ F - 1 <= F /\ 1 <= F /\ F \in 1 .. F
    BY <1>3
  <2> HIDE DEF n, F
  <2>2. \A a \in 1 .. F - 1 : a \in 1 .. F /\ a # F
    BY <1>3
  <2>3. /\ SubSeq(t.free, 1, F - 1) \in Seq(1 .. Len(t.ids))
        /\ Len(SubSeq(t.free, 1, F - 1)) = F - 1
        /\ \A a \in 1 .. F - 1 : SubSeq(t.free, 1, F - 1)[a] = t.free[a]
    <3>1. \A a \in 1 .. F - 1 : t.free[a] \in 1 .. Len(t.ids)
      <4>1. \A a \in 1 .. F - 1 : a \in DOMAIN t.free
        BY <1>3, <2>2 DEF F
      <4> QED
        BY <1>2, <1>3, <4>1
    <3>2. F - 1 \in Int /\ 1 \in Int /\ F \in Int
      BY <1>3
    <3>3. /\ SubSeq(t.free, 1, F - 1) \in Seq(1 .. Len(t.ids))
          /\ Len(SubSeq(t.free, 1, F - 1)) = IF 1 <= F - 1 THEN F - 1 - 1 + 1 ELSE 0
          /\ \A a \in 1 .. F - 1 - 1 + 1 : SubSeq(t.free, 1, F - 1)[a] = t.free[1 + a - 1]
      BY <3>1, <3>2, SubSeqProperties
    <3> QED
      BY <1>3, <3>3
  <2> QED
    BY <1>5, <2>2, <2>3
<1>8. ASSUME NEW a \in 1 .. Len(u.free)
      PROVE  u.ids[u.free[a]] = 0
  <2>1. a \in 1 .. F /\ a # F /\ u.free[a] = t.free[a] /\ F \in 1 .. F
    <3> HIDE DEF F, n
    <3> QED
      BY <1>3, <1>7, <1>8
  <2>2. t.free[a] # n /\ t.ids[t.free[a]] = 0 /\ t.free[a] \in 1 .. Len(t.ids)
    <3>1. \A x, y \in 1 .. F : t.free[x] = t.free[y] => x = y
      BY DEF TableHolds
    <3>2. \A x \in 1 .. F : t.ids[t.free[x]] = 0 /\ t.free[x] \in 1 .. Len(t.ids)
      BY <1>2 DEF TableHolds
    <3> HIDE DEF F
    <3> QED
      BY <2>1, <3>1, <3>2
  <2> QED
    BY <1>6, <2>1, <2>2
<1>9. \A a, b \in 1 .. Len(u.free) : u.free[a] = u.free[b] => a = b
  BY <1>7 DEF TableHolds
<1>10. \A m \in 1 .. Len(t.ids) : t.ids[m] # id
  BY <1>1, <1>2 DEF Range
<1>11. \A a, b \in 1 .. Len(u.ids) : u.ids[a] = u.ids[b] /\ u.ids[a] # 0 => a = b
  <2> HIDE DEF n
  <2>1. \A a, b \in 1 .. Len(t.ids) : t.ids[a] = t.ids[b] /\ t.ids[a] # 0 => a = b
    BY DEF TableHolds
  <2> QED
    BY <1>3, <1>6, <1>10, <2>1
<1>12. ASSUME NEW a \in 1 .. Len(u.ids), u.ids[a] # 0
       PROVE  s[u.ids[a]] = u.vec[a]
  <2> HIDE DEF n
  <2>1. CASE a = n
    BY <1>4, <1>6, <2>1
  <2>2. CASE a # n
    <3>1. u.ids[a] = t.ids[a] /\ u.vec[a] = t.vec[a] /\ a \in 1 .. Len(t.ids)
      BY <1>6, <2>2
    <3>2. t.ids[a] # id /\ t.ids[a] # 0 /\ t.ids[a] \in DOMAIN st
      BY <1>2, <1>10, <1>12, <3>1
    <3>3. st[t.ids[a]] = t.vec[a]
      BY <3>1, <3>2 DEF TableHolds
    <3> QED
      BY <1>4, <3>1, <3>2, <3>3
  <2> QED
    BY <2>1, <2>2
<1>13. ASSUME NEW i \in DOMAIN s, i \notin Range(u.ids)
       PROVE  s[i] = Absent
  <2> HIDE DEF n
  <2>1. DOMAIN u.ids = 1 .. Len(t.ids) /\ DOMAIN t.ids = 1 .. Len(t.ids)
    BY <1>2, <1>6
  <2>2. i # id /\ i # 0 /\ i \in DOMAIN st
    BY <1>0, <1>3, <1>4, <1>6, <1>13, <2>1 DEF Range
  <2>3. i \notin Range(t.ids)
    BY <1>3, <1>6, <1>13, <2>1, <2>2 DEF Range
  <2> QED
    BY <1>4, <2>2, <2>3 DEF TableHolds
<1>14. u.live = Cardinality(Kept(s))
  BY <1>4, <1>5 DEF TableHolds
<1>15. TableHolds(u, s)
  <2> HIDE DEF n, F
  <2> QED
    BY <1>4, <1>5, <1>6, <1>7, <1>8, <1>9, <1>11, <1>12, <1>13, <1>14 DEF TableHolds
<1> QED
  BY <1>15 DEF u, s

\* Without a free slot the new id gets one of its own.
LEMMA NewSlotHolds ==
    ASSUME NEW t, NEW st, IsHistory(st), TableHolds(t, st), NEW id \in DOMAIN st,
           NEW v \in Vector, SlotOf(t, id) = 0, t.free = <<>>
    PROVE  TableHolds(BruteInsert(t, id, v), [st EXCEPT ![id] = v])
<1> DEFINE u == BruteInsert(t, id, v)
           s == [st EXCEPT ![id] = v]
           N == Len(t.ids)
<1>0. id # 0 /\ 0 \notin DOMAIN st
  BY DEF IsHistory
<1>1. id \notin Range(t.ids)
  BY <1>0, SlotIs
<1>2. /\ t.ids \in Seq(DOMAIN st \cup {0}) /\ t.vec \in Seq(Vector) /\ Len(t.vec) = N
      /\ N \in Nat /\ st[id] = Absent
  BY <1>1 DEF TableHolds
<1>3. /\ DOMAIN s = DOMAIN st /\ s[id] = v /\ \A i \in DOMAIN st : i # id => s[i] = st[i]
      /\ Cardinality(Kept(st)) \in Nat /\ Cardinality(Kept(s)) = Cardinality(Kept(st)) + 1
  BY <1>2, KeptStores, VectorIsPresent
<1>4. /\ u.ids = Append(t.ids, id) /\ u.vec = Append(t.vec, v) /\ u.free = <<>>
      /\ u.live = t.live + 1
      /\ u = [ids |-> u.ids, vec |-> u.vec, free |-> u.free, live |-> u.live]
  <2>1. t = [ids |-> t.ids, vec |-> t.vec, free |-> t.free, live |-> t.live]
    BY DEF TableHolds
  <2> DEFINE x == Append(t.vec, v)
             y == Append(t.ids, id)
             c == [t EXCEPT !.ids = Append(@, id), !.vec = Append(@, v)]
  <2>2. u = [c EXCEPT !.live = c.live + 1]
    BY DEF BruteInsert
  <2>3. c = [t EXCEPT !.ids = y, !.vec = x]
    BY <2>1
  <2> HIDE DEF c, x, y, u
  <2>4. c = [ids |-> y, vec |-> x, free |-> t.free, live |-> t.live]
    BY <2>1, <2>3
  <2>5. u = [ids |-> y, vec |-> x, free |-> t.free, live |-> t.live + 1]
    BY <2>2, <2>4
  <2> QED
    BY <2>5 DEF x, y
<1> HIDE DEF u, s
<1>5. /\ u.ids \in Seq(DOMAIN s \cup {0}) /\ u.vec \in Seq(Vector)
      /\ Len(u.ids) = N + 1 /\ Len(u.vec) = N + 1 /\ u.ids[N + 1] = id /\ u.vec[N + 1] = v
      /\ \A m \in 1 .. N : u.ids[m] = t.ids[m] /\ u.vec[m] = t.vec[m]
  BY <1>2, <1>3, <1>4
<1>6. \A m \in 1 .. N : t.ids[m] # id /\ t.ids[m] \in DOMAIN st \cup {0}
  BY <1>1, <1>2 DEF Range
<1>7. \A m \in 1 .. N + 1 : m = N + 1 \/ m \in 1 .. N
  BY <1>2
<1>8. ASSUME NEW a \in 1 .. N + 1, u.ids[a] # 0
      PROVE  s[u.ids[a]] = u.vec[a]
  <2>1. CASE a = N + 1
    BY <1>3, <1>5, <2>1
  <2>2. CASE a \in 1 .. N
    BY <1>3, <1>5, <1>6, <1>8, <2>2 DEF TableHolds
  <2> QED
    BY <1>7, <2>1, <2>2
<1>9. ASSUME NEW i \in DOMAIN s, i \notin Range(u.ids)
      PROVE  s[i] = Absent
  <2>1. i # id /\ i \notin Range(t.ids)
    <3>1. /\ DOMAIN u.ids = 1 .. N + 1 /\ DOMAIN t.ids = 1 .. N /\ 1 .. N \subseteq 1 .. N + 1
          /\ N + 1 \in 1 .. N + 1
      BY <1>2, <1>5
    <3> QED
      BY <1>5, <1>9, <3>1 DEF Range
  <2> QED
    BY <1>3, <1>9, <2>1 DEF TableHolds
<1>10. \A a, b \in 1 .. N + 1 : u.ids[a] = u.ids[b] /\ u.ids[a] # 0 => a = b
  <2>1. \A a, b \in 1 .. N : t.ids[a] = t.ids[b] /\ t.ids[a] # 0 => a = b
    BY DEF TableHolds
  <2> TAKE a, b \in 1 .. N + 1
  <2> HAVE u.ids[a] = u.ids[b] /\ u.ids[a] # 0
  <2> HIDE DEF N
  <2>2. CASE a = N + 1 /\ b = N + 1
    BY <2>2
  <2>3. CASE a \in 1 .. N /\ b \in 1 .. N
    BY <1>5, <2>1, <2>3
  <2>4. CASE a = N + 1 /\ b \in 1 .. N
    BY <1>5, <1>6, <2>4
  <2>5. CASE a \in 1 .. N /\ b = N + 1
    BY <1>5, <1>6, <2>5
  <2> QED
    BY <1>7, <2>2, <2>3, <2>4, <2>5
<1>11. u.live = Cardinality(Kept(s))
  BY <1>3, <1>4 DEF TableHolds
<1>12. u.free \in Seq(1 .. Len(u.ids)) /\ 1 .. Len(u.free) = {}
  BY <1>4
<1>13. TableHolds(u, s)
  BY <1>4, <1>5, <1>8, <1>9, <1>10, <1>11, <1>12 DEF TableHolds
<1> QED
  BY <1>13 DEF u, s

LEMMA BruteInsertHolds ==
    ASSUME NEW t, NEW st, IsHistory(st), TableHolds(t, st), NEW id \in DOMAIN st,
           NEW v \in Vector
    PROVE  TableHolds(BruteInsert(t, id, v), [st EXCEPT ![id] = v])
  BY BruteReplaceHolds, TakeSlotHolds, NewSlotHolds

\* A delete frees the slot of the id, which was not on the stack.
LEMMA BruteDeleteHolds ==
    ASSUME NEW t, NEW st, IsHistory(st), TableHolds(t, st), NEW id \in DOMAIN st
    PROVE  TableHolds(BruteDelete(t, id), [st EXCEPT ![id] = Absent])
<1> DEFINE n == SlotOf(t, id)
           u == BruteDelete(t, id)
           s == [st EXCEPT ![id] = Absent]
           F == Len(t.free)
<1>0. id # 0 /\ 0 \notin DOMAIN st
  BY DEF IsHistory
<1>1. /\ t.ids \in Seq(DOMAIN st \cup {0}) /\ t.vec \in Seq(Vector) /\ Len(t.vec) = Len(t.ids)
      /\ t.free \in Seq(1 .. Len(t.ids)) /\ F \in Nat
  BY DEF TableHolds
<1>2. /\ DOMAIN s = DOMAIN st /\ s[id] = Absent /\ \A i \in DOMAIN st : i # id => s[i] = st[i]
      /\ Cardinality(Kept(st)) \in Nat
      /\ st[id] # Absent => Cardinality(Kept(s)) = Cardinality(Kept(st)) - 1
      /\ st[id] = Absent => s = st
  BY KeptStores
<1>3. CASE n = 0
  <2>1. u = t /\ st[id] = Absent
    <3>1. u = t
      BY <1>3 DEF BruteDelete
    <3>2. id \notin Range(t.ids)
      BY <1>0, <1>3, SlotIs
    <3> QED
      BY <3>1, <3>2 DEF TableHolds
  <2> QED
    BY <1>2, <2>1
<1>4. CASE n # 0
  <2>1. n \in 1 .. Len(t.ids) /\ t.ids[n] = id
    BY <1>0, <1>4, SlotIs
  <2>2. st[id] # Absent
    <3>1. st[id] = t.vec[n] /\ t.vec[n] \in Vector
      BY <1>0, <1>1, <2>1 DEF TableHolds
    <3> QED
      BY <3>1, VectorIsPresent
  <2>3. /\ u.ids = [t.ids EXCEPT ![n] = 0] /\ u.vec = t.vec /\ u.free = Append(t.free, n)
        /\ u.live = t.live - 1
        /\ u = [ids |-> u.ids, vec |-> u.vec, free |-> u.free, live |-> u.live]
    <3>1. t = [ids |-> t.ids, vec |-> t.vec, free |-> t.free, live |-> t.live]
      BY DEF TableHolds
    <3> DEFINE y == t.ids
               z == t.free
               w == t.live
    <3>2. u = [t EXCEPT !.ids = [y EXCEPT ![n] = 0], !.free = Append(z, n), !.live = w - 1]
      BY <1>4, <3>1 DEF BruteDelete
    <3> HIDE DEF y, z, w, u, n
    <3>3. u = [ids |-> [y EXCEPT ![n] = 0], vec |-> t.vec, free |-> Append(z, n), live |-> w - 1]
      BY <3>1, <3>2
    <3> QED
      BY <3>3 DEF y, z, w
  <2> HIDE DEF u, s, n
  <2>4. /\ u.ids \in Seq(DOMAIN s \cup {0}) /\ Len(u.ids) = Len(t.ids) /\ u.ids[n] = 0
        /\ \A m \in 1 .. Len(t.ids) : m # n => u.ids[m] = t.ids[m]
    BY <1>1, <1>2, <2>1, <2>3
  <2>5. /\ u.free \in Seq(1 .. Len(t.ids)) /\ Len(u.free) = F + 1 /\ u.free[F + 1] = n
        /\ \A a \in 1 .. F : u.free[a] = t.free[a]
        /\ \A a \in 1 .. F + 1 : a = F + 1 \/ a \in 1 .. F
    BY <1>1, <2>1, <2>3
  <2>6. \A a \in 1 .. F : t.ids[t.free[a]] = 0 /\ t.free[a] # n /\ t.free[a] \in 1 .. Len(t.ids)
    BY <1>0, <1>1, <2>1 DEF TableHolds
  <2>7. \A a \in 1 .. Len(u.free) : u.ids[u.free[a]] = 0
    <3> HIDE DEF F
    <3> TAKE a \in 1 .. Len(u.free)
    <3>1. CASE a = F + 1
      BY <2>4, <2>5, <3>1
    <3>2. CASE a \in 1 .. F
      <4>1. u.free[a] = t.free[a] /\ u.ids[t.free[a]] = t.ids[t.free[a]]
        BY <2>4, <2>5, <2>6, <3>2
      <4> QED
        BY <2>6, <3>2, <4>1
    <3> QED
      BY <2>5, <3>1, <3>2
  <2>8. \A a, b \in 1 .. Len(u.free) : u.free[a] = u.free[b] => a = b
    <3>1. \A a, b \in 1 .. F : t.free[a] = t.free[b] => a = b
      BY DEF TableHolds
    <3> HIDE DEF F
    <3> QED
      BY <2>5, <2>6, <3>1
  <2>9. ASSUME NEW a \in 1 .. Len(t.ids), u.ids[a] # 0
        PROVE  s[u.ids[a]] = u.vec[a] /\ a # n /\ u.ids[a] = t.ids[a]
    <3>1. a # n /\ u.ids[a] = t.ids[a]
      BY <2>4, <2>9
    <3>2. t.ids[a] # id /\ t.ids[a] \in DOMAIN st /\ st[t.ids[a]] = t.vec[a]
      BY <1>0, <1>1, <2>1, <2>9, <3>1 DEF TableHolds
    <3> QED
      BY <1>2, <2>3, <3>1, <3>2
  <2>10. \A a, b \in 1 .. Len(u.ids) : u.ids[a] = u.ids[b] /\ u.ids[a] # 0 => a = b
    BY <2>4, <2>9 DEF TableHolds
  <2>11. ASSUME NEW i \in DOMAIN s, i \notin Range(u.ids)
         PROVE  s[i] = Absent
    <3>1. CASE i = id
      BY <1>2, <3>1
    <3>2. CASE i # id
      <4>1. DOMAIN u.ids = 1 .. Len(t.ids) /\ DOMAIN t.ids = 1 .. Len(t.ids)
        BY <1>1, <2>4
      <4>2. i \notin Range(t.ids)
        BY <2>1, <2>4, <2>11, <3>2, <4>1 DEF Range
      <4> QED
        BY <1>2, <2>11, <3>2, <4>2 DEF TableHolds
    <3> QED
      BY <3>1, <3>2
  <2>12. u.live = Cardinality(Kept(s))
    BY <1>2, <2>2, <2>3 DEF TableHolds
  <2>13. TableHolds(u, s)
    BY <1>1, <2>3, <2>4, <2>5, <2>7, <2>8, <2>9, <2>10, <2>11, <2>12 DEF TableHolds
  <2> QED
    BY <2>13 DEF u, s
<1> QED
  BY <1>3, <1>4

-----------------------------------------------------------------------------
(* The invariant of the stored points.                                     *)

StoreInv ==
    /\ setup \in Setups
    /\ hnsw = [r \in Replicas |-> hnsw[r]] /\ brute = [r \in Replicas |-> brute[r]]
    /\ stored = [r \in Replicas |-> stored[r]]
    /\ \A r \in Replicas :
          /\ IsHistory(stored[r]) /\ DOMAIN stored[r] = setup.ids[r[1]]
          /\ GraphHolds(hnsw[r], stored[r]) /\ TableHolds(brute[r], stored[r])

LEMMA StoreInvInit == Init => StoreInv
<1> SUFFICES ASSUME Init
             PROVE  StoreInv
  OBVIOUS
<1>1. /\ setup \in Setups /\ hnsw = [r \in Replicas |-> EmptyGraph]
      /\ brute = [r \in Replicas |-> EmptyTable]
      /\ stored = [r \in Replicas |-> [i \in setup.ids[r[1]] |-> Absent]]
  BY DEF Init
<1>2. ASSUME NEW r \in Replicas
      PROVE  setup.ids[r[1]] \subseteq Nat \ {0}
  <2>1. PICK s \in Shards : \E n \in Range(setup.order[s]) : r = <<s, n>>
    BY DEF Replicas
  <2>2. /\ setup.ids \in Seq(SUBSET (Nat \ {0})) /\ Len(setup.ids) = Len(setup.order)
        /\ setup.order \in Seq(Seq(Nat) \ {<<>>})
    BY <1>1, SetupsAssumption DEF Setup
  <2>3. s \in DOMAIN setup.ids /\ r[1] = s
    <3>1. DOMAIN setup.ids = Shards
      BY <2>2 DEF Shards
    <3>2. r[1] = s
      BY <2>1
    <3> QED
      BY <3>1, <3>2
  <2> QED
    BY <2>2, <2>3
<1>3. ASSUME NEW I \in SUBSET (Nat \ {0})
      PROVE  LET st == [i \in I |-> Absent]
             IN  IsHistory(st) /\ GraphHolds(EmptyGraph, st) /\ TableHolds(EmptyTable, st)
  <2> DEFINE st == [i \in I |-> Absent]
  <2>1. DOMAIN st = I /\ \A i \in I : st[i] = Absent
    OBVIOUS
  <2> HIDE DEF st
  <2>2. Kept(st) = {}
    BY <2>1 DEF Kept
  <2>3. IsFiniteSet(Kept(st)) /\ Cardinality(Kept(st)) = 0
    BY <2>2, FS_EmptySet
  <2>4. st \in [DOMAIN st -> Vector \cup {Absent}]
    BY DEF st
  <2>5. IsHistory(st)
    BY <2>1, <2>3, <2>4 DEF IsHistory
  <2>6. GraphHolds(EmptyGraph, st)
    BY <2>1, <2>3 DEF GraphHolds, EmptyGraph
  <2>7. TableHolds(EmptyTable, st)
    BY <2>1, <2>3 DEF TableHolds, EmptyTable
  <2> QED
    BY <2>5, <2>6, <2>7 DEF st
<1>4. ASSUME NEW r \in Replicas
      PROVE  /\ IsHistory(stored[r]) /\ DOMAIN stored[r] = setup.ids[r[1]]
             /\ GraphHolds(hnsw[r], stored[r]) /\ TableHolds(brute[r], stored[r])
  <2>1. /\ hnsw[r] = EmptyGraph /\ brute[r] = EmptyTable
        /\ stored[r] = [i \in setup.ids[r[1]] |-> Absent]
    BY <1>1
  <2>2. setup.ids[r[1]] \in SUBSET (Nat \ {0})
    BY <1>2
  <2> QED
    BY <1>3, <2>1, <2>2
<1> QED
  BY <1>1, <1>4 DEF StoreInv

LEMMA StoreInvKept ==
    ASSUME StoreInv, UNCHANGED <<setup, hnsw, brute, stored>>
    PROVE  StoreInv'
<1>1. Replicas' = Replicas
  BY DEF Replicas, Shards
<1> QED
  BY <1>1 DEF StoreInv

\* A call on one replica changes what that replica holds, by the lemmas above.
LEMMA StoreInvCall ==
    ASSUME StoreInv, UNCHANGED setup, NEW r \in Replicas, NEW id \in setup.ids[r[1]],
           NEW v \in Vector \cup {Absent}, NEW g, NEW t,
           hnsw' = [hnsw EXCEPT ![r] = g], brute' = [brute EXCEPT ![r] = t],
           stored' = [stored EXCEPT ![r][id] = v],
           GraphHolds(g, [stored[r] EXCEPT ![id] = v]), TableHolds(t, [stored[r] EXCEPT ![id] = v])
    PROVE  StoreInv'
<1> DEFINE s == [stored[r] EXCEPT ![id] = v]
<1>1. Replicas' = Replicas
  BY DEF Replicas, Shards
<1>2. IsHistory(stored[r]) /\ DOMAIN stored[r] = setup.ids[r[1]]
  BY DEF StoreInv
<1>3. IsHistory(s) /\ DOMAIN s = setup.ids[r[1]]
  BY <1>2, KeptStores
<1>4. /\ hnsw = [x \in Replicas |-> hnsw[x]] /\ brute = [x \in Replicas |-> brute[x]]
      /\ stored = [x \in Replicas |-> stored[x]]
  BY DEF StoreInv
<1>5. stored' = [stored EXCEPT ![r] = s]
  OBVIOUS
<1> HIDE DEF s
<1>6. /\ hnsw' = [x \in Replicas |-> IF x = r THEN g ELSE hnsw[x]]
      /\ brute' = [x \in Replicas |-> IF x = r THEN t ELSE brute[x]]
      /\ stored' = [x \in Replicas |-> IF x = r THEN s ELSE stored[x]]
  BY <1>4, <1>5
<1>7. ASSUME NEW x \in Replicas
      PROVE  /\ IsHistory(stored'[x]) /\ DOMAIN stored'[x] = setup.ids[x[1]]
             /\ GraphHolds(hnsw'[x], stored'[x]) /\ TableHolds(brute'[x], stored'[x])
  <2>1. CASE x = r
    <3>1. hnsw'[x] = g /\ brute'[x] = t /\ stored'[x] = s
      BY <1>6, <2>1
    <3> QED
      BY <1>3, <2>1, <3>1 DEF s
  <2>2. CASE x # r
    <3>1. hnsw'[x] = hnsw[x] /\ brute'[x] = brute[x] /\ stored'[x] = stored[x]
      BY <1>6, <2>2
    <3> QED
      BY <3>1 DEF StoreInv
  <2> QED
    BY <2>1, <2>2
<1>8. /\ hnsw' = [x \in Replicas' |-> hnsw'[x]] /\ brute' = [x \in Replicas' |-> brute'[x]]
      /\ stored' = [x \in Replicas' |-> stored'[x]]
  BY <1>1, <1>6
<1> QED
  BY <1>1, <1>7, <1>8 DEF StoreInv

LEMMA InsertKeeps ==
    ASSUME StoreInv, NEW r \in Replicas, NEW id \in setup.ids[r[1]], NEW v \in setup.vectors,
           NEW level, NEW rank, Insert(r, id, v, level, rank)
    PROVE  StoreInv'
<1>1. v \in Vector
  BY SetupsAssumption DEF StoreInv, Setup, Vector
<1>2. /\ hnsw' = [hnsw EXCEPT ![r] = HnswInsert(hnsw[r], id, v, level, rank)]
      /\ brute' = [brute EXCEPT ![r] = BruteInsert(brute[r], id, v)]
      /\ stored' = [stored EXCEPT ![r][id] = v] /\ setup' = setup
  BY DEF Insert
<1>3. /\ IsHistory(stored[r]) /\ id \in DOMAIN stored[r]
      /\ GraphHolds(hnsw[r], stored[r]) /\ TableHolds(brute[r], stored[r])
  BY DEF StoreInv
<1>4. /\ GraphHolds(HnswInsert(hnsw[r], id, v, level, rank), [stored[r] EXCEPT ![id] = v])
      /\ TableHolds(BruteInsert(brute[r], id, v), [stored[r] EXCEPT ![id] = v])
  BY <1>1, <1>3, HnswInsertHolds, BruteInsertHolds
<1> QED
  BY <1>1, <1>2, <1>4, StoreInvCall

LEMMA DeleteKeeps ==
    ASSUME StoreInv, NEW r \in Replicas, NEW id \in setup.ids[r[1]], Delete(r, id)
    PROVE  StoreInv'
<1>1. /\ hnsw' = [hnsw EXCEPT ![r] = HnswDelete(hnsw[r], id)]
      /\ brute' = [brute EXCEPT ![r] = BruteDelete(brute[r], id)]
      /\ stored' = [stored EXCEPT ![r][id] = Absent] /\ setup' = setup
  BY DEF Delete
<1>2. /\ IsHistory(stored[r]) /\ id \in DOMAIN stored[r]
      /\ GraphHolds(hnsw[r], stored[r]) /\ TableHolds(brute[r], stored[r])
  BY DEF StoreInv
<1>3. /\ GraphHolds(HnswDelete(hnsw[r], id), [stored[r] EXCEPT ![id] = Absent])
      /\ TableHolds(BruteDelete(brute[r], id), [stored[r] EXCEPT ![id] = Absent])
  BY <1>2, HnswDeleteHolds, BruteDeleteHolds
<1> QED
  BY <1>1, <1>3, StoreInvCall

LEMMA StoreInvNext == StoreInv /\ [Next]_vars => StoreInv'
<1> SUFFICES ASSUME StoreInv, [Next]_vars
             PROVE  StoreInv'
  OBVIOUS
<1>1. ASSUME NEW r \in Replicas, NEW id \in setup.ids[r[1]], Upsert(r, id)
      PROVE  StoreInv'
  BY <1>1, InsertKeeps DEF Upsert
<1>2. ASSUME NEW r \in Replicas, NEW id \in setup.ids[r[1]], Delete(r, id)
      PROVE  StoreInv'
  BY <1>2, DeleteKeeps
<1>3. ASSUME NEW q, NEW k, NEW meta, BeginSearch(q, k, meta)
      PROVE  StoreInv'
  BY <1>3, StoreInvKept DEF BeginSearch, store
<1>4. ASSUME NEW rank, SearchReplica(rank)
      PROVE  StoreInv'
  BY <1>4, StoreInvKept DEF SearchReplica, store
<1>5. CASE SearchFails \/ FinishSearch \/ UNCHANGED vars
  BY <1>5, StoreInvKept DEF SearchFails, FinishSearch, store, vars
<1> QED
  BY <1>1, <1>2, <1>3, <1>4, <1>5 DEF Next

\* What each index holds is what can be read back from it.
LEMMA StoreInvHolds == StoreInv => HoldWhatWasStored
<1> SUFFICES ASSUME StoreInv, NEW r \in Replicas, NEW i \in DOMAIN stored[r]
             PROVE  LET g == hnsw[r]  n == NodeOf(g, i)  s == SlotOf(brute[r], i)
                    IN  /\ stored[r][i] = (IF n \in {0} \cup g.del THEN Absent ELSE g.vec[n])
                        /\ stored[r][i] = (IF s = 0 THEN Absent ELSE brute[r].vec[s])
                        /\ g.live = Cardinality({j \in DOMAIN stored[r] : stored[r][j] # Absent})
                        /\ brute[r].live = g.live
  BY DEF HoldWhatWasStored
<1> DEFINE g == hnsw[r]
           t == brute[r]
           st == stored[r]
           n == NodeOf(g, i)
           s == SlotOf(t, i)
<1>1. GraphHolds(g, st) /\ TableHolds(t, st) /\ IsHistory(st)
  BY DEF StoreInv
<1> HIDE DEF g, t, st
<1>2. i \in DOMAIN st /\ i # 0
  BY <1>1 DEF st, IsHistory
<1>3. /\ n = 0 \/ (n \in 1 .. Len(g.id) /\ g.id[n] = i)
      /\ n = 0 => i \notin Range(g.id)
  BY <1>1, NodeIs
<1>4. /\ s = 0 \/ (s \in 1 .. Len(t.ids) /\ t.ids[s] = i)
      /\ s = 0 => i \notin Range(t.ids)
  BY <1>1, <1>2, SlotIs
<1>5. st[i] = IF n \in {0} \cup g.del THEN Absent ELSE g.vec[n]
  <2> HIDE DEF n
  <2>1. CASE n = 0
    BY <1>1, <1>2, <1>3, <2>1 DEF GraphHolds
  <2>2. CASE n # 0
    BY <1>1, <1>3, <2>2 DEF GraphHolds
  <2> QED
    BY <2>1, <2>2
<1>6. st[i] = IF s = 0 THEN Absent ELSE t.vec[s]
  <2> HIDE DEF s
  <2>1. CASE s = 0
    BY <1>1, <1>2, <1>4, <2>1 DEF TableHolds
  <2>2. CASE s # 0
    BY <1>1, <1>2, <1>4, <2>2 DEF TableHolds
  <2> QED
    BY <2>1, <2>2
<1>7. g.live = Cardinality(Kept(st)) /\ t.live = Cardinality(Kept(st))
  BY <1>1 DEF GraphHolds, TableHolds
<1> QED
  BY <1>5, <1>6, <1>7 DEF Kept, g, t, st

\* For any calls on any replicas, the graph and the exact index hold what the last call
\* about each id stored, past tombstones that are revived and slots that are used again.
THEOREM IndexesHoldWhatWasStored == Spec => []HoldWhatWasStored
  BY StoreInvInit, StoreInvNext, StoreInvHolds, PTL DEF Spec

-----------------------------------------------------------------------------
(* Loops: every step keeps what the one before it kept.                    *)

\* A set of numbers has a least member.
LEMMA LeastNat ==
    ASSUME NEW T \in SUBSET Nat, T # {}
    PROVE  \E x \in T : \A y \in T : x <= y
<1>1. PICK x \in T : \A y \in T : ~(<<y, x>> \in OpToRel(<, Nat))
  BY NatLessThanWellFounded, WFMin, Zenon
<1>2. \A y \in T : y < x => <<y, x>> \in OpToRel(<, Nat)
  BY DEF OpToRel
<1>3. \A y \in T : ~(y < x)
  BY <1>1, <1>2, Zenon
<1> QED
  BY <1>3

\* Induction, for a set of numbers.
LEMMA UpToAll ==
    ASSUME NEW N \in Nat, NEW T, 0 \in T, \A i \in 1 .. N : i - 1 \in T => i \in T
    PROVE  \A i \in 0 .. N : i \in T
<1> DEFINE U == {i \in 0 .. N : i \notin T}
<1>1. SUFFICES ASSUME U # {}
               PROVE  FALSE
  OBVIOUS
<1>2. U \in SUBSET Nat
  OBVIOUS
<1>3. PICK x \in U : \A y \in U : x <= y
  BY <1>1, <1>2, LeastNat
<1>4. x \in 1 .. N /\ x - 1 \in 0 .. N /\ ~(x <= x - 1)
  OBVIOUS
<1>5. x - 1 \in T
  BY <1>3, <1>4
<1> QED
  BY <1>4, <1>5

\* Steps that stay in D[0], D[1], ... can be iterated.  There is a sequence of them,
Iterates(N, D, a, F, e) ==
    /\ e = [i \in 0 .. N |-> IF i = 0 THEN a ELSE F[i][e[i - 1]]]
    /\ \A i \in 0 .. N : e[i] \in D[i]

LEMMA IteratedExists ==
    ASSUME NEW N \in Nat, NEW D, NEW a \in D[0], NEW F,
           \A i \in 1 .. N : \A x \in D[i - 1] : F[i][x] \in D[i]
    PROVE  \E e : Iterates(N, D, a, F, e)
<1> DEFINE Upto(n, g) == /\ g = [i \in 0 .. n |-> IF i = 0 THEN a ELSE F[i][g[i - 1]]]
                         /\ \A i \in 0 .. n : g[i] \in D[i]
           T == {n \in 0 .. N : \E g : Upto(n, g)}
<1>1. 0 \in T
  <2> DEFINE g == [i \in 0 .. 0 |-> a]
  <2>1. g = [i \in 0 .. 0 |-> IF i = 0 THEN a ELSE F[i][g[i - 1]]]
    OBVIOUS
  <2>2. \A i \in 0 .. 0 : g[i] \in D[i]
    OBVIOUS
  <2> HIDE DEF g
  <2>3. Upto(0, g)
    BY <2>1, <2>2
  <2> QED
    BY <2>3
<1>2. ASSUME NEW n \in 1 .. N, n - 1 \in T
      PROVE  n \in T
  <2>1. PICK g : Upto(n - 1, g)
    BY <1>2
  <2> DEFINE h == [i \in 0 .. n |-> IF i = n THEN F[n][g[n - 1]] ELSE g[i]]
  <2>2. /\ n - 1 \in 0 .. n - 1 /\ \A i \in 0 .. n : i # n => i \in 0 .. n - 1
        /\ \A i \in 0 .. n : i # 0 => i - 1 \in 0 .. n - 1 /\ i - 1 # n /\ i - 1 \in 0 .. n
    OBVIOUS
  <2>3. g[n - 1] \in D[n - 1]
    BY <2>1, <2>2
  <2>4. F[n][g[n - 1]] \in D[n]
    BY <2>3
  <2>5. h[n] = F[n][g[n - 1]] /\ \A i \in 0 .. n - 1 : h[i] = g[i]
    OBVIOUS
  <2>6. \A i \in 0 .. n : h[i] = IF i = 0 THEN a ELSE F[i][h[i - 1]]
    <3> HIDE DEF h
    <3> TAKE i \in 0 .. n
    <3>1. CASE i = n
      BY <2>2, <2>5, <3>1
    <3>2. CASE i # n
      <4>1. i \in 0 .. n - 1
        BY <2>2, <3>2
      <4>2. g[i] = IF i = 0 THEN a ELSE F[i][g[i - 1]]
        BY <2>1, <4>1
      <4> QED
        BY <2>2, <2>5, <4>1, <4>2
    <3> QED
      BY <3>1, <3>2
  <2>7. h = [i \in 0 .. n |-> h[i]]
    OBVIOUS
  <2> HIDE DEF h
  <2>8. h = [i \in 0 .. n |-> IF i = 0 THEN a ELSE F[i][h[i - 1]]]
    BY <2>6, <2>7
  <2>9. \A i \in 0 .. n : h[i] \in D[i]
    BY <2>1, <2>2, <2>4, <2>5
  <2>10. Upto(n, h)
    BY <2>8, <2>9
  <2> QED
    BY <2>10
<1> HIDE DEF T
<1>3. \A i \in 0 .. N : i \in T
  BY <1>1, <1>2, UpToAll
<1>4. N \in T
  BY <1>3
<1> QED
  BY <1>4 DEF T, Iterates

\* and what it makes is in D[N].
LEMMA IteratedStays ==
    ASSUME NEW N \in Nat, NEW D, NEW s, s[0] \in D[0],
           \A i \in 1 .. N : s[i - 1] \in D[i - 1] => s[i] \in D[i]
    PROVE  s[N] \in D[N]
<1> DEFINE T == {i \in 0 .. N : s[i] \in D[i]}
<1>1. 0 \in T
  OBVIOUS
<1>2. \A i \in 1 .. N : i - 1 \in T => i \in T
  OBVIOUS
<1> HIDE DEF T
<1>3. N \in T
  BY <1>1, <1>2, UpToAll
<1> QED
  BY <1>3 DEF T

-----------------------------------------------------------------------------
(* Searching a layer.                                                      *)

\* From a node of S the lists of the layer lead to nodes of S.
Closed(g, layer, S) == \A n \in S : LinksAt(g, n, layer) \in Seq(S)

LEMMA HopStays ==
    ASSUME NEW g, NEW layer, NEW S, Closed(g, layer, S), NEW q, NEW n \in S
    PROVE  Hop(g, q, n, layer) \in S
<1> DEFINE list == LinksAt(g, n, layer)
           N == Len(list)
           D == [i \in 0 .. N |-> S]
           a == n
           Step(x, i) == Closer(g, q, x, list[i])
           F == [i \in 1 .. N |-> [x \in D[i - 1] |-> Step(x, i)]]
           s[i \in 0 .. N] == IF i = 0 THEN a ELSE Step(s[i - 1], i)
<1>1. N \in Nat /\ \A i \in 1 .. N : list[i] \in S
  BY DEF Closed
<1>2. \A i \in 0 .. N : i = 0 \/ (i \in 1 .. N /\ i - 1 \in 0 .. N)
  BY <1>1
<1>3. N \in Nat /\ a \in D[0]
  BY <1>1
<1>4. \A i \in 1 .. N : \A x \in D[i - 1] : Step(x, i) \in D[i]
  BY <1>1, <1>2 DEF Closer
<1>5. s = [i \in 0 .. N |-> IF i = 0 THEN a ELSE Step(s[i - 1], i)]
  <2> HIDE DEF D, N, a, Step
  <2>1. \A i \in 1 .. N : \A x \in D[i - 1] : F[i][x] = Step(x, i)
    OBVIOUS
  <2> HIDE DEF F
  <2>2. PICK e : Iterates(N, D, a, F, e)
    BY <1>3, <1>4, <2>1, IteratedExists
  <2>3. \A i \in 0 .. N : i # 0 => F[i][e[i - 1]] = Step(e[i - 1], i)
    BY <1>2, <2>1, <2>2 DEF Iterates
  <2>4. e = [i \in 0 .. N |-> IF i = 0 THEN a ELSE Step(e[i - 1], i)]
    BY <2>2, <2>3 DEF Iterates
  <2> QED
    BY <2>4
<1>6. Hop(g, q, n, layer) = s[N]
  BY DEF Hop, Iterated
<1>7. s[N] \in D[N]
  <2> HIDE DEF D, N, a, Step, s
  <2>1. s[0] = a /\ \A i \in 1 .. N : s[i] = Step(s[i - 1], i)
    <3>1. \A i \in 1 .. N : i \in 0 .. N /\ i # 0
      OBVIOUS
    <3> QED
      BY <1>3, <1>5, <3>1
  <2>2. \A i \in 1 .. N : s[i - 1] \in D[i - 1] => s[i] \in D[i]
    BY <1>4, <2>1
  <2> QED
    BY <1>3, <2>1, <2>2, IteratedStays
<1> QED
  BY <1>3, <1>6, <1>7

LEMMA GreedySearchStays ==
    ASSUME NEW g, g.vec \in Seq(Vector), NEW layer, NEW S, Closed(g, layer, S), NEW q,
           NEW start \in S
    PROVE  GreedySearchLayer(g, q, start, layer) \in S
<1> DEFINE N == Len(g.vec)
           D == [i \in 0 .. N |-> S]
           a == start
           Step(x, i) == Hop(g, q, x, layer)
           F == [i \in 1 .. N |-> [x \in D[i - 1] |-> Step(x, i)]]
           s[i \in 0 .. N] == IF i = 0 THEN a ELSE Step(s[i - 1], i)
<1>1. N \in Nat
  OBVIOUS
<1>2. \A i \in 0 .. N : i = 0 \/ (i \in 1 .. N /\ i - 1 \in 0 .. N)
  BY <1>1
<1>3. N \in Nat /\ a \in D[0]
  BY <1>1
<1>4. \A i \in 1 .. N : \A x \in D[i - 1] : Step(x, i) \in D[i]
  BY <1>1, <1>2, HopStays
<1>5. s = [i \in 0 .. N |-> IF i = 0 THEN a ELSE Step(s[i - 1], i)]
  <2> HIDE DEF D, N, a, Step
  <2>1. \A i \in 1 .. N : \A x \in D[i - 1] : F[i][x] = Step(x, i)
    OBVIOUS
  <2> HIDE DEF F
  <2>2. PICK e : Iterates(N, D, a, F, e)
    BY <1>3, <1>4, <2>1, IteratedExists
  <2>3. \A i \in 0 .. N : i # 0 => F[i][e[i - 1]] = Step(e[i - 1], i)
    BY <1>2, <2>1, <2>2 DEF Iterates
  <2>4. e = [i \in 0 .. N |-> IF i = 0 THEN a ELSE Step(e[i - 1], i)]
    BY <2>2, <2>3 DEF Iterates
  <2> QED
    BY <2>4
<1>6. GreedySearchLayer(g, q, start, layer) = s[N]
  BY DEF GreedySearchLayer, Iterated
<1>7. s[N] \in D[N]
  <2> HIDE DEF D, N, a, Step, s
  <2>1. s[0] = a /\ \A i \in 1 .. N : s[i] = Step(s[i - 1], i)
    <3>1. \A i \in 1 .. N : i \in 0 .. N /\ i # 0
      OBVIOUS
    <3> QED
      BY <1>3, <1>5, <3>1
  <2>2. \A i \in 1 .. N : s[i - 1] \in D[i - 1] => s[i] \in D[i]
    BY <1>4, <2>1
  <2> QED
    BY <1>3, <2>1, <2>2, IteratedStays
<1> QED
  BY <1>3, <1>6, <1>7

LEMMA MaxOfTwo ==
    ASSUME NEW d \in Int
    PROVE  Max({0, d}) = IF d > 0 THEN d ELSE 0
<1> DEFINE m == IF d > 0 THEN d ELSE 0
<1>1. m \in {0, d} /\ \A y \in {0, d} : m >= y
  OBVIOUS
<1>2. \A x \in {0, d} : (\A y \in {0, d} : x >= y) => x = m
  OBVIOUS
<1> HIDE DEF m
<1>3. Max({0, d}) = m
  BY <1>1, <1>2 DEF Max
<1> QED
  BY <1>3 DEF m

\* The descent stays on the nodes S[layer] of each layer, among which are those of the
\* layer above it.
LEMMA DescendStays ==
    ASSUME NEW g, g.vec \in Seq(Vector), NEW q, NEW top \in Nat, NEW low \in Nat, NEW S,
           \A layer \in low + 1 .. top :
              Closed(g, layer, S[layer]) /\ S[layer] \subseteq S[layer - 1],
           NEW start \in S[top]
    PROVE  Descend(g, q, start, top, low) \in S[IF top < low THEN top ELSE low]
<1> DEFINE N == Max({0, top - low})
           D == [i \in 0 .. N |-> S[top - i]]
           a == start
           Step(x, i) == GreedySearchLayer(g, q, x, top + 1 - i)
           F == [i \in 1 .. N |-> [x \in D[i - 1] |-> Step(x, i)]]
           s[i \in 0 .. N] == IF i = 0 THEN a ELSE Step(s[i - 1], i)
<1>1. N \in Nat /\ N = IF top < low THEN 0 ELSE top - low
  <2>1. top - low \in Int
    OBVIOUS
  <2> QED
    BY <2>1, MaxOfTwo
<1>2. \A i \in 0 .. N : i = 0 \/ (i \in 1 .. N /\ i - 1 \in 0 .. N)
  BY <1>1
<1>3. N \in Nat /\ a \in D[0]
  <2>1. 0 \in 0 .. N /\ top - 0 = top
    BY <1>1
  <2> HIDE DEF N
  <2> QED
    BY <1>1, <2>1
<1>4. \A i \in 1 .. N : \A x \in D[i - 1] : Step(x, i) \in D[i]
  <2> HIDE DEF N
  <2> TAKE i \in 1 .. N
  <2> TAKE x \in D[i - 1]
  <2>1. /\ i \in 0 .. N /\ i - 1 \in 0 .. N /\ top - (i - 1) = top + 1 - i
        /\ top + 1 - i \in low + 1 .. top /\ (top + 1 - i) - 1 = top - i
    BY <1>1
  <2>2. x \in S[top + 1 - i] /\ D[i] = S[top - i]
    BY <2>1
  <2>3. Closed(g, top + 1 - i, S[top + 1 - i]) /\ S[top + 1 - i] \subseteq S[top - i]
    BY <2>1
  <2>4. GreedySearchLayer(g, q, x, top + 1 - i) \in S[top + 1 - i]
    BY <2>2, <2>3, GreedySearchStays
  <2> QED
    BY <2>2, <2>3, <2>4
<1>5. s = [i \in 0 .. N |-> IF i = 0 THEN a ELSE Step(s[i - 1], i)]
  <2> HIDE DEF D, N, a, Step
  <2>1. \A i \in 1 .. N : \A x \in D[i - 1] : F[i][x] = Step(x, i)
    OBVIOUS
  <2> HIDE DEF F
  <2>2. PICK e : Iterates(N, D, a, F, e)
    BY <1>3, <1>4, <2>1, IteratedExists
  <2>3. \A i \in 0 .. N : i # 0 => F[i][e[i - 1]] = Step(e[i - 1], i)
    BY <1>2, <2>1, <2>2 DEF Iterates
  <2>4. e = [i \in 0 .. N |-> IF i = 0 THEN a ELSE Step(e[i - 1], i)]
    BY <2>2, <2>3 DEF Iterates
  <2> QED
    BY <2>4
<1>6. Descend(g, q, start, top, low) = s[N]
  BY DEF Descend, Iterated
<1>7. s[N] \in D[N]
  <2> HIDE DEF D, N, a, Step, s
  <2>1. s[0] = a /\ \A i \in 1 .. N : s[i] = Step(s[i - 1], i)
    <3>1. \A i \in 1 .. N : i \in 0 .. N /\ i # 0
      OBVIOUS
    <3> QED
      BY <1>3, <1>5, <3>1
  <2>2. \A i \in 1 .. N : s[i - 1] \in D[i - 1] => s[i] \in D[i]
    BY <1>4, <2>1
  <2> QED
    BY <1>3, <2>1, <2>2, IteratedStays
<1>8. D[N] = S[IF top < low THEN top ELSE low]
  <2>1. N \in 0 .. N /\ top - N = IF top < low THEN top ELSE low
    BY <1>1
  <2> HIDE DEF N
  <2> QED
    BY <2>1
<1> HIDE DEF s
<1> QED
  BY <1>6, <1>7, <1>8

-----------------------------------------------------------------------------
(* Orders among the nodes.                                                 *)

LEMMA DistIsNumber ==
    ASSUME NEW a \in Vector, NEW b \in Vector
    PROVE  Dist(a, b) \in Int
<1>1. a[1] - b[1] \in Int /\ a[2] - b[2] \in Int
  BY DEF Vector
<1>2. \A x, y \in Int : x * x + y * y \in Int
  OBVIOUS
<1> QED
  BY <1>1, <1>2 DEF Dist

\* By the key d, and by the key e where d is equal.
ByKeys(S, d, e) ==
    [a \in S |-> {b \in S : d[b] < d[a] \/ (d[b] = d[a] /\ e[b] < e[a])}]

LEMMA KeysOrder ==
    ASSUME NEW S, IsFiniteSet(S), NEW d, NEW e, \A a \in S : d[a] \in Int /\ e[a] \in Int,
           \A a, b \in S : d[a] = d[b] /\ e[a] = e[b] => a = b
    PROVE  Orders(S, ByKeys(S, d, e))
<1> DEFINE B == ByKeys(S, d, e)
<1>1. \A a, b \in S : b \in B[a] <=> d[b] < d[a] \/ (d[b] = d[a] /\ e[b] < e[a])
  BY DEF ByKeys
<1>2. B \in [S -> SUBSET S]
  BY DEF ByKeys
<1> HIDE DEF B
<1>3. Orders(S, B)
  BY <1>1, <1>2 DEF Orders
<1> QED
  BY <1>3 DEF B

\* What SortBy makes of an order.
LEMMA SortedArranges ==
    ASSUME NEW S, NEW B, Orders(S, B)
    PROVE  Arranges(S, B, [i \in 1 .. Cardinality(S) |-> CHOOSE a \in S : Cardinality(B[a]) = i - 1])
  BY DEF Arranges

\* There is a first element.
LEMMA FirstExists ==
    ASSUME NEW S, NEW B, Orders(S, B), S # {}
    PROVE  \E a \in S : \A b \in S \ {a} : a \in B[b]
<1> DEFINE r == [i \in 1 .. Cardinality(S) |-> CHOOSE a \in S : Cardinality(B[a]) = i - 1]
           N == Cardinality(S)
<1>1. Arranges(S, B, r)
  BY SortedArranges
<1> HIDE DEF r
<1>2. /\ N \in Nat /\ r \in [1 .. N -> S] /\ \A a \in S : \E i \in 1 .. N : r[i] = a
      /\ \A i, j \in 1 .. N : i < j => r[i] \in B[r[j]]
  BY <1>1, ArrangedIs
<1> HIDE DEF N
<1>3. 1 \in 1 .. N
  BY <1>2
<1>4. ASSUME NEW b \in S \ {r[1]}
      PROVE  r[1] \in B[b]
  <2>1. PICK i \in 1 .. N : r[i] = b
    BY <1>2
  <2>2. 1 < i
    BY <2>1, <1>4
  <2> QED
    BY <1>2, <1>3, <2>1, <2>2
<1> QED
  BY <1>2, <1>3, <1>4

Nodes(g) == 1 .. Len(g.vec)

\* The next candidate is one of them.
LEMMA NearestIs ==
    ASSUME NEW g, g.vec \in Seq(Vector), NEW q \in Vector, NEW C \in SUBSET Nodes(g), C # {}
    PROVE  /\ IsFiniteSet(C) /\ Nearest(g, q, C) \in C
           /\ \A b \in C \ {Nearest(g, q, C)} : Nearer(g, q, Nearest(g, q, C), b)
<1> DEFINE d == [a \in C |-> Dist(g.vec[a], q)]
           e == [a \in C |-> a]
           B == ByKeys(C, d, e)
<1>1. Len(g.vec) \in Nat /\ \A a \in Nodes(g) : g.vec[a] \in Vector
  BY DEF Nodes
<1>2. IsFiniteSet(C)
  <2>1. IsFiniteSet(1 .. Len(g.vec))
    BY <1>1, FS_Interval
  <2> QED
    BY <2>1, FS_Subset DEF Nodes
<1>3. \A a \in C : d[a] \in Int /\ e[a] \in Int
  <2> TAKE a \in C
  <2>1. a \in Int
    BY <1>1 DEF Nodes
  <2>2. g.vec[a] \in Vector
    BY <1>1
  <2>3. Dist(g.vec[a], q) \in Int
    BY <2>2, DistIsNumber
  <2> QED
    BY <2>1, <2>3
<1>4. \A a, b \in C : e[a] = e[b] => a = b
  OBVIOUS
<1>5. \A a, b \in C : b \in B[a] <=> Nearer(g, q, b, a)
  BY DEF ByKeys, Nearer
<1> HIDE DEF d, e
<1>6. Orders(C, B)
  BY <1>2, <1>3, <1>4, KeysOrder
<1> HIDE DEF B
<1>7. \E a \in C : \A b \in C \ {a} : a \in B[b]
  BY <1>6, FirstExists
<1>8. \E a \in C : \A b \in C \ {a} : Nearer(g, q, a, b)
  BY <1>5, <1>7
<1> QED
  BY <1>2, <1>8 DEF Nearest

-----------------------------------------------------------------------------
(* search_layer stays on the nodes of its layer and finds some.            *)

Searching(S) == [visited : SUBSET S, candidates : SUBSET S, results : (SUBSET S) \ {{}}]

LEMMA VisitStays ==
    ASSUME NEW g, NEW q, NEW ef \in Nat, ef >= 1, NEW S, NEW s \in Searching(S), NEW nbr \in S
    PROVE  VisitNeighbor(g, q, ef, s, nbr) \in Searching(S)
<1> DEFINE more == s.results \cup {nbr}
           z == Farthest(g, q, more)
<1>1. s.visited \in SUBSET S /\ s.candidates \in SUBSET S /\ more \in SUBSET S
      /\ more # {} /\ s = [visited |-> s.visited, candidates |-> s.candidates, results |-> s.results]
  BY DEF Searching
<1>2. Cardinality(more) > ef => more \ {z} # {}
  <2> HIDE DEF more, z
  <2>1. SUFFICES ASSUME more \ {z} = {}
                 PROVE  ~(Cardinality(more) > ef)
    OBVIOUS
  <2>2. more = {z}
    BY <1>1, <2>1
  <2>3. Cardinality(more) = 1
    BY <2>2, FS_Singleton
  <2> QED
    BY <2>3
<1>3. [visited |-> s.visited \cup {nbr}, candidates |-> s.candidates \cup {nbr},
       results |-> IF Cardinality(more) > ef THEN more \ {z} ELSE more] \in Searching(S)
  <2> HIDE DEF more, z
  <2> QED
    BY <1>1, <1>2 DEF Searching
<1>4. [s EXCEPT !.visited = @ \cup {nbr}] \in Searching(S)
  BY DEF Searching
<1> QED
  BY <1>3, <1>4 DEF VisitNeighbor

LEMMA ExpandStays ==
    ASSUME NEW g, g.vec \in Seq(Vector), NEW q \in Vector, NEW ef \in Nat, ef >= 1, NEW layer,
           NEW S \in SUBSET Nodes(g), Closed(g, layer, S), NEW state \in Searching(S)
    PROVE  Expand(g, q, ef, layer, state) \in Searching(S)
<1> DEFINE c == Nearest(g, q, state.candidates)
           list == LinksAt(g, c, layer)
           rest == [state EXCEPT !.candidates = @ \ {c}]
           N == Len(list)
           D == [i \in 0 .. N |-> Searching(S)]
           a == rest
           Step(x, i) == VisitNeighbor(g, q, ef, x, list[i])
           F == [i \in 1 .. N |-> [x \in D[i - 1] |-> Step(x, i)]]
           s[i \in 0 .. N] == IF i = 0 THEN a ELSE Step(s[i - 1], i)
<1>0. CASE state.candidates = {}
  BY <1>0 DEF Expand
<1> SUFFICES ASSUME state.candidates # {}
             PROVE  Expand(g, q, ef, layer, state) \in Searching(S)
  BY <1>0
<1>1. N \in Nat /\ rest \in Searching(S) /\ \A i \in 1 .. N : list[i] \in S
  <2>1. state.candidates \in SUBSET S
    BY DEF Searching
  <2>2. c \in S
    BY <2>1, NearestIs
  <2>3. list \in Seq(S)
    BY <2>2 DEF Closed
  <2>4. rest \in Searching(S)
    BY <2>1 DEF Searching
  <2> QED
    BY <2>3, <2>4
<1>2. \A i \in 0 .. N : i = 0 \/ (i \in 1 .. N /\ i - 1 \in 0 .. N)
  BY <1>1
<1>3. N \in Nat /\ a \in D[0]
  BY <1>1
<1>4. \A i \in 1 .. N : \A x \in D[i - 1] : Step(x, i) \in D[i]
  <2> HIDE DEF N, list, rest
  <2> QED
    BY <1>1, <1>2, VisitStays
<1>5. s = [i \in 0 .. N |-> IF i = 0 THEN a ELSE Step(s[i - 1], i)]
  <2> HIDE DEF D, N, a, Step
  <2>1. \A i \in 1 .. N : \A x \in D[i - 1] : F[i][x] = Step(x, i)
    OBVIOUS
  <2> HIDE DEF F
  <2>2. PICK e : Iterates(N, D, a, F, e)
    BY <1>3, <1>4, <2>1, IteratedExists
  <2>3. \A i \in 0 .. N : i # 0 => F[i][e[i - 1]] = Step(e[i - 1], i)
    BY <1>2, <2>1, <2>2 DEF Iterates
  <2>4. e = [i \in 0 .. N |-> IF i = 0 THEN a ELSE Step(e[i - 1], i)]
    BY <2>2, <2>3 DEF Iterates
  <2> QED
    BY <2>4
<1>6. Expand(g, q, ef, layer, state)
       = IF Stops(g, q, ef, state, c) THEN [state EXCEPT !.candidates = {}] ELSE s[N]
  BY DEF Expand, Iterated
<1>7. s[N] \in D[N]
  <2> HIDE DEF D, N, a, Step, s
  <2>1. s[0] = a /\ \A i \in 1 .. N : s[i] = Step(s[i - 1], i)
    <3>1. \A i \in 1 .. N : i \in 0 .. N /\ i # 0
      OBVIOUS
    <3> QED
      BY <1>3, <1>5, <3>1
  <2>2. \A i \in 1 .. N : s[i - 1] \in D[i - 1] => s[i] \in D[i]
    BY <1>4, <2>1
  <2> QED
    BY <1>3, <2>1, <2>2, IteratedStays
<1>8. D[N] = Searching(S)
  BY <1>3
<1>9. [state EXCEPT !.candidates = {}] \in Searching(S)
  BY DEF Searching
<1> HIDE DEF s
<1> QED
  BY <1>6, <1>7, <1>8, <1>9

LEMMA SearchLayerStays ==
    ASSUME NEW g, g.vec \in Seq(Vector), NEW q \in Vector, NEW ef \in Nat, ef >= 1, NEW layer,
           NEW S \in SUBSET Nodes(g), Closed(g, layer, S), NEW start \in S
    PROVE  SearchLayer(g, q, start, ef, layer) \in (SUBSET S) \ {{}}
<1> DEFINE begin == [visited |-> {start}, candidates |-> {start}, results |-> {start}]
           N == Len(g.vec)
           D == [i \in 0 .. N |-> Searching(S)]
           a == begin
           Step(x, i) == Expand(g, q, ef, layer, x)
           F == [i \in 1 .. N |-> [x \in D[i - 1] |-> Step(x, i)]]
           s[i \in 0 .. N] == IF i = 0 THEN a ELSE Step(s[i - 1], i)
<1>1. N \in Nat
  OBVIOUS
<1>2. \A i \in 0 .. N : i = 0 \/ (i \in 1 .. N /\ i - 1 \in 0 .. N)
  BY <1>1
<1>3. N \in Nat /\ a \in D[0]
  <2>1. {start} \in SUBSET S /\ {start} # {}
    OBVIOUS
  <2>2. begin \in Searching(S)
    BY <2>1 DEF Searching
  <2> HIDE DEF begin, N
  <2> QED
    BY <1>1, <2>2
<1>4. \A i \in 1 .. N : \A x \in D[i - 1] : Step(x, i) \in D[i]
  BY <1>1, <1>2, ExpandStays
<1>5. s = [i \in 0 .. N |-> IF i = 0 THEN a ELSE Step(s[i - 1], i)]
  <2> HIDE DEF D, N, a, Step
  <2>1. \A i \in 1 .. N : \A x \in D[i - 1] : F[i][x] = Step(x, i)
    OBVIOUS
  <2> HIDE DEF F
  <2>2. PICK e : Iterates(N, D, a, F, e)
    BY <1>3, <1>4, <2>1, IteratedExists
  <2>3. \A i \in 0 .. N : i # 0 => F[i][e[i - 1]] = Step(e[i - 1], i)
    BY <1>2, <2>1, <2>2 DEF Iterates
  <2>4. e = [i \in 0 .. N |-> IF i = 0 THEN a ELSE Step(e[i - 1], i)]
    BY <2>2, <2>3 DEF Iterates
  <2> QED
    BY <2>4
<1>6. SearchLayer(g, q, start, ef, layer) = s[N].results
  BY DEF SearchLayer, Iterated
<1>7. s[N] \in D[N]
  <2> HIDE DEF D, N, a, Step, s
  <2>1. s[0] = a /\ \A i \in 1 .. N : s[i] = Step(s[i - 1], i)
    <3>1. \A i \in 1 .. N : i \in 0 .. N /\ i # 0
      OBVIOUS
    <3> QED
      BY <1>3, <1>5, <3>1
  <2>2. \A i \in 1 .. N : s[i - 1] \in D[i - 1] => s[i] \in D[i]
    BY <1>4, <2>1
  <2> QED
    BY <1>3, <2>1, <2>2, IteratedStays
<1>8. s[N] \in Searching(S)
  BY <1>3, <1>7
<1> HIDE DEF s
<1> QED
  BY <1>6, <1>8 DEF Searching

-----------------------------------------------------------------------------
(* Sorted candidates, and the choice among them.                           *)

Distinct(list) == \A i, j \in 1 .. Len(list) : list[i] = list[j] => i = j

\* The order among equal distances tells the nodes S apart.
Tells(rank, S) == \A a, b \in S : rank[a] \in Int /\ (rank[a] = rank[b] => a = b)

\* Each of the nodes S once, nearest first.
SortsNodes(list, g, q, S) ==
    /\ IsFiniteSet(S) /\ list \in Seq(S) /\ Len(list) = Cardinality(S) /\ Distinct(list)
    /\ Range(list) = S
    /\ \A i, j \in 1 .. Cardinality(S) : i < j => Dist(g.vec[list[i]], q) <= Dist(g.vec[list[j]], q)

LEMMA SortFoundIs ==
    ASSUME NEW g, g.vec \in Seq(Vector), NEW q \in Vector, NEW S \in SUBSET Nodes(g), NEW rank,
           Tells(rank, S)
    PROVE  SortsNodes(SortFound(g, q, S, rank), g, q, S)
<1> DEFINE d == [a \in S |-> Dist(g.vec[a], q)]
           Before(a, b) == \/ Dist(g.vec[a], q) < Dist(g.vec[b], q)
                           \/ Dist(g.vec[a], q) = Dist(g.vec[b], q) /\ rank[a] < rank[b]
           B == ByKeys(S, d, rank)
           pick(i) == CHOOSE a \in S : Cardinality({b \in S : Before(b, a)}) = i - 1
           r == [i \in 1 .. Cardinality(S) |-> pick(i)]
<1>1. Len(g.vec) \in Nat /\ \A a \in Nodes(g) : g.vec[a] \in Vector
  BY DEF Nodes
<1>2. IsFiniteSet(S)
  <2>1. IsFiniteSet(1 .. Len(g.vec))
    BY <1>1, FS_Interval
  <2> QED
    BY <2>1, FS_Subset DEF Nodes
<1>3. \A a \in S : d[a] \in Int /\ rank[a] \in Int
  <2> TAKE a \in S
  <2>1. g.vec[a] \in Vector
    BY <1>1
  <2>2. Dist(g.vec[a], q) \in Int
    BY <2>1, DistIsNumber
  <2> QED
    BY <2>2 DEF Tells
<1>4. \A a \in S : B[a] = {b \in S : Before(b, a)}
  <2> TAKE a \in S
  <2>1. B[a] = {b \in S : d[b] < d[a] \/ (d[b] = d[a] /\ rank[b] < rank[a])}
    BY DEF ByKeys
  <2>2. \A b \in S : d[b] = Dist(g.vec[b], q)
    OBVIOUS
  <2> HIDE DEF d, B
  <2> QED
    BY <2>1, <2>2
<1>5. SortFound(g, q, S, rank) = r
  BY DEF SortFound, SortBy
<1>0. r = [i \in 1 .. Cardinality(S) |-> r[i]] /\ \A i \in 1 .. Cardinality(S) : r[i] = pick(i)
  <2> HIDE DEF pick
  <2> QED
    OBVIOUS
<1>a. \A a, b \in S : a \in B[b] => Dist(g.vec[a], q) <= Dist(g.vec[b], q)
  <2> TAKE a, b \in S
  <2>1. d[a] = Dist(g.vec[a], q) /\ d[b] = Dist(g.vec[b], q) /\ d[a] \in Int /\ d[b] \in Int
    BY <1>3
  <2>2. a \in B[b] <=> Before(a, b)
    BY <1>4
  <2> HIDE DEF d, B
  <2> QED
    BY <2>1, <2>2
<1> HIDE DEF d, Before
<1>6. Orders(S, B)
  <2>1. \A a, b \in S : rank[a] = rank[b] => a = b
    BY DEF Tells
  <2> QED
    BY <1>2, <1>3, <2>1, KeysOrder
<1> HIDE DEF B
<1>7. Arranges(S, B, r)
  <2>2. ASSUME NEW i \in 1 .. Cardinality(S), NEW x \in S, Cardinality(B[x]) = i - 1
        PROVE  r[i] \in S /\ Cardinality(B[r[i]]) = i - 1
    <3>1. \E a \in S : Cardinality({b \in S : Before(b, a)}) = i - 1
      BY <1>4, <2>2
    <3>2. pick(i) \in S /\ Cardinality({b \in S : Before(b, pick(i))}) = i - 1
      BY <3>1
    <3> QED
      BY <1>0, <1>4, <3>2
  <2> HIDE DEF r
  <2> QED
    BY <1>0, <2>2 DEF Arranges
<1> HIDE DEF r
<1>8. /\ Cardinality(S) \in Nat /\ r \in [1 .. Cardinality(S) -> S]
      /\ \A i, j \in 1 .. Cardinality(S) : r[i] = r[j] => i = j
      /\ \A a \in S : \E i \in 1 .. Cardinality(S) : r[i] = a
      /\ \A i, j \in 1 .. Cardinality(S) : i < j => r[i] \in B[r[j]]
  BY <1>6, <1>7, ArrangedIs
<1>9. r \in Seq(S) /\ Len(r) = Cardinality(S)
  BY <1>8
<1>10. Range(r) = S
  BY <1>8 DEF Range
<1>11. \A i, j \in 1 .. Cardinality(S) : i < j => Dist(g.vec[r[i]], q) <= Dist(g.vec[r[j]], q)
  BY <1>8, <1>a
<1> QED
  BY <1>2, <1>5, <1>8, <1>9, <1>10, <1>11 DEF Distinct, SortsNodes

\* A list sorted in place.
LEMMA SortListIs ==
    ASSUME NEW g, g.vec \in Seq(Vector), NEW q \in Vector, NEW X \in SUBSET Nodes(g),
           NEW list \in Seq(X), Distinct(list)
    PROVE  /\ SortList(g, q, list) \in Seq(X) /\ Len(SortList(g, q, list)) = Len(list)
           /\ Distinct(SortList(g, q, list))
<1> DEFINE N == Len(list)
           S == 1 .. N
           d == [i \in S |-> Dist(g.vec[list[i]], q)]
           e == [i \in S |-> i]
           Before(i, j) == \/ Dist(g.vec[list[i]], q) < Dist(g.vec[list[j]], q)
                           \/ Dist(g.vec[list[i]], q) = Dist(g.vec[list[j]], q) /\ i < j
           B == ByKeys(S, d, e)
           pick(i) == CHOOSE a \in S : Cardinality({b \in S : Before(b, a)}) = i - 1
           r == [i \in 1 .. Cardinality(S) |-> pick(i)]
<1>1. /\ N \in Nat /\ DOMAIN list = S /\ \A i \in S : list[i] \in X /\ i \in Int
      /\ \A a \in Nodes(g) : g.vec[a] \in Vector
  BY DEF Nodes
<1>2. IsFiniteSet(S) /\ Cardinality(S) = N
  <2>1. 1 \in Int /\ N \in Int
    BY <1>1
  <2>2. IsFiniteSet(1 .. N) /\ Cardinality(1 .. N) = IF 1 > N THEN 0 ELSE N - 1 + 1
    <3> HIDE DEF N
    <3> QED
      BY <2>1, FS_Interval
  <2> QED
    BY <1>1, <2>2
<1>3. \A i \in S : d[i] \in Int /\ e[i] \in Int
  <2> HIDE DEF S
  <2> TAKE i \in S
  <2>1. g.vec[list[i]] \in Vector
    BY <1>1
  <2>2. Dist(g.vec[list[i]], q) \in Int
    BY <2>1, DistIsNumber
  <2> QED
    BY <1>1, <2>2
<1>4. \A a \in S : B[a] = {b \in S : Before(b, a)}
  <2> HIDE DEF S
  <2> TAKE a \in S
  <2>1. B[a] = {b \in S : d[b] < d[a] \/ (d[b] = d[a] /\ e[b] < e[a])}
    BY DEF ByKeys
  <2>2. \A b \in S : d[b] = Dist(g.vec[list[b]], q) /\ e[b] = b
    OBVIOUS
  <2> HIDE DEF d, e, B
  <2> QED
    BY <2>1, <2>2
<1>5. SortList(g, q, list) = [i \in S |-> list[r[i]]]
  BY <1>1 DEF SortList, SortBy
<1>6. \A a, b \in S : e[a] = e[b] => a = b
  <2> HIDE DEF S
  <2> QED
    OBVIOUS
<1>0. r = [i \in 1 .. Cardinality(S) |-> r[i]] /\ \A i \in 1 .. Cardinality(S) : r[i] = pick(i)
  <2> HIDE DEF pick
  <2> QED
    OBVIOUS
<1> HIDE DEF d, e, Before, S
<1>7. Orders(S, B)
  BY <1>2, <1>3, <1>6, KeysOrder
<1> HIDE DEF B
<1>8. Arranges(S, B, r)
  <2>2. ASSUME NEW i \in 1 .. Cardinality(S), NEW x \in S, Cardinality(B[x]) = i - 1
        PROVE  r[i] \in S /\ Cardinality(B[r[i]]) = i - 1
    <3>1. \E a \in S : Cardinality({b \in S : Before(b, a)}) = i - 1
      BY <1>4, <2>2
    <3>2. pick(i) \in S /\ Cardinality({b \in S : Before(b, pick(i))}) = i - 1
      BY <3>1
    <3> QED
      BY <1>0, <1>4, <3>2
  <2> HIDE DEF r
  <2> QED
    BY <1>0, <2>2 DEF Arranges
<1> HIDE DEF r
<1>9. /\ r \in [1 .. Cardinality(S) -> S]
      /\ \A i, j \in 1 .. Cardinality(S) : r[i] = r[j] => i = j
  BY <1>7, <1>8, ArrangedIs
<1>10. r \in [S -> S] /\ \A i, j \in S : r[i] = r[j] => i = j
  BY <1>2, <1>9 DEF S
<1> DEFINE t == [i \in S |-> list[r[i]]]
<1>11. \A i \in S : t[i] = list[r[i]] /\ list[r[i]] \in X
  BY <1>1, <1>10
<1>12. t \in Seq(X) /\ Len(t) = N
  <2>1. t \in [1 .. N -> X]
    BY <1>11 DEF S
  <2> HIDE DEF t, N
  <2> QED
    BY <1>1, <2>1
<1>13. ASSUME NEW i \in 1 .. N, NEW j \in 1 .. N, t[i] = t[j]
       PROVE  i = j
  <2>1. i \in S /\ j \in S
    BY DEF S
  <2>2. r[i] \in 1 .. N /\ r[j] \in 1 .. N /\ list[r[i]] = list[r[j]]
    BY <1>10, <1>11, <1>13, <2>1 DEF S
  <2>3. r[i] = r[j]
    BY <2>2 DEF Distinct
  <2> QED
    BY <1>10, <2>1, <2>3
<1> QED
  BY <1>5, <1>12, <1>13 DEF Distinct

\* What select_neighbors_heuristic keeps: some of the candidates, none twice, at most m.
LEMMA SelectStays ==
    ASSUME NEW g, NEW base, NEW X, NEW sorted \in Seq(X), Distinct(sorted), NEW m \in Nat
    PROVE  /\ SelectNeighbors(g, base, sorted, m) \in Seq(X)
           /\ Len(SelectNeighbors(g, base, sorted, m)) <= m
           /\ Distinct(SelectNeighbors(g, base, sorted, m))
           /\ Len(sorted) > 0 /\ m >= 1 => Len(SelectNeighbors(g, base, sorted, m)) > 0
<1> DEFINE Good(i) == {kept \in Seq(X) : /\ Len(kept) <= m /\ Distinct(kept)
                                         /\ i > 0 /\ m >= 1 => Len(kept) > 0
                                         /\ \A j \in 1 .. Len(kept) : \E h \in 1 .. i : kept[j] = sorted[h]}
           N == Len(sorted)
           D == [i \in 0 .. N |-> Good(i)]
           a == <<>>
           Step(x, i) == Select(g, base, m, x, sorted[i])
           F == [i \in 1 .. N |-> [x \in D[i - 1] |-> Step(x, i)]]
           s[i \in 0 .. N] == IF i = 0 THEN a ELSE Step(s[i - 1], i)
<1>1. N \in Nat /\ \A i \in 1 .. N : sorted[i] \in X
  OBVIOUS
<1>2. \A i \in 0 .. N : i = 0 \/ (i \in 1 .. N /\ i - 1 \in 0 .. N)
  BY <1>1
<1>3. N \in Nat /\ a \in D[0]
  <2>1. <<>> \in Seq(X) /\ Len(<<>>) = 0 /\ 1 .. 0 = {}
    OBVIOUS
  <2>2. <<>> \in Good(0)
    BY <2>1 DEF Distinct
  <2> HIDE DEF Good, N
  <2> QED
    BY <1>1, <2>2
<1>4. \A i \in 1 .. N : \A x \in D[i - 1] : Step(x, i) \in D[i]
  <2> SUFFICES ASSUME NEW i \in 1 .. N, NEW kept \in Good(i - 1)
               PROVE  Select(g, base, m, kept, sorted[i]) \in Good(i)
    <3> HIDE DEF Good, N
    <3> QED
      BY <1>2
  <2> DEFINE more == Append(kept, sorted[i])
             K == Len(kept)
  <2>0. i \in Nat /\ i - 1 \in Nat /\ \A h \in 1 .. i - 1 : h \in 1 .. i /\ h \in 1 .. N /\ h # i
    BY <1>1
  <2>1. kept \in Seq(X) /\ K \in Nat /\ sorted[i] \in X
    BY <1>1
  <2>2. ASSUME K >= m \/ \E z : z \in Range(kept)
        PROVE  kept \in Good(i)
    <3>1. m >= 1 => K > 0
      BY <2>1, <2>2 DEF Range
    <3> QED
      BY <2>0, <3>1
  <2>3. ASSUME ~(K >= m)
        PROVE  more \in Good(i)
    <3>1. more \in Seq(X) /\ Len(more) = K + 1 /\ more[K + 1] = sorted[i]
          /\ \A j \in 1 .. K : more[j] = kept[j]
      BY <2>1
    <3>2. \A j \in 1 .. K + 1 : j = K + 1 \/ j \in 1 .. K
      BY <2>1
    <3>3. Len(more) <= m
      BY <2>1, <2>3, <3>1
    <3>4. \A j \in 1 .. K : \E h \in 1 .. i - 1 : kept[j] = sorted[h]
      OBVIOUS
    <3>5. \A j \in 1 .. K : kept[j] # sorted[i]
      BY <2>0, <3>4 DEF Distinct
    <3>6. \A x, y \in 1 .. K : kept[x] = kept[y] => x = y
      BY DEF Distinct
    <3>9. Len(more) > 0
      BY <2>1, <3>1
    <3> HIDE DEF more, K, N
    <3>7. \A j \in 1 .. K + 1 : \E h \in 1 .. i : more[j] = sorted[h]
      <4> TAKE j \in 1 .. K + 1
      <4>1. CASE j = K + 1
        BY <2>0, <3>1, <4>1
      <4>2. CASE j \in 1 .. K
        <5>1. PICK h \in 1 .. i - 1 : kept[j] = sorted[h]
          BY <3>4, <4>2
        <5>2. more[j] = sorted[h] /\ h \in 1 .. i
          BY <2>0, <3>1, <4>2, <5>1
        <5> QED
          BY <5>2
      <4> QED
        BY <3>2, <4>1, <4>2
    <3>8. Distinct(more)
      <4> SUFFICES ASSUME NEW x \in 1 .. K + 1, NEW y \in 1 .. K + 1, more[x] = more[y]
                   PROVE  x = y
        BY <3>1 DEF Distinct
      <4> QED
        BY <3>1, <3>2, <3>5, <3>6
    <3> QED
      BY <3>1, <3>3, <3>7, <3>8, <3>9
  <2> HIDE DEF Good, N, more
  <2> QED
    BY <2>2, <2>3 DEF Select, more
<1>5. s = [i \in 0 .. N |-> IF i = 0 THEN a ELSE Step(s[i - 1], i)]
  <2> HIDE DEF D, N, a, Step
  <2>1. \A i \in 1 .. N : \A x \in D[i - 1] : F[i][x] = Step(x, i)
    OBVIOUS
  <2> HIDE DEF F
  <2>2. PICK e : Iterates(N, D, a, F, e)
    BY <1>3, <1>4, <2>1, IteratedExists
  <2>3. \A i \in 0 .. N : i # 0 => F[i][e[i - 1]] = Step(e[i - 1], i)
    BY <1>2, <2>1, <2>2 DEF Iterates
  <2>4. e = [i \in 0 .. N |-> IF i = 0 THEN a ELSE Step(e[i - 1], i)]
    BY <2>2, <2>3 DEF Iterates
  <2> QED
    BY <2>4
<1>6. SelectNeighbors(g, base, sorted, m) = s[N]
  BY DEF SelectNeighbors, Iterated
<1>7. s[N] \in D[N]
  <2> HIDE DEF D, N, a, Step, s
  <2>1. s[0] = a /\ \A i \in 1 .. N : s[i] = Step(s[i - 1], i)
    <3>1. \A i \in 1 .. N : i \in 0 .. N /\ i # 0
      OBVIOUS
    <3> QED
      BY <1>3, <1>5, <3>1
  <2>2. \A i \in 1 .. N : s[i - 1] \in D[i - 1] => s[i] \in D[i]
    BY <1>4, <2>1
  <2> QED
    BY <1>3, <2>1, <2>2, IteratedStays
<1>8. s[N] \in Good(N)
  BY <1>3, <1>7
<1> HIDE DEF s
<1> QED
  BY <1>6, <1>8

-----------------------------------------------------------------------------
(* The edges, for nodes of the levels lev.                                 *)

HasLayer(lev, l) == {n \in DOMAIN lev : l <= lev[n]}

\* What the list of node n on layer l may be.
GoodList(lev, n, l, list) ==
    list \in Seq(HasLayer(lev, l) \ {n}) /\ Len(list) <= MMax(l) /\ Distinct(list)

Lists(lev) == UNION {[0 .. top -> Seq(DOMAIN lev)] : top \in Nat}

GoodLinks(lev) ==
    {k \in [DOMAIN lev -> Lists(lev)] :
        \A n \in DOMAIN lev :
            /\ k[n] \in [0 .. lev[n] -> Seq(DOMAIN lev)]
            /\ \A l \in 0 .. lev[n] : GoodList(lev, n, l, k[n][l])}

\* The graphs that insert_new can make of p up to the layer low: its other fields stay,
\* and the layers up to low have no edge to the new node yet.
Wiring(p, lev, new, low) ==
    {h \in [vec : {p.vec}, id : {p.id}, links : GoodLinks(lev), del : {p.del}, live : {p.live},
            entry : {p.entry}] :
        \A l \in 0 .. low : \A n \in HasLayer(lev, l) \ {new} : new \notin Range(h.links[n][l])}

LEMMA MMaxIsNumber == \A l : MMax(l) \in Nat /\ MMax(l) >= 1
  BY ParamsAssumption DEF MMax

LEMMA LinksAtIs ==
    ASSUME NEW T \in Nat, NEW lev \in [1 .. T -> Nat], NEW g, g.links \in GoodLinks(lev), NEW l \in Nat,
           NEW n \in HasLayer(lev, l)
    PROVE  /\ n \in DOMAIN lev /\ l \in 0 .. lev[n] /\ LinksAt(g, n, l) = g.links[n][l]
           /\ GoodList(lev, n, l, g.links[n][l])
<1>1. n \in DOMAIN lev /\ l \in 0 .. lev[n]
  BY DEF HasLayer
<1>2. g.links[n] \in [0 .. lev[n] -> Seq(DOMAIN lev)] /\ GoodList(lev, n, l, g.links[n][l])
  BY <1>1 DEF GoodLinks
<1> QED
  BY <1>1, <1>2 DEF LinksAt

\* Only the list of node n on layer l differs.
OnlyAt(lev, g, h, n, l) ==
    \A m \in DOMAIN lev : \A k \in 0 .. lev[m] :
        m # n \/ k # l => h.links[m][k] = g.links[m][k]

\* One list is exchanged for another good one.
LEMMA SetLinksIs ==
    ASSUME NEW T \in Nat, NEW lev \in [1 .. T -> Nat], NEW p, NEW new, NEW low \in Int,
           NEW g \in Wiring(p, lev, new, low), NEW n \in DOMAIN lev, NEW l \in 0 .. lev[n],
           NEW list, GoodList(lev, n, l, list), low < l
    PROVE  LET h == SetLinks(g, n, l, list)
           IN  /\ h \in Wiring(p, lev, new, low) /\ h.links[n][l] = list
               /\ OnlyAt(lev, g, h, n, l)
<1> DEFINE x == g.links
           y == x[n]
           z == [y EXCEPT ![l] = list]
           w == [x EXCEPT ![n] = z]
           h == SetLinks(g, n, l, list)
<1>1. /\ g = [vec |-> p.vec, id |-> p.id, links |-> x, del |-> p.del, live |-> p.live,
              entry |-> p.entry]
      /\ x \in GoodLinks(lev)
      /\ \A j \in 0 .. low : \A m \in HasLayer(lev, j) \ {new} : new \notin Range(x[m][j])
  BY DEF Wiring
<1>2. h = [vec |-> p.vec, id |-> p.id, links |-> w, del |-> p.del, live |-> p.live,
           entry |-> p.entry]
  <2>1. h = [g EXCEPT !.links = w]
    BY <1>1 DEF SetLinks
  <2> HIDE DEF h, w, x
  <2> QED
    BY <1>1, <2>1
<1>3. /\ x \in [DOMAIN lev -> Lists(lev)] /\ y \in [0 .. lev[n] -> Seq(DOMAIN lev)]
      /\ \A m \in DOMAIN lev : /\ x[m] \in [0 .. lev[m] -> Seq(DOMAIN lev)]
                               /\ \A k \in 0 .. lev[m] : GoodList(lev, m, k, x[m][k])
  BY <1>1 DEF GoodLinks
<1>4. list \in Seq(DOMAIN lev)
  <2>1. HasLayer(lev, l) \ {n} \subseteq DOMAIN lev
    BY DEF HasLayer
  <2>2. list \in Seq(HasLayer(lev, l) \ {n})
    BY DEF GoodList
  <2> QED
    BY <2>1, <2>2
<1> HIDE DEF x, h
<1>5. z \in [0 .. lev[n] -> Seq(DOMAIN lev)] /\ z[l] = list
      /\ \A k \in 0 .. lev[n] : k # l => z[k] = y[k]
  BY <1>3, <1>4
<1> HIDE DEF y, z
<1>6. z \in Lists(lev)
  BY <1>5 DEF Lists
<1>7. w \in [DOMAIN lev -> Lists(lev)] /\ w[n] = z /\ \A m \in DOMAIN lev : m # n => w[m] = x[m]
  BY <1>3, <1>6
<1> HIDE DEF w
<1>8. \A m \in DOMAIN lev : \A k \in 0 .. lev[m] : m # n \/ k # l => w[m][k] = x[m][k]
  BY <1>5, <1>7 DEF y
<1>9. w[n][l] = list
  BY <1>5, <1>7
<1>10. \A m \in DOMAIN lev : \A k \in 0 .. lev[m] : GoodList(lev, m, k, w[m][k])
  BY <1>3, <1>8, <1>9
<1>11. \A m \in DOMAIN lev : w[m] \in [0 .. lev[m] -> Seq(DOMAIN lev)]
  BY <1>3, <1>5, <1>7
<1>12. w \in GoodLinks(lev)
  BY <1>7, <1>10, <1>11 DEF GoodLinks
<1>13. ASSUME NEW j \in 0 .. low, NEW m \in HasLayer(lev, j) \ {new}
       PROVE  new \notin Range(w[m][j])
  <2>1. m \in DOMAIN lev /\ j \in 0 .. lev[m] /\ j # l
    BY DEF HasLayer
  <2> QED
    BY <1>1, <1>8, <2>1
<1>14. h \in Wiring(p, lev, new, low)
  BY <1>2, <1>12, <1>13 DEF Wiring
<1>15. h.links = w
  BY <1>2
<1> QED
  BY <1>8, <1>9, <1>14, <1>15 DEF h, x, OnlyAt

\* On the layers that are not wired yet, the lists of the old nodes lead to old nodes.
LEMMA OldNodesClosed ==
    ASSUME NEW T \in Nat, NEW lev \in [1 .. T -> Nat], NEW p, NEW new, NEW low \in Int,
           NEW g \in Wiring(p, lev, new, low), NEW l \in 0 .. low
    PROVE  Closed(g, l, HasLayer(lev, l) \ {new})
<1> SUFFICES ASSUME NEW n \in HasLayer(lev, l) \ {new}
             PROVE  LinksAt(g, n, l) \in Seq(HasLayer(lev, l) \ {new})
  BY DEF Closed
<1>1. g.links \in GoodLinks(lev) /\ new \notin Range(g.links[n][l])
  BY DEF Wiring
<1>2. LinksAt(g, n, l) = g.links[n][l] /\ GoodList(lev, n, l, g.links[n][l])
  BY <1>1, LinksAtIs
<1> DEFINE list == g.links[n][l]
<1>3. list \in Seq(HasLayer(lev, l) \ {n}) /\ new \notin Range(list)
  BY <1>1, <1>2 DEF GoodList
<1> HIDE DEF list
<1>4. \A i \in 1 .. Len(list) : list[i] \in HasLayer(lev, l) \ {new}
  BY <1>3 DEF Range
<1>5. list \in Seq(HasLayer(lev, l) \ {new})
  BY <1>3, <1>4
<1> QED
  BY <1>2, <1>5 DEF list

\* The edge back: the list of the neighbour gets the new node, or is chosen again.
LEMMA LinkBackStays ==
    ASSUME NEW T \in Nat, NEW lev \in [1 .. T -> Nat], NEW p, p.vec \in Seq(Vector), Len(p.vec) = T,
           NEW new \in 1 .. T, NEW layer \in 0 .. lev[new],
           NEW g \in Wiring(p, lev, new, layer - 1), NEW nbr \in HasLayer(lev, layer) \ {new},
           new \notin Range(g.links[nbr][layer])
    PROVE  LET h == LinkBack(g, nbr, new, layer)
           IN  h \in Wiring(p, lev, new, layer - 1) /\ OnlyAt(lev, g, h, nbr, layer)
<1> DEFINE old == g.links[nbr][layer]
           list == Append(old, new)
           X == HasLayer(lev, layer) \ {nbr}
           sorted == SortList(g, g.vec[nbr], list)
           kept == SelectNeighbors(g, g.vec[nbr], sorted, MMax(layer))
           result == IF Len(list) > MMax(layer) THEN kept ELSE list
<1>1. g.vec = p.vec /\ g.links \in GoodLinks(lev)
  BY DEF Wiring
<1>2. /\ nbr \in DOMAIN lev /\ layer \in 0 .. lev[nbr] /\ LinksAt(g, nbr, layer) = old
      /\ GoodList(lev, nbr, layer, old)
  BY <1>1, LinksAtIs
<1>3. new \in X /\ X \in SUBSET Nodes(g) /\ nbr \in Nodes(g)
  BY <1>1, <1>2 DEF HasLayer, Nodes
<1>4. g.vec \in Seq(Vector) /\ g.vec[nbr] \in Vector
  BY <1>1, <1>3 DEF Nodes
<1>5. MMax(layer) \in Nat
  BY MMaxIsNumber
<1>6. old \in Seq(X) /\ Distinct(old) /\ new \notin Range(old)
  BY <1>2 DEF GoodList
<1>7. LinkBack(g, nbr, new, layer) = SetLinks(g, nbr, layer, result)
  BY <1>2 DEF LinkBack
<1> HIDE DEF old, X
<1>8. list \in Seq(X) /\ Distinct(list)
  <2>1. /\ list \in Seq(X) /\ Len(list) = Len(old) + 1 /\ Len(old) \in Nat
        /\ list[Len(old) + 1] = new /\ \A i \in 1 .. Len(old) : list[i] = old[i]
    BY <1>3, <1>6
  <2>2. \A i \in 1 .. Len(old) : old[i] # new
    BY <1>6 DEF Range
  <2>3. \A i \in 1 .. Len(old) + 1 : i = Len(old) + 1 \/ i \in 1 .. Len(old)
    BY <2>1
  <2> HIDE DEF list
  <2> QED
    BY <1>6, <2>1, <2>2, <2>3 DEF Distinct
<1> HIDE DEF list
<1>9. sorted \in Seq(X) /\ Distinct(sorted)
  BY <1>3, <1>4, <1>8, SortListIs
<1> HIDE DEF sorted
<1>10. kept \in Seq(X) /\ Len(kept) <= MMax(layer) /\ Distinct(kept)
  BY <1>5, <1>9, SelectStays
<1> HIDE DEF kept
<1>11. GoodList(lev, nbr, layer, result)
  <2>1. Len(list) \in Nat
    BY <1>8
  <2> QED
    BY <1>5, <1>8, <1>10, <2>1 DEF GoodList, X
<1> HIDE DEF result
<1> DEFINE low == layer - 1
<1>12. low \in Int /\ low < layer /\ g \in Wiring(p, lev, new, low)
  OBVIOUS
<1> HIDE DEF low
<1>13. LET h == SetLinks(g, nbr, layer, result)
       IN  h \in Wiring(p, lev, new, low) /\ OnlyAt(lev, g, h, nbr, layer)
  BY <1>2, <1>11, <1>12, SetLinksIs
<1> QED
  BY <1>7, <1>13 DEF low

\* While the neighbours of the new node are linked back on a layer, its list there stands.
Linking(p, lev, new, l, list) == {h \in Wiring(p, lev, new, l - 1) : h.links[new][l] = list}

\* The edges back to the new node, one by one: the neighbours still to come have none.
LEMMA LinkAllStays ==
    ASSUME NEW T \in Nat, NEW lev \in [1 .. T -> Nat], NEW p, p.vec \in Seq(Vector), Len(p.vec) = T,
           NEW new \in 1 .. T, NEW layer \in 0 .. lev[new],
           NEW selected, GoodList(lev, new, layer, selected),
           NEW begin \in Linking(p, lev, new, layer, selected),
           \A x \in 1 .. Len(selected) : new \notin Range(begin.links[selected[x]][layer])
    PROVE  LinkAllBack(begin, selected, new, layer) \in Linking(p, lev, new, layer, selected)
<1> DEFINE Ahead(i) == {h \in Wiring(p, lev, new, layer - 1) :
                          /\ h.links[new][layer] = selected
                          /\ \A x \in 1 .. Len(selected) :
                                x > i => new \notin Range(h.links[selected[x]][layer])}
           N == Len(selected)
           D == [i \in 0 .. N |-> Ahead(i)]
           a == begin
           Step(x, i) == LinkBack(x, selected[i], new, layer)
           F == [i \in 1 .. N |-> [x \in D[i - 1] |-> Step(x, i)]]
           s[i \in 0 .. N] == IF i = 0 THEN a ELSE Step(s[i - 1], i)
<1>1. /\ N \in Nat /\ \A i \in 1 .. N : selected[i] \in HasLayer(lev, layer) \ {new}
      /\ \A i, j \in 1 .. N : selected[i] = selected[j] => i = j
  BY DEF GoodList, Distinct
<1>2. \A i \in 0 .. N : i = 0 \/ (i \in 1 .. N /\ i - 1 \in 0 .. N)
  BY <1>1
<1>3. N \in Nat /\ a \in D[0]
  <2>1. begin \in Ahead(0)
    BY DEF Linking
  <2> HIDE DEF Ahead, N
  <2> QED
    BY <1>1, <2>1
<1>4. \A i \in 1 .. N : \A x \in D[i - 1] : Step(x, i) \in D[i]
  <2> SUFFICES ASSUME NEW i \in 1 .. N, NEW g \in Ahead(i - 1)
               PROVE  LinkBack(g, selected[i], new, layer) \in Ahead(i)
    <3> HIDE DEF Ahead, N
    <3> QED
      BY <1>2
  <2> DEFINE h == LinkBack(g, selected[i], new, layer)
  <2>1. /\ i \in 1 .. Len(selected) /\ i > i - 1 /\ i \in Nat
        /\ \A x \in 1 .. N : x > i => x > i - 1 /\ x # i
    BY <1>1
  <2>2. /\ g \in Wiring(p, lev, new, layer - 1)
        /\ \A x \in 1 .. N : x > i - 1 => new \notin Range(g.links[selected[x]][layer])
        /\ g.links[new][layer] = selected
    OBVIOUS
  <2> HIDE DEF N
  <2>3. new \notin Range(g.links[selected[i]][layer])
    BY <2>1, <2>2
  <2>4. h \in Wiring(p, lev, new, layer - 1) /\ OnlyAt(lev, g, h, selected[i], layer)
    <3> DEFINE nbr == selected[i]
    <3>1. nbr \in HasLayer(lev, layer) \ {new} /\ new \notin Range(g.links[nbr][layer])
      BY <1>1, <2>3
    <3> HIDE DEF nbr
    <3>2. LET r == LinkBack(g, nbr, new, layer)
          IN  r \in Wiring(p, lev, new, layer - 1) /\ OnlyAt(lev, g, r, nbr, layer)
      BY <2>2, <3>1, LinkBackStays
    <3> QED
      BY <3>2 DEF nbr
  <2> HIDE DEF h
  <2>5. ASSUME NEW x \in 1 .. N, x > i
        PROVE  new \notin Range(h.links[selected[x]][layer])
    <3>1. selected[x] # selected[i] /\ x > i - 1
      BY <1>1, <2>1, <2>5
    <3>2. selected[x] \in DOMAIN lev /\ layer \in 0 .. lev[selected[x]]
      BY <1>1 DEF HasLayer
    <3>3. h.links[selected[x]][layer] = g.links[selected[x]][layer]
      BY <2>4, <3>1, <3>2 DEF OnlyAt
    <3> QED
      BY <2>2, <3>1, <3>3
  <2>6. h.links[new][layer] = selected
    <3>1. new \in DOMAIN lev /\ selected[i] # new
      BY <1>1, <2>1 DEF N
    <3> QED
      BY <2>2, <2>4, <3>1 DEF OnlyAt
  <2>7. h \in Ahead(i)
    BY <2>4, <2>5, <2>6 DEF N
  <2> HIDE DEF Ahead
  <2> QED
    BY <2>7 DEF h
<1>5. s = [i \in 0 .. N |-> IF i = 0 THEN a ELSE Step(s[i - 1], i)]
  <2> HIDE DEF D, N, a, Step
  <2>1. \A i \in 1 .. N : \A x \in D[i - 1] : F[i][x] = Step(x, i)
    OBVIOUS
  <2> HIDE DEF F
  <2>2. PICK e : Iterates(N, D, a, F, e)
    BY <1>3, <1>4, <2>1, IteratedExists
  <2>3. \A i \in 0 .. N : i # 0 => F[i][e[i - 1]] = Step(e[i - 1], i)
    BY <1>2, <2>1, <2>2 DEF Iterates
  <2>4. e = [i \in 0 .. N |-> IF i = 0 THEN a ELSE Step(e[i - 1], i)]
    BY <2>2, <2>3 DEF Iterates
  <2> QED
    BY <2>4
<1>6. LinkAllBack(begin, selected, new, layer) = s[N]
  BY DEF LinkAllBack, Iterated
<1>7. s[N] \in D[N]
  <2> HIDE DEF D, N, a, Step, s
  <2>1. s[0] = a /\ \A i \in 1 .. N : s[i] = Step(s[i - 1], i)
    <3>1. \A i \in 1 .. N : i \in 0 .. N /\ i # 0
      OBVIOUS
    <3> QED
      BY <1>3, <1>5, <3>1
  <2>2. \A i \in 1 .. N : s[i - 1] \in D[i - 1] => s[i] \in D[i]
    BY <1>4, <2>1
  <2> QED
    BY <1>3, <2>1, <2>2, IteratedStays
<1>8. s[N] \in Ahead(N)
  <2>1. N \in 0 .. N
    BY <1>3
  <2> HIDE DEF N, Ahead, s
  <2> QED
    BY <1>7, <2>1
<1> HIDE DEF s
<1> QED
  BY <1>6, <1>8 DEF Linking

\* Phase 2 of insert_new before it wires the layer l.
Connecting(p, lev, new, l) == [g : Wiring(p, lev, new, l), at : HasLayer(lev, l) \ {new}]

\* And after it wired the layer.
Connects(state, p, lev, new, layer) ==
    state \in Connecting(p, lev, new, layer - 1) /\ Len(state.g.links[new][layer]) > 0

LEMMA ConnectLayerStays ==
    ASSUME NEW T \in Nat, NEW lev \in [1 .. T -> Nat], NEW p, p.vec \in Seq(Vector), Len(p.vec) = T,
           NEW new \in 1 .. T, NEW layer \in 0 .. lev[new],
           NEW state \in Connecting(p, lev, new, layer), NEW rank, Tells(rank, (1 .. T) \ {new})
    PROVE  Connects(ConnectLayer(state, new, layer, rank), p, lev, new, layer)
<1> DEFINE g == state.g
           v == g.vec[new]
           S == HasLayer(lev, layer) \ {new}
           found == SearchLayer(g, v, state.at, EfConstruction, layer)
           sorted == SortFound(g, v, found, rank)
           selected == SelectNeighbors(g, v, sorted, MMax(layer))
           begin == SetLinks(g, new, layer, selected)
           low == layer - 1
<1>1. /\ g \in Wiring(p, lev, new, layer) /\ state.at \in S /\ g.vec = p.vec
      /\ layer \in Nat /\ low \in Int /\ low < layer
  BY DEF Connecting, Wiring
<1>2. ConnectLayer(state, new, layer, rank)
        = [g |-> LinkAllBack(begin, selected, new, layer), at |-> sorted[1]]
  BY DEF ConnectLayer
<1> HIDE DEF g
<1>3. g.vec \in Seq(Vector) /\ v \in Vector /\ S \in SUBSET Nodes(g) /\ S \subseteq (1 .. T) \ {new}
  BY <1>1 DEF HasLayer, Nodes
<1>4. Closed(g, layer, S)
  <2>1. layer \in Int /\ layer \in 0 .. layer
    BY <1>1
  <2> QED
    BY <1>1, <2>1, OldNodesClosed
<1>5. EfConstruction \in Nat /\ EfConstruction >= 1 /\ MMax(layer) \in Nat
  BY ParamsAssumption, MMaxIsNumber
<1> HIDE DEF v
<1>6. found \in SUBSET S /\ found # {}
  <2> HIDE DEF S
  <2> QED
    BY <1>1, <1>3, <1>4, <1>5, SearchLayerStays
<1> HIDE DEF found
<1>7. /\ sorted \in Seq(found) /\ Len(sorted) = Cardinality(found) /\ Distinct(sorted)
      /\ Range(sorted) = found
  <2>1. \A a, b \in found : rank[a] \in Int /\ (rank[a] = rank[b] => a = b)
    BY <1>3, <1>6 DEF Tells
  <2>3. Tells(rank, found)
    BY <2>1 DEF Tells
  <2>2. found \in SUBSET Nodes(g)
    BY <1>3, <1>6
  <2> HIDE DEF S
  <2>4. g.vec \in Seq(Vector) /\ v \in Vector
    BY <1>3
  <2>5. SortsNodes(sorted, g, v, found)
    BY <2>2, <2>3, <2>4, SortFoundIs
  <2> HIDE DEF sorted
  <2> QED
    BY <2>5 DEF SortsNodes
<1> HIDE DEF sorted
<1>8. sorted[1] \in found /\ Len(sorted) > 0
  <2>1. PICK i \in 1 .. Len(sorted) : TRUE
    <3>1. DOMAIN sorted = 1 .. Len(sorted)
      BY <1>7
    <3> QED
      BY <1>6, <1>7, <3>1 DEF Range
  <2>2. 1 \in 1 .. Len(sorted)
    BY <1>7, <2>1
  <2> QED
    BY <1>7, <2>2
<1>9. /\ selected \in Seq(found) /\ Len(selected) <= MMax(layer) /\ Distinct(selected)
      /\ Len(selected) > 0
  <2>1. Len(sorted) > 0 /\ MMax(layer) >= 1
    BY <1>7, <1>8, MMaxIsNumber
  <2> QED
    BY <1>5, <1>7, <2>1, SelectStays
<1> HIDE DEF selected
<1>10. GoodList(lev, new, layer, selected)
  BY <1>6, <1>9 DEF GoodList
<1>11. g \in Wiring(p, lev, new, low)
  <2>1. 0 .. low \subseteq 0 .. layer
    BY <1>1
  <2> QED
    BY <1>1, <2>1 DEF Wiring
<1> HIDE DEF low
<1>12. /\ begin \in Wiring(p, lev, new, low) /\ OnlyAt(lev, g, begin, new, layer)
       /\ begin.links[new][layer] = selected
  <2>1. new \in DOMAIN lev
    OBVIOUS
  <2>2. begin \in Wiring(p, lev, new, low)
    BY <1>1, <1>10, <1>11, <2>1, SetLinksIs
  <2>3. OnlyAt(lev, g, begin, new, layer)
    BY <1>1, <1>10, <1>11, <2>1, SetLinksIs
  <2>4. begin.links[new][layer] = selected
    BY <1>1, <1>10, <1>11, <2>1, SetLinksIs, SMTT(30)
  <2> QED
    BY <2>2, <2>3, <2>4
<1> HIDE DEF begin
<1>13. ASSUME NEW x \in 1 .. Len(selected)
       PROVE  new \notin Range(begin.links[selected[x]][layer])
  <2>1. selected[x] \in S
    BY <1>6, <1>9
  <2>2. selected[x] \in DOMAIN lev /\ layer \in 0 .. lev[selected[x]] /\ selected[x] # new
    BY <1>1, <2>1 DEF HasLayer
  <2>3. begin.links[selected[x]][layer] = g.links[selected[x]][layer]
    BY <1>12, <2>2 DEF OnlyAt
  <2>4. layer \in 0 .. layer
    BY <1>1
  <2>5. new \notin Range(g.links[selected[x]][layer])
    BY <1>1, <2>1, <2>4 DEF Wiring
  <2> QED
    BY <2>3, <2>5
<1>14. LinkAllBack(begin, selected, new, layer) \in Linking(p, lev, new, layer, selected)
  <2>1. begin \in Linking(p, lev, new, layer, selected)
    BY <1>12 DEF low, Linking
  <2>2. \A x \in 1 .. Len(selected) : new \notin Range(begin.links[selected[x]][layer])
    BY <1>13
  <2> QED
    BY <1>10, <2>1, <2>2, LinkAllStays
<1>15. sorted[1] \in HasLayer(lev, layer - 1) \ {new}
  <2>1. sorted[1] \in S
    BY <1>6, <1>8
  <2> QED
    BY <1>1, <2>1 DEF HasLayer
<1> QED
  BY <1>2, <1>9, <1>14, <1>15 DEF Connects, Connecting, Linking

MayConnect(T, lev, p, new, layer, state, rank) ==
    /\ T \in Nat /\ lev \in [1 .. T -> Nat] /\ p.vec \in Seq(Vector) /\ Len(p.vec) = T
    /\ new \in 1 .. T /\ layer \in 0 .. lev[new]
    /\ state \in Connecting(p, lev, new, layer) /\ Tells(rank, (1 .. T) \ {new})

LEMMA LayerConnects ==
    ASSUME NEW T, NEW lev, NEW p, NEW new, NEW layer, NEW state, NEW rank,
           MayConnect(T, lev, p, new, layer, state, rank)
    PROVE  Connects(ConnectLayer(state, new, layer, rank), p, lev, new, layer)
<1>1. /\ T \in Nat /\ lev \in [1 .. T -> Nat] /\ p.vec \in Seq(Vector) /\ Len(p.vec) = T
      /\ new \in 1 .. T /\ layer \in 0 .. lev[new]
      /\ state \in Connecting(p, lev, new, layer) /\ Tells(rank, (1 .. T) \ {new})
  BY DEF MayConnect
<1> QED
  BY <1>1, ConnectLayerStays

LEMMA TopLayerIs ==
    ASSUME NEW g, NEW n, NEW top \in Nat, DOMAIN g.links[n] = 0 .. top
    PROVE  TopLayer(g, n) = top
<1>1. top \in 0 .. top /\ \A y \in 0 .. top : top >= y
  OBVIOUS
<1>2. \A x \in 0 .. top : (\A y \in 0 .. top : x >= y) => x = top
  OBVIOUS
<1> QED
  BY <1>1, <1>2 DEF TopLayer, Max

LEMMA MinOfTwo ==
    ASSUME NEW a \in Nat, NEW b \in Nat
    PROVE  Min({a, b}) = IF b < a THEN b ELSE a
<1> DEFINE m == IF b < a THEN b ELSE a
<1>1. m \in {a, b} /\ \A y \in {a, b} : m <= y
  OBVIOUS
<1>2. \A x \in {a, b} : (\A y \in {a, b} : x <= y) => x = m
  OBVIOUS
<1> HIDE DEF m
<1>3. Min({a, b}) = m
  BY <1>1, <1>2 DEF Min
<1> QED
  BY <1>3 DEF m

\* Both phases, for a new node whose lists are still empty.
LEMMA WireStays ==
    ASSUME NEW T \in Nat, NEW lev \in [1 .. T -> Nat], NEW p, p.vec \in Seq(Vector),
           Len(p.vec) = T, p.entry \in 1 .. T - 1, TopLayer(p, p.entry) = lev[p.entry],
           \A low \in Int : p \in Wiring(p, lev, T, low),
           NEW rank, \A l \in 0 .. lev[T] : Tells(rank[l], 1 .. T - 1)
    PROVE  /\ Wire(p, lev[T], rank) \in Wiring(p, lev, T, -1)
           /\ Len(Wire(p, lev[T], rank).links[T][0]) > 0
<1> DEFINE new == T
           level == lev[T]
           top == TopLayer(p, p.entry)
           low == StartLayer(level, top)
           v == p.vec[new]
           begin == [g |-> p, at |-> Descend(p, v, p.entry, top, level)]
           N == low + 1
           Wired(i) == {x \in Connecting(p, lev, new, low - i) :
                           i # 0 => Len(x.g.links[new][low + 1 - i]) > 0}
           D == [i \in 0 .. N |-> Wired(i)]
           a == begin
           Step(x, i) == ConnectLayer(x, new, low + 1 - i, rank[low + 1 - i])
           F == [i \in 1 .. N |-> [x \in D[i - 1] |-> Step(x, i)]]
           s[i \in 0 .. N] == IF i = 0 THEN a ELSE Step(s[i - 1], i)
<1>0. /\ T >= 2 /\ new \in 1 .. T /\ level \in Nat /\ top = lev[p.entry] /\ top \in Nat
      /\ p.entry \in 1 .. T /\ p.entry # new /\ v \in Vector
  <2>1. T >= 2 /\ p.entry \in 1 .. T /\ p.entry # T
    OBVIOUS
  <2> QED
    BY <2>1
<1>1. N \in Nat /\ low \in Nat /\ low = (IF top < level THEN top ELSE level) /\ low <= level
  <2>1. low = Min({level, top})
    BY DEF StartLayer
  <2> HIDE DEF level, top, low
  <2>2. low = IF top < level THEN top ELSE level
    BY <1>0, <2>1, MinOfTwo
  <2>3. low \in Nat /\ low <= level /\ low + 1 \in Nat
    <3>1. level \in Nat /\ top \in Nat
      BY <1>0
    <3> QED
      BY <2>2, <3>1
  <2> QED
    BY <2>2, <2>3
<1>a. begin.at \in HasLayer(lev, low) \ {new}
  <2> DEFINE S == [l \in 0 .. top |-> HasLayer(lev, l) \ {new}]
  <2>1. ASSUME NEW l \in level + 1 .. top
        PROVE  Closed(p, l, S[l]) /\ S[l] \subseteq S[l - 1]
    <3>1. l \in 0 .. top /\ l - 1 \in 0 .. top /\ top \in Int
      BY <1>0
    <3>2. Closed(p, l, HasLayer(lev, l) \ {new})
      BY <1>0, <3>1, OldNodesClosed
    <3>3. HasLayer(lev, l) \subseteq HasLayer(lev, l - 1)
      BY <3>1 DEF HasLayer
    <3> QED
      BY <3>1, <3>2, <3>3
  <2>2. p.entry \in S[top]
    BY <1>0 DEF HasLayer
  <2>3. low \in 0 .. top
    BY <1>0, <1>1
  <2> HIDE DEF S, v, top, level, low
  <2>4. Descend(p, v, p.entry, top, level) \in S[low]
    BY <1>0, <1>1, <2>1, <2>2, DescendStays
  <2> QED
    BY <2>3, <2>4 DEF S
<1>2. \A i \in 0 .. N : i = 0 \/ (i \in 1 .. N /\ i - 1 \in 0 .. N)
  BY <1>1
<1>3. N \in Nat /\ a \in D[0]
  <2>1. begin \in Connecting(p, lev, new, low)
    BY <1>1, <1>a DEF Connecting
  <2>2. 0 \in 0 .. N /\ low - 0 = low
    BY <1>1
  <2> HIDE DEF N, begin, low
  <2>3. begin \in Wired(0)
    BY <2>1, <2>2
  <2> HIDE DEF Wired
  <2> QED
    BY <1>1, <2>2, <2>3
<1>4. \A i \in 1 .. N : \A x \in D[i - 1] : Step(x, i) \in D[i]
  <2> SUFFICES ASSUME NEW i \in 1 .. N, NEW state \in Connecting(p, lev, new, low - (i - 1))
               PROVE  LET x == ConnectLayer(state, new, low + 1 - i, rank[low + 1 - i])
                      IN  /\ x \in Connecting(p, lev, new, low - i)
                          /\ Len(x.g.links[new][low + 1 - i]) > 0
    <3> HIDE DEF N, low
    <3>0. N \in Nat
      BY <1>3
    <3>1. \A i \in 1 .. N : i \in 0 .. N /\ i - 1 \in 0 .. N
      BY <3>0
    <3>2. \A i \in 0 .. N : D[i] = Wired(i)
      OBVIOUS
    <3> HIDE DEF D
    <3> QED
      BY <3>1, <3>2
  <2> DEFINE layer == low + 1 - i
  <2>1. layer \in 0 .. lev[new] /\ low - (i - 1) = layer /\ low - i = layer - 1
    <3>1. i \in 1 .. low + 1
      OBVIOUS
    <3>2. low \in Nat /\ low <= lev[new] /\ lev[new] \in Nat
      BY <1>0, <1>1
    <3> HIDE DEF low
    <3> QED
      BY <3>1, <3>2
  <2>2. Tells(rank[layer], (1 .. T) \ {new})
    <3>1. (1 .. T) \ {T} = 1 .. T - 1
      BY <1>0
    <3> QED
      BY <2>1, <3>1
  <2>3. state \in Connecting(p, lev, new, layer)
    BY <2>1
  <2>4. Connects(ConnectLayer(state, new, layer, rank[layer]), p, lev, new, layer)
    <3>1. MayConnect(T, lev, p, new, layer, state, rank[layer])
      BY <1>0, <2>1, <2>2, <2>3 DEF MayConnect
    <3> HIDE DEF new, layer
    <3> QED
      BY <3>1, LayerConnects
  <2> HIDE DEF layer
  <2> QED
    BY <2>1, <2>4 DEF layer, Connects
<1>5. s = [i \in 0 .. N |-> IF i = 0 THEN a ELSE Step(s[i - 1], i)]
  <2> HIDE DEF D, N, a, Step
  <2>1. \A i \in 1 .. N : \A x \in D[i - 1] : F[i][x] = Step(x, i)
    OBVIOUS
  <2> HIDE DEF F
  <2>2. PICK e : Iterates(N, D, a, F, e)
    BY <1>3, <1>4, <2>1, IteratedExists
  <2>3. \A i \in 0 .. N : i # 0 => F[i][e[i - 1]] = Step(e[i - 1], i)
    BY <1>2, <2>1, <2>2 DEF Iterates
  <2>4. e = [i \in 0 .. N |-> IF i = 0 THEN a ELSE Step(e[i - 1], i)]
    BY <2>2, <2>3 DEF Iterates
  <2> QED
    BY <2>4
<1>6. Wire(p, lev[T], rank) = s[N].g
  BY DEF Wire, Iterated
<1>7. s[N] \in D[N]
  <2> HIDE DEF D, N, a, Step, s
  <2>1. s[0] = a /\ \A i \in 1 .. N : s[i] = Step(s[i - 1], i)
    <3>1. \A i \in 1 .. N : i \in 0 .. N /\ i # 0
      OBVIOUS
    <3> QED
      BY <1>3, <1>5, <3>1
  <2>2. \A i \in 1 .. N : s[i - 1] \in D[i - 1] => s[i] \in D[i]
    BY <1>4, <2>1
  <2> QED
    BY <1>3, <2>1, <2>2, IteratedStays
<1>8. N \in 0 .. N /\ low - N = -1 /\ low + 1 - N = 0 /\ N # 0
  <2>1. N = low + 1 /\ low \in Nat
    BY <1>1
  <2> HIDE DEF N, low
  <2> QED
    BY <2>1
<1>9. s[N] \in Connecting(p, lev, new, -1) /\ Len(s[N].g.links[new][0]) > 0
  <2> HIDE DEF N, s, Wired
  <2>1. s[N] \in Wired(N)
    BY <1>7, <1>8
  <2> HIDE DEF low
  <2> QED
    BY <1>8, <2>1 DEF Wired
<1> HIDE DEF s
<1> QED
  BY <1>6, <1>9 DEF Connecting

-----------------------------------------------------------------------------
(* The graph keeps its layers.                                             *)

IsGraph(g) ==
    /\ g = [vec |-> g.vec, id |-> g.id, links |-> g.links, del |-> g.del, live |-> g.live,
            entry |-> g.entry]
    /\ g.vec \in Seq(Vector)

\* The nodes have the levels lev, their lists are good, and the entry point is a node of
\* the highest level.
Layered(g, lev) ==
    /\ lev \in [1 .. Len(g.vec) -> Nat] /\ g.links \in GoodLinks(lev)
    /\ IF Len(g.vec) = 0 THEN g.entry = 0
       ELSE /\ g.entry \in 1 .. Len(g.vec)
            /\ \A n \in 1 .. Len(g.vec) : lev[n] <= lev[g.entry]

Raised(g, lev, level) ==
    [n \in 1 .. Len(g.vec) + 1 |-> IF n <= Len(g.vec) THEN lev[n] ELSE level]

\* The levels up of N + 1 nodes are those of lev, and level.
RaisesLevels(N, up, lev, level) ==
    /\ N \in Nat /\ N + 1 \in Nat /\ N + 1 \in 1 .. N + 1 /\ up \in [1 .. N + 1 -> Nat]
    /\ up[N + 1] = level
    /\ \A n \in 1 .. N : n \in 1 .. N + 1 /\ up[n] = lev[n] /\ lev[n] \in Nat /\ n # N + 1
    /\ \A n \in 1 .. N + 1 : n = N + 1 \/ n \in 1 .. N

LEMMA RaisedIs ==
    ASSUME NEW g, IsGraph(g), NEW lev, Layered(g, lev), NEW level \in Nat
    PROVE  RaisesLevels(Len(g.vec), Raised(g, lev, level), lev, level)
<1> DEFINE N == Len(g.vec)
<1>1. N \in Nat /\ lev \in [1 .. N -> Nat]
  BY DEF IsGraph, Layered
<1>2. N + 1 \in Nat /\ N + 1 \in 1 .. N + 1 /\ ~(N + 1 <= N)
      /\ (\A n \in 1 .. N : n \in 1 .. N + 1 /\ n <= N /\ n # N + 1)
      /\ \A n \in 1 .. N + 1 : n = N + 1 \/ n \in 1 .. N
  BY <1>1
<1> HIDE DEF N
<1>3. Raised(g, lev, level) = [n \in 1 .. N + 1 |-> IF n <= N THEN lev[n] ELSE level]
  BY DEF Raised, N
<1>4. Raised(g, lev, level) \in [1 .. N + 1 -> Nat] /\ Raised(g, lev, level)[N + 1] = level
      /\ \A n \in 1 .. N : Raised(g, lev, level)[n] = lev[n]
  BY <1>1, <1>2, <1>3
<1>5. \A n \in 1 .. N : lev[n] \in Nat
  BY <1>1
<1> QED
  BY <1>1, <1>2, <1>4, <1>5 DEF RaisesLevels, N

\* The new node has empty lists, and no list leads to it yet.
LEMMA PushNodeIs ==
    ASSUME NEW g, IsGraph(g), NEW lev, Layered(g, lev), NEW id, NEW v \in Vector, NEW level \in Nat
    PROVE  LET p == PushNode(g, id, v, level)
               T == Len(g.vec) + 1
           IN  /\ p.vec \in Seq(Vector) /\ Len(p.vec) = T /\ p.entry = g.entry
               /\ p.links \in GoodLinks(Raised(g, lev, level))
               /\ \A low \in Int : p \in Wiring(p, Raised(g, lev, level), T, low)
<1> DEFINE p == PushNode(g, id, v, level)
           N == Len(g.vec)
           T == N + 1
           up == Raised(g, lev, level)
           empty == [l \in 0 .. level |-> <<>>]
           k == Append(g.links, empty)
<1>1. /\ N \in Nat /\ T \in Nat /\ T \in 1 .. T /\ up \in [1 .. T -> Nat] /\ up[T] = level
      /\ \A n \in 1 .. N : n \in 1 .. T /\ up[n] = lev[n] /\ lev[n] \in Nat /\ n # T
      /\ \A n \in 1 .. T : n = T \/ n \in 1 .. N
  <2>1. RaisesLevels(N, up, lev, level)
    BY RaisedIs
  <2> HIDE DEF N, up
  <2> QED
    BY <2>1 DEF RaisesLevels
<1>2. /\ g = [vec |-> g.vec, id |-> g.id, links |-> g.links, del |-> g.del, live |-> g.live,
              entry |-> g.entry]
      /\ g.vec \in Seq(Vector) /\ lev \in [1 .. N -> Nat] /\ g.links \in GoodLinks(lev)
  BY DEF IsGraph, Layered
<1>3. p = [vec |-> Append(g.vec, v), id |-> Append(g.id, id), links |-> k, del |-> g.del,
           live |-> g.live + 1, entry |-> g.entry]
  <2> HIDE DEF k
  <2>1. p = [g EXCEPT !.vec = Append(g.vec, v), !.id = Append(g.id, id), !.live = g.live + 1,
                      !.links = k]
    BY DEF PushNode, k
  <2> HIDE DEF p
  <2> QED
    BY <1>2, <2>1
<1> HIDE DEF p, up
<1>4. /\ DOMAIN lev = 1 .. N /\ DOMAIN up = 1 .. T
      /\ g.links \in [1 .. N -> Lists(lev)]
      /\ \A n \in 1 .. N : /\ g.links[n] \in [0 .. lev[n] -> Seq(1 .. N)]
                           /\ \A l \in 0 .. lev[n] : GoodList(lev, n, l, g.links[n][l])
  BY <1>1, <1>2 DEF GoodLinks
<1>5. /\ k \in [1 .. T -> {k[n] : n \in 1 .. T}] /\ k[T] = empty
      /\ \A n \in 1 .. N : k[n] = g.links[n]
  <2>1. g.links \in Seq(Lists(lev)) /\ Len(g.links) = N
    <3> DEFINE z == g.links
               X == Lists(lev)
    <3>1. z \in [1 .. N -> X] /\ N \in Nat
      BY <1>1, <1>4
    <3> HIDE DEF z, X, N
    <3>2. z \in Seq(X) /\ Len(z) = N
      BY <3>1
    <3> QED
      BY <3>2 DEF z, X
  <2> HIDE DEF empty
  <2>2. Len(k) = T /\ DOMAIN k = 1 .. T /\ k = [n \in 1 .. T |-> k[n]] /\ k[T] = empty
        /\ \A n \in 1 .. N : k[n] = g.links[n]
    <3>1. g.links \in Seq(Lists(lev) \cup {empty}) /\ empty \in Lists(lev) \cup {empty}
      BY <2>1
    <3>2. /\ Append(g.links, empty) \in Seq(Lists(lev) \cup {empty})
          /\ Len(Append(g.links, empty)) = Len(g.links) + 1
          /\ \A i \in 1 .. Len(g.links) : Append(g.links, empty)[i] = g.links[i]
          /\ Append(g.links, empty)[Len(g.links) + 1] = empty
      <4> DEFINE z == g.links
                 X == Lists(lev) \cup {empty}
      <4>1. z \in Seq(X) /\ empty \in X
        BY <3>1
      <4> HIDE DEF z, X
      <4>2. /\ Append(z, empty) \in Seq(X) /\ Len(Append(z, empty)) = Len(z) + 1
            /\ \A i \in 1 .. Len(z) : Append(z, empty)[i] = z[i]
            /\ Append(z, empty)[Len(z) + 1] = empty
        BY <4>1, AppendProperties
      <4> QED
        BY <4>2 DEF z, X
    <3> HIDE DEF k
    <3>3. k \in Seq(Lists(lev) \cup {empty}) /\ Len(k) = T /\ k[T] = empty
          /\ \A n \in 1 .. N : k[n] = g.links[n]
      BY <2>1, <3>2 DEF k
    <3> HIDE DEF N, T
    <3>4. DOMAIN k = 1 .. T /\ k = [n \in 1 .. T |-> k[n]]
      BY <1>1, <3>3
    <3> QED
      BY <3>3, <3>4
  <2> HIDE DEF k
  <2> QED
    BY <2>2
<1> HIDE DEF k
<1>6. ASSUME NEW l \in Nat
      PROVE  HasLayer(lev, l) \subseteq HasLayer(up, l) /\ T \notin HasLayer(lev, l)
  BY <1>1, <1>4 DEF HasLayer
<1>7. ASSUME NEW n \in 1 .. N, NEW l \in 0 .. lev[n]
      PROVE  GoodList(up, n, l, k[n][l]) /\ T \notin Range(k[n][l]) /\ k[n][l] \in Seq(1 .. T)
  <2>1. GoodList(lev, n, l, k[n][l]) /\ l \in Nat
    <3>1. k[n] = g.links[n] /\ lev[n] \in Nat
      BY <1>1, <1>5
    <3>2. GoodList(lev, n, l, g.links[n][l])
      BY <1>4
    <3> QED
      BY <3>1, <3>2
  <2>2. k[n][l] \in Seq(HasLayer(lev, l) \ {n})
    BY <2>1 DEF GoodList
  <2>3. HasLayer(lev, l) \ {n} \subseteq HasLayer(up, l) \ {n} /\ HasLayer(lev, l) \subseteq 1 .. T
    <3>1. HasLayer(lev, l) \subseteq HasLayer(up, l)
      BY <1>6, <2>1
    <3>2. HasLayer(lev, l) \subseteq 1 .. N /\ 1 .. N \subseteq 1 .. T
      BY <1>1, <1>4 DEF HasLayer
    <3> QED
      BY <3>1, <3>2
  <2>4. T \notin HasLayer(lev, l)
    BY <1>6, <2>1
  <2>5. Range(k[n][l]) \subseteq HasLayer(lev, l)
    BY <2>2 DEF Range
  <2>6. k[n][l] \in Seq(HasLayer(up, l) \ {n}) /\ k[n][l] \in Seq(1 .. T)
    BY <2>2, <2>3
  <2> QED
    BY <2>1, <2>4, <2>5, <2>6 DEF GoodList
<1>8. ASSUME NEW l \in 0 .. level
      PROVE  GoodList(up, T, l, empty[l]) /\ empty[l] \in Seq(1 .. T)
  <2>1. empty[l] = <<>>
    OBVIOUS
  <2>2. MMax(l) \in Nat
    BY MMaxIsNumber
  <2> HIDE DEF empty
  <2> QED
    BY <2>1, <2>2 DEF GoodList, Distinct
<1>9. ASSUME NEW n \in 1 .. T
      PROVE  /\ k[n] \in [0 .. up[n] -> Seq(1 .. T)]
             /\ \A l \in 0 .. up[n] : GoodList(up, n, l, k[n][l])
  <2>1. CASE n = T
    <3>1. k[n] = empty /\ up[n] = level
      BY <1>1, <1>5, <2>1
    <3>2. empty = [l \in 0 .. level |-> empty[l]]
      OBVIOUS
    <3> HIDE DEF empty
    <3> QED
      BY <1>8, <2>1, <3>1, <3>2
  <2>2. CASE n \in 1 .. N
    <3>1. k[n] = g.links[n] /\ up[n] = lev[n] /\ g.links[n] \in [0 .. lev[n] -> Seq(1 .. N)]
      BY <1>1, <1>4, <1>5, <2>2
    <3> QED
      BY <1>7, <2>2, <3>1
  <2> QED
    BY <1>1, <2>1, <2>2
<1>10. k \in GoodLinks(up)
  <2>1. \A n \in 1 .. T : k[n] \in Lists(up)
    <3> TAKE n \in 1 .. T
    <3>1. up[n] \in Nat /\ k[n] \in [0 .. up[n] -> Seq(DOMAIN up)]
      BY <1>1, <1>4, <1>9
    <3> QED
      BY <3>1 DEF Lists
  <2>2. k \in [DOMAIN up -> Lists(up)]
    BY <1>4, <1>5, <2>1
  <2> QED
    BY <1>4, <1>9, <2>2 DEF GoodLinks
<1>11. ASSUME NEW low \in Int
       PROVE  p \in Wiring(p, up, T, low)
  <2>1. p \in [vec : {p.vec}, id : {p.id}, links : GoodLinks(up), del : {p.del}, live : {p.live},
               entry : {p.entry}]
    BY <1>3, <1>10
  <2>2. ASSUME NEW l \in 0 .. low, NEW n \in HasLayer(up, l) \ {T}
        PROVE  T \notin Range(p.links[n][l])
    <3>1. n \in 1 .. N /\ l \in 0 .. lev[n]
      BY <1>1, <1>4 DEF HasLayer
    <3> QED
      BY <1>3, <1>7, <3>1
  <2> QED
    BY <2>1, <2>2 DEF Wiring
<1>12. p.vec \in Seq(Vector) /\ Len(p.vec) = T /\ p.entry = g.entry /\ p.links = k
  BY <1>2, <1>3
<1> QED
  BY <1>10, <1>11, <1>12 DEF p, up

\* The entry point and every other node has its level as its top layer.
LEMMA TopsAre ==
    ASSUME NEW lev, lev \in [DOMAIN lev -> Nat], NEW g, g.links \in GoodLinks(lev), NEW n \in DOMAIN lev
    PROVE  TopLayer(g, n) = lev[n] /\ DOMAIN g.links[n] = 0 .. lev[n] /\ lev[n] \in Nat
<1>1. lev[n] \in Nat
  OBVIOUS
<1>2. DOMAIN g.links[n] = 0 .. lev[n]
  BY <1>1 DEF GoodLinks
<1> QED
  BY <1>1, <1>2, TopLayerIs

LEMMA InsertNewStays ==
    ASSUME NEW g, IsGraph(g), NEW lev, Layered(g, lev), NEW id, NEW v \in Vector, NEW level \in Nat,
           NEW rank, \A l \in 0 .. level : Tells(rank[l], 1 .. Len(g.vec))
    PROVE  LET h == InsertNew(g, id, v, level, rank)
           IN  /\ Len(h.vec) = Len(g.vec) + 1 /\ \E up : Layered(h, up)
               /\ g.entry # 0 => Len(h.links[Len(h.vec)][0]) > 0
<1> DEFINE p == PushNode(g, id, v, level)
           N == Len(g.vec)
           T == N + 1
           up == Raised(g, lev, level)
           h == InsertNew(g, id, v, level, rank)
           k == IF g.entry = 0 THEN p.links ELSE Wire(p, level, rank).links
<1> SUFFICES /\ Len(h.vec) = Len(g.vec) + 1 /\ \E levels : Layered(h, levels)
             /\ g.entry # 0 => Len(h.links[Len(h.vec)][0]) > 0
  OBVIOUS
<1>1. /\ N \in Nat /\ T \in Nat /\ T \in 1 .. T /\ up \in [1 .. T -> Nat] /\ up[T] = level
      /\ \A n \in 1 .. N : n \in 1 .. T /\ up[n] = lev[n] /\ lev[n] \in Nat /\ n # T
      /\ \A n \in 1 .. T : n = T \/ n \in 1 .. N
  <2>1. RaisesLevels(N, up, lev, level)
    BY RaisedIs
  <2> HIDE DEF N, up
  <2> QED
    BY <2>1 DEF RaisesLevels
<1>2. /\ p.vec \in Seq(Vector) /\ Len(p.vec) = T /\ p.entry = g.entry
      /\ p.links \in GoodLinks(up) /\ \A low \in Int : p \in Wiring(p, up, T, low)
  BY PushNodeIs
<1>3. h.vec = p.vec /\ h.links = k /\ h.entry = EntryAfter(g, Len(p.vec), level)
  <2>1. p \in Wiring(p, up, T, 0)
    BY <1>2
  <2>2. p = [vec |-> p.vec, id |-> p.id, links |-> p.links, del |-> p.del, live |-> p.live,
             entry |-> p.entry]
    BY <2>1 DEF Wiring
  <2>3. h = [p EXCEPT !.links = k, !.entry = EntryAfter(g, Len(p.vec), level)]
    <3>1. h = [p EXCEPT !.links = IF g.entry = 0 THEN @ ELSE Wire(p, level, rank).links,
                        !.entry = EntryAfter(g, Len(p.vec), level)]
      BY DEF InsertNew
    <3> HIDE DEF p, h
    <3> QED
      BY <3>1
  <2> HIDE DEF p, k, h
  <2> QED
    BY <2>2, <2>3
<1> HIDE DEF p, h, up
<1>4. /\ lev \in [1 .. N -> Nat] /\ g.links \in GoodLinks(lev)
      /\ N = 0 => g.entry = 0
      /\ N # 0 => g.entry \in 1 .. N /\ \A n \in 1 .. N : lev[n] <= lev[g.entry]
  BY DEF Layered
<1>5. CASE g.entry = 0
  <2>1. N = 0 /\ T = 1
    BY <1>1, <1>4, <1>5
  <2>2. h.entry = T /\ k = p.links
    BY <1>2, <1>3, <1>5 DEF EntryAfter
  <2> HIDE DEF k, N
  <2>3. \A n \in 1 .. T : up[n] <= up[T]
    BY <1>1, <2>1
  <2>4. Len(h.vec) = T /\ h.links \in GoodLinks(up) /\ T # 0 /\ h.entry \in 1 .. T
    BY <1>1, <1>2, <1>3, <2>2
  <2> HIDE DEF T
  <2>5. Layered(h, up)
    BY <1>1, <2>2, <2>3, <2>4 DEF Layered
  <2> QED
    BY <1>5, <2>4, <2>5 DEF T, N
<1>6. CASE g.entry # 0
  <2>1. N # 0 /\ g.entry \in 1 .. N /\ T - 1 = N
    BY <1>1, <1>4, <1>6
  <2>2. up[g.entry] = lev[g.entry] /\ g.entry \in 1 .. T /\ lev[g.entry] \in Nat
    BY <1>1, <2>1
  <2>3. TopLayer(p, p.entry) = up[p.entry] /\ TopLayer(g, g.entry) = lev[g.entry]
    <3> HIDE DEF T, N, k
    <3>1. DOMAIN up = 1 .. T /\ up \in [DOMAIN up -> Nat] /\ DOMAIN lev = 1 .. N
          /\ lev \in [DOMAIN lev -> Nat]
      BY <1>1, <1>4
    <3>2. TopLayer(p, g.entry) = up[g.entry]
      BY <1>2, <2>2, <3>1, TopsAre
    <3>3. TopLayer(g, g.entry) = lev[g.entry]
      <4>1. g.links \in GoodLinks(lev) /\ g.entry \in DOMAIN lev /\ lev \in [DOMAIN lev -> Nat]
        BY <1>4, <2>1, <3>1
      <4> QED
        BY <4>1, TopsAre
    <3> QED
      BY <1>2, <3>2, <3>3
  <2>4. /\ Wire(p, level, rank) \in Wiring(p, up, T, -1)
        /\ Len(Wire(p, level, rank).links[T][0]) > 0
    <3>1. \A l \in 0 .. up[T] : Tells(rank[l], 1 .. T - 1)
      BY <1>1, <2>1
    <3>2. p.entry \in 1 .. T - 1
      BY <1>2, <2>1
    <3> HIDE DEF T
    <3>3. /\ Wire(p, up[T], rank) \in Wiring(p, up, T, -1)
          /\ Len(Wire(p, up[T], rank).links[T][0]) > 0
      BY <1>1, <1>2, <2>3, <3>1, <3>2, WireStays
    <3> QED
      BY <1>1, <3>3
  <2>5. k \in GoodLinks(up) /\ Len(k[T][0]) > 0
    BY <1>6, <2>4 DEF Wiring
  <2> HIDE DEF k, N
  <2>6. h.entry = IF level > lev[g.entry] THEN T ELSE g.entry
    BY <1>2, <1>3, <1>6, <2>3 DEF EntryAfter
  <2>7. \A n \in 1 .. N : lev[n] <= lev[g.entry]
    BY <1>4, <2>1
  <2>8. h.entry \in 1 .. T /\ \A n \in 1 .. T : up[n] <= up[h.entry]
    <3>1. CASE level > lev[g.entry]
      BY <1>1, <2>1, <2>2, <2>6, <2>7, <3>1
    <3>2. CASE ~(level > lev[g.entry])
      BY <1>1, <2>1, <2>2, <2>6, <2>7, <3>2
    <3> QED
      BY <3>1, <3>2
  <2>9. T # 0
    BY <1>1
  <2> HIDE DEF T
  <2>10. Len(h.vec) = T /\ h.links \in GoodLinks(up) /\ Len(h.links[T][0]) > 0
    BY <1>2, <1>3, <2>5
  <2>11. Layered(h, up)
    BY <1>1, <2>8, <2>9, <2>10 DEF Layered
  <2> QED
    BY <2>10, <2>11 DEF T, N
<1> QED
  BY <1>5, <1>6

\* The other calls leave the edges alone.
LEMMA ReplaceStays ==
    ASSUME NEW g, IsGraph(g), NEW lev, Layered(g, lev), NEW n, NEW v
    PROVE  Len(Replace(g, n, v).vec) = Len(g.vec) /\ Layered(Replace(g, n, v), lev)
<1> DEFINE h == Replace(g, n, v)
           w == [g.vec EXCEPT ![n] = v]
<1>1. g = [vec |-> g.vec, id |-> g.id, links |-> g.links, del |-> g.del, live |-> g.live,
           entry |-> g.entry]
      /\ g.vec \in Seq(Vector)
  BY DEF IsGraph
<1>2. h.vec = w /\ h.links = g.links /\ h.entry = g.entry
  <2>1. h = [g EXCEPT !.vec = w, !.del = @ \ {n}, !.live = IF n \in g.del THEN @ + 1 ELSE @]
    BY DEF Replace
  <2> HIDE DEF h, w
  <2> QED
    BY <1>1, <2>1
<1>3. Len(w) = Len(g.vec)
  <2>1. DOMAIN w = 1 .. Len(g.vec) /\ Len(g.vec) \in Nat
    BY <1>1
  <2>2. w \in Seq({w[i] : i \in DOMAIN w})
    <3> DEFINE X == {w[i] : i \in DOMAIN w}
    <3>1. w = [i \in 1 .. Len(g.vec) |-> w[i]] /\ \A i \in 1 .. Len(g.vec) : w[i] \in X
      BY <2>1
    <3> HIDE DEF w, X
    <3>2. w \in [1 .. Len(g.vec) -> X]
      BY <3>1
    <3>3. w \in Seq(X)
      BY <2>1, <3>2, SeqDef
    <3> QED
      BY <3>3 DEF X
  <2> HIDE DEF w
  <2> QED
    BY <2>1, <2>2
<1> HIDE DEF h, w
<1> QED
  BY <1>2, <1>3 DEF Layered, h

LEMMA DeleteStays ==
    ASSUME NEW g, IsGraph(g), NEW lev, Layered(g, lev), NEW id
    PROVE  Len(HnswDelete(g, id).vec) = Len(g.vec) /\ Layered(HnswDelete(g, id), lev)
<1>1. g = [vec |-> g.vec, id |-> g.id, links |-> g.links, del |-> g.del, live |-> g.live,
           entry |-> g.entry]
  BY DEF IsGraph
<1>2. /\ HnswDelete(g, id).vec = g.vec /\ HnswDelete(g, id).links = g.links
      /\ HnswDelete(g, id).entry = g.entry
  BY <1>1 DEF HnswDelete
<1> QED
  BY <1>2 DEF Layered

-----------------------------------------------------------------------------
(* The invariant of the layers.                                            *)

LayerInv ==
    /\ count = [ops |-> count.ops, searches |-> count.searches, faults |-> count.faults]
    /\ count.ops \in Nat /\ count.ops <= setup.ops
    /\ \A r \in Replicas : /\ Len(hnsw[r].vec) <= count.ops
                           /\ \E lev : Layered(hnsw[r], lev)

LEMMA LayerInvInit == Init => LayerInv
<1> SUFFICES ASSUME Init
             PROVE  LayerInv
  OBVIOUS
<1>1. count = [ops |-> 0, searches |-> 0, faults |-> 0] /\ \A r \in Replicas : hnsw[r] = EmptyGraph
  BY DEF Init
<1>2. /\ Len(EmptyGraph.vec) = 0 /\ EmptyGraph.entry = 0 /\ EmptyGraph.links = <<>>
  BY DEF EmptyGraph
<1>3. Layered(EmptyGraph, <<>>)
  <2>1. <<>> \in [1 .. 0 -> Nat] /\ DOMAIN <<>> = {} /\ <<>> \in [{} -> Lists(<<>>)]
    OBVIOUS
  <2>2. <<>> \in GoodLinks(<<>>)
    BY <2>1 DEF GoodLinks
  <2> QED
    BY <1>2, <2>1, <2>2 DEF Layered
<1>4. setup.ops \in Nat
  BY SetupsAssumption DEF Init, Setup
<1> QED
  BY <1>1, <1>2, <1>3, <1>4 DEF LayerInv

LEMMA LayerInvKept ==
    ASSUME LayerInv, UNCHANGED <<setup, hnsw>>,
           count' = [ops |-> count'.ops, searches |-> count'.searches, faults |-> count'.faults],
           count'.ops = count.ops
    PROVE  LayerInv'
<1>1. Replicas' = Replicas
  BY DEF Replicas, Shards
<1> QED
  BY <1>1 DEF LayerInv, Layered

LEMMA LayerInvCall ==
    ASSUME StoreInv, LayerInv, UNCHANGED setup, NEW r \in Replicas, NEW g,
           hnsw' = [hnsw EXCEPT ![r] = g], count' = [count EXCEPT !.ops = count.ops + 1],
           Len(g.vec) <= Len(hnsw[r].vec) + 1, Len(g.vec) \in Nat, \E lev : Layered(g, lev),
           count.ops < setup.ops
    PROVE  LayerInv'
<1>1. Replicas' = Replicas
  BY DEF Replicas, Shards
<1>2. hnsw' = [x \in Replicas |-> IF x = r THEN g ELSE hnsw[x]]
  <2>1. hnsw = [x \in Replicas |-> hnsw[x]]
    BY DEF StoreInv
  <2> QED
    BY <2>1
<1>3. /\ count' = [ops |-> count'.ops, searches |-> count'.searches, faults |-> count'.faults]
      /\ count'.ops = count.ops + 1 /\ count'.ops \in Nat /\ count'.ops <= setup'.ops
  <2>1. setup.ops \in Nat
    BY SetupsAssumption DEF StoreInv, Setup
  <2> QED
    BY <2>1 DEF LayerInv
<1>4. ASSUME NEW x \in Replicas
      PROVE  Len(hnsw'[x].vec) <= count'.ops /\ \E lev : Layered(hnsw'[x], lev)
  <2>1. CASE x = r
    <3>1. hnsw'[x] = g /\ Len(hnsw[r].vec) <= count.ops /\ count.ops \in Nat
      BY <1>2, <2>1 DEF LayerInv
    <3>2. Len(hnsw[r].vec) \in Nat
      BY DEF StoreInv, GraphHolds
    <3> QED
      BY <1>3, <3>1, <3>2
  <2>2. CASE x # r
    <3>1. hnsw'[x] = hnsw[x] /\ Len(hnsw[x].vec) <= count.ops /\ count.ops \in Nat
          /\ \E lev : Layered(hnsw[x], lev)
      BY <1>2, <2>2 DEF LayerInv
    <3>2. Len(hnsw[x].vec) \in Nat
      BY DEF StoreInv, GraphHolds
    <3> QED
      BY <1>3, <3>1, <3>2
  <2> QED
    BY <2>1, <2>2
<1> QED
  BY <1>1, <1>3, <1>4 DEF LayerInv, Layered

LEMMA InsertLayers ==
    ASSUME StoreInv, LayerInv, NEW r \in Replicas, NEW id \in setup.ids[r[1]], NEW v \in setup.vectors,
           NEW level, NEW rank, Insert(r, id, v, level, rank),
           NodeOf(hnsw[r], id) = 0 => level \in Nat /\ rank \in [0 .. level -> Ranks]
    PROVE  LayerInv'
<1> DEFINE g == hnsw[r]
           h == HnswInsert(g, id, v, level, rank)
<1>1. v \in Vector /\ setup \in Setups /\ setup.ops \in Nat
  BY SetupsAssumption DEF StoreInv, Setup, Vector
<1>2. /\ hnsw' = [hnsw EXCEPT ![r] = h] /\ count' = [count EXCEPT !.ops = count.ops + 1]
      /\ setup' = setup /\ count.ops < setup.ops
  BY DEF Insert
<1>3. IsGraph(g) /\ Len(g.vec) \in Nat
  BY DEF StoreInv, GraphHolds, IsGraph
<1>4. count.ops \in Nat /\ Len(g.vec) <= count.ops
  BY DEF LayerInv
<1>5. PICK lev : Layered(g, lev)
  BY DEF LayerInv
<1> HIDE DEF g
<1>6. Len(h.vec) \in Nat /\ Len(h.vec) <= Len(g.vec) + 1 /\ \E up : Layered(h, up)
  <2>1. CASE NodeOf(g, id) # 0
    <3>1. h = Replace(g, NodeOf(g, id), v)
      BY <2>1 DEF HnswInsert
    <3>2. Len(h.vec) = Len(g.vec) /\ Layered(h, lev)
      BY <1>3, <1>5, <3>1, ReplaceStays
    <3> HIDE DEF h
    <3> QED
      BY <1>3, <3>2
  <2>2. CASE NodeOf(g, id) = 0
    <3>1. h = InsertNew(g, id, v, level, rank)
      BY <2>2 DEF HnswInsert
    <3>2. level \in Nat /\ rank \in [0 .. level -> Ranks]
      BY <2>2 DEF g
    <3>3. ASSUME NEW l \in 0 .. level
          PROVE  Tells(rank[l], 1 .. Len(g.vec))
      <4>1. rank[l] \in Ranks
        BY <3>2
      <4>2. \A n \in 1 .. Len(g.vec) : n \in 1 .. setup.ops
        BY <1>1, <1>2, <1>3, <1>4
      <4> QED
        BY <1>1, <4>1, <4>2, RanksAssumption DEF Tells
    <3>4. Len(h.vec) = Len(g.vec) + 1 /\ \E up : Layered(h, up)
      BY <1>1, <1>3, <1>5, <3>1, <3>2, <3>3, InsertNewStays
    <3> HIDE DEF h
    <3> QED
      BY <1>3, <3>4
  <2> QED
    BY <2>1, <2>2
<1> HIDE DEF h
<1> QED
  BY <1>2, <1>6, LayerInvCall DEF g

LEMMA DeleteLayers ==
    ASSUME StoreInv, LayerInv, NEW r \in Replicas, NEW id \in setup.ids[r[1]], Delete(r, id)
    PROVE  LayerInv'
<1> DEFINE g == hnsw[r]
           h == HnswDelete(g, id)
<1>1. /\ hnsw' = [hnsw EXCEPT ![r] = h] /\ count' = [count EXCEPT !.ops = count.ops + 1]
      /\ setup' = setup /\ count.ops < setup.ops
  BY DEF Delete
<1>2. IsGraph(g) /\ Len(g.vec) \in Nat
  BY DEF StoreInv, GraphHolds, IsGraph
<1>3. PICK lev : Layered(g, lev)
  BY DEF LayerInv
<1> HIDE DEF g
<1>4. Len(h.vec) = Len(g.vec) /\ Layered(h, lev)
  BY <1>2, <1>3, DeleteStays
<1> HIDE DEF h
<1>5. Len(h.vec) \in Nat /\ Len(h.vec) <= Len(g.vec) + 1
  BY <1>2, <1>4
<1> QED
  BY <1>1, <1>4, <1>5, LayerInvCall DEF g

LEMMA LayerInvNext == StoreInv /\ LayerInv /\ [Next]_vars => LayerInv'
<1> SUFFICES ASSUME StoreInv, LayerInv, [Next]_vars
             PROVE  LayerInv'
  OBVIOUS
<1>1. ASSUME NEW r \in Replicas, NEW id \in setup.ids[r[1]], Upsert(r, id)
      PROVE  LayerInv'
  <2>1. PICK v \in setup.vectors :
          \/ /\ NodeOf(hnsw[r], id) = 0
             /\ \E level \in 0 .. setup.level : \E rank \in [0 .. level -> Ranks] :
                   Insert(r, id, v, level, rank)
          \/ NodeOf(hnsw[r], id) # 0 /\ Insert(r, id, v, 0, <<>>)
    BY <1>1 DEF Upsert
  <2>2. CASE NodeOf(hnsw[r], id) = 0
    <3>1. PICK level \in 0 .. setup.level : \E rank \in [0 .. level -> Ranks] :
             Insert(r, id, v, level, rank)
      BY <2>1, <2>2
    <3>2. PICK rank \in [0 .. level -> Ranks] : Insert(r, id, v, level, rank)
      BY <3>1
    <3>3. level \in Nat
      BY SetupsAssumption DEF StoreInv, Setup
    <3> QED
      BY <3>2, <3>3, InsertLayers
  <2>3. CASE NodeOf(hnsw[r], id) # 0
    BY <2>1, <2>3, InsertLayers
  <2> QED
    BY <2>2, <2>3
<1>2. ASSUME NEW r \in Replicas, NEW id \in setup.ids[r[1]], Delete(r, id)
      PROVE  LayerInv'
  BY <1>2, DeleteLayers
<1>3. ASSUME UNCHANGED <<setup, hnsw>>,
             count' \in {count, [count EXCEPT !.searches = @ + 1], [count EXCEPT !.faults = @ + 1]}
      PROVE  LayerInv'
  <2>1. count = [ops |-> count.ops, searches |-> count.searches, faults |-> count.faults]
    BY DEF LayerInv
  <2>2. count' = [ops |-> count'.ops, searches |-> count'.searches, faults |-> count'.faults]
        /\ count'.ops = count.ops
    BY <1>3, <2>1
  <2> QED
    BY <1>3, <2>2, LayerInvKept
<1>4. ASSUME NEW q, NEW k, NEW meta, BeginSearch(q, k, meta)
      PROVE  LayerInv'
  BY <1>3, <1>4 DEF BeginSearch, store
<1>5. ASSUME NEW rank, SearchReplica(rank)
      PROVE  LayerInv'
  BY <1>3, <1>5 DEF SearchReplica, store
<1>6. CASE SearchFails \/ FinishSearch \/ UNCHANGED vars
  BY <1>3, <1>6 DEF SearchFails, FinishSearch, store, vars
<1> QED
  BY <1>1, <1>2, <1>4, <1>5, <1>6 DEF Next

\* A list without repetitions has as many members as entries.
LEMMA DistinctCount ==
    ASSUME NEW X, NEW list \in Seq(X), Distinct(list)
    PROVE  Cardinality(Range(list)) = Len(list)
<1> DEFINE N == Len(list)
<1>1. N \in Nat /\ DOMAIN list = 1 .. N
  OBVIOUS
<1>2. list \in Bijection(1 .. N, Range(list))
  <2>1. list \in [1 .. N -> Range(list)] /\ \A y \in Range(list) : \E i \in 1 .. N : list[i] = y
    BY <1>1 DEF Range
  <2>2. \A i, j \in 1 .. N : list[i] = list[j] => i = j
    BY DEF Distinct
  <2> QED
    BY <2>1, <2>2 DEF Bijection, Injection, Surjection, IsInjective
<1>3. ExistsBijection(1 .. N, Range(list))
  BY <1>2 DEF ExistsBijection
<1> QED
  BY <1>1, <1>3, FS_CountingElements

LEMMA LayerInvHolds == StoreInv /\ LayerInv => WellLayered
<1> SUFFICES ASSUME StoreInv, LayerInv, NEW r \in Replicas, NEW n \in NodesOf(hnsw[r])
             PROVE  LET g == hnsw[r]
                    IN  /\ TopLayer(g, n) <= TopLayer(g, g.entry)
                        /\ \A l \in DOMAIN g.links[n] :
                              LET list == g.links[n][l]
                              IN  /\ Len(list) <= MMax(l) /\ Cardinality(Range(list)) = Len(list)
                                  /\ \A x \in Range(list) : x # n /\ l \in DOMAIN g.links[x]
  BY DEF WellLayered
<1> DEFINE g == hnsw[r]
<1>1. PICK lev : Layered(g, lev)
  BY DEF LayerInv
<1>2. g.vec \in Seq(Vector) /\ n \in 1 .. Len(g.vec)
  <2>1. g.vec \in Seq(Vector)
    BY DEF StoreInv, GraphHolds
  <2> QED
    BY <2>1 DEF NodesOf
<1> HIDE DEF g
<1>3. /\ DOMAIN lev = 1 .. Len(g.vec) /\ lev \in [DOMAIN lev -> Nat] /\ g.links \in GoodLinks(lev)
      /\ n \in DOMAIN lev /\ g.entry \in DOMAIN lev /\ lev[n] <= lev[g.entry]
  BY <1>1, <1>2 DEF Layered
<1>4. TopLayer(g, n) = lev[n] /\ TopLayer(g, g.entry) = lev[g.entry]
      /\ \A x \in DOMAIN lev : DOMAIN g.links[x] = 0 .. lev[x]
  BY <1>3, TopsAre
<1>5. ASSUME NEW l \in DOMAIN g.links[n]
      PROVE  /\ Len(g.links[n][l]) <= MMax(l)
             /\ Cardinality(Range(g.links[n][l])) = Len(g.links[n][l])
             /\ \A x \in Range(g.links[n][l]) : x # n /\ l \in DOMAIN g.links[x]
  <2> DEFINE list == g.links[n][l]
  <2>1. l \in 0 .. lev[n] /\ l \in Nat
    BY <1>3, <1>4
  <2>2. GoodList(lev, n, l, list)
    BY <1>3, <2>1 DEF GoodLinks
  <2> HIDE DEF list
  <2>3. list \in Seq(HasLayer(lev, l) \ {n}) /\ Len(list) <= MMax(l) /\ Distinct(list)
    BY <2>2 DEF GoodList
  <2>4. Cardinality(Range(list)) = Len(list)
    BY <2>3, DistinctCount
  <2>5. Range(list) \subseteq HasLayer(lev, l) \ {n}
    BY <2>3 DEF Range
  <2>6. ASSUME NEW x \in HasLayer(lev, l)
        PROVE  l \in DOMAIN g.links[x]
    <3>1. x \in DOMAIN lev /\ l <= lev[x] /\ lev[x] \in Nat
      BY <1>3 DEF HasLayer
    <3> QED
      BY <1>4, <2>1, <3>1
  <2> QED
    BY <2>3, <2>4, <2>5, <2>6 DEF list
<1> QED
  BY <1>3, <1>4, <1>5 DEF g

\* For any vectors, levels, ties and calls, phase 1 and 2 of insert_new with their pruning
\* leave every list within its bound, free of repetitions and of the node itself, and
\* leading only to nodes that have its layer; and no node is above the entry point.
THEOREM GraphStaysLayered == Spec => []WellLayered
<1>1. Init => StoreInv /\ LayerInv
  BY StoreInvInit, LayerInvInit
<1>2. StoreInv /\ LayerInv /\ [Next]_vars => (StoreInv /\ LayerInv)'
  BY StoreInvNext, LayerInvNext
<1> QED
  BY <1>1, <1>2, LayerInvHolds, PTL DEF Spec

-----------------------------------------------------------------------------
(* search_layer finds as many nodes as it has room for, if a walk along the *)
(* lists reaches them.                                                     *)

\* Every node visited was expanded, up to the candidates and the nodes C, unless the
\* results are enough already.
Explores(g, layer, ef, C, s) ==
    /\ s.candidates \subseteq s.visited /\ s.results \subseteq s.visited
    /\ \/ Cardinality(s.results) >= ef
       \/ /\ s.results = s.visited
          /\ \A n \in s.visited \ (s.candidates \cup C) : Range(LinksAt(g, n, layer)) \subseteq s.visited

LEMMA VisitExplores ==
    ASSUME NEW g, NEW q, NEW layer, NEW ef \in Nat, ef >= 1, NEW S, IsFiniteSet(S), NEW s \in Searching(S),
           NEW nbr \in S, NEW C, Explores(g, layer, ef, C, s)
    PROVE  LET t == VisitNeighbor(g, q, ef, s, nbr)
           IN  /\ t \in Searching(S) /\ Explores(g, layer, ef, C, t)
               /\ s.visited \subseteq t.visited /\ nbr \in t.visited
               /\ s.visited \ s.candidates \subseteq t.visited \ t.candidates
<1> DEFINE t == VisitNeighbor(g, q, ef, s, nbr)
           more == s.results \cup {nbr}
           z == Farthest(g, q, more)
<1>1. /\ s.visited \in SUBSET S /\ s.candidates \in SUBSET S /\ s.results \in SUBSET S
      /\ s = [visited |-> s.visited, candidates |-> s.candidates, results |-> s.results]
      /\ s.candidates \subseteq s.visited /\ s.results \subseteq s.visited
      /\ Cardinality(s.results) >= ef
         \/ /\ s.results = s.visited
            /\ \A n \in s.visited \ (s.candidates \cup C) : Range(LinksAt(g, n, layer)) \subseteq s.visited
  BY DEF Searching, Explores
<1>2. CASE nbr \in s.visited
  BY <1>2 DEF VisitNeighbor
<1>3. CASE nbr \notin s.visited
  <2>1. IsFiniteSet(s.results) /\ Cardinality(s.results) \in Nat /\ IsFiniteSet(more)
        /\ Cardinality(more) = Cardinality(s.results) + 1
    <3>1. IsFiniteSet(s.results) /\ nbr \notin s.results
      BY <1>1, <1>3, FS_Subset
    <3> QED
      BY <3>1, FS_AddElement, FS_CardinalityType
  <2>2. t.visited = s.visited \cup {nbr}
        /\ \/ /\ t.candidates = s.candidates \cup {nbr}
              /\ t.results = IF Cardinality(more) > ef THEN more \ {z} ELSE more
           \/ /\ t.candidates = s.candidates /\ t.results = s.results
              /\ Cardinality(s.results) >= ef
    <3>1. Cardinality(s.results) \in Nat
      BY <2>1
    <3> HIDE DEF more, z
    <3> QED
      BY <1>1, <1>3, <3>1 DEF VisitNeighbor, more, z
  <2> HIDE DEF t
  <2>3. s.visited \subseteq t.visited /\ nbr \in t.visited
        /\ s.visited \ s.candidates \subseteq t.visited \ t.candidates
        /\ t.candidates \subseteq t.visited /\ t.results \subseteq t.visited
    BY <1>1, <1>3, <2>2
  <2>4. CASE Cardinality(s.results) >= ef
    <3> HIDE DEF z, more
    <3>1. Cardinality(more \ {z}) \in Nat /\ Cardinality(more \ {z}) >= Cardinality(more) - 1
      <4>1. Cardinality(more \ {z}) = IF z \in more THEN Cardinality(more) - 1 ELSE Cardinality(more)
        BY <2>1, FS_RemoveElement
      <4> QED
        BY <2>1, <4>1
    <3>2. Cardinality(t.results) >= ef
      BY <2>1, <2>2, <2>4, <3>1
    <3> QED
      BY <1>1, <2>3, <3>2, VisitStays DEF Explores, t
  <2>5. CASE ~(Cardinality(s.results) >= ef)
    <3> HIDE DEF z
    <3>1. t.candidates = s.candidates \cup {nbr} /\ t.results = t.visited
      BY <1>1, <2>1, <2>2, <2>5
    <3>2. \A n \in t.visited \ (t.candidates \cup C) : Range(LinksAt(g, n, layer)) \subseteq t.visited
      BY <1>1, <2>2, <2>5, <3>1
    <3> QED
      BY <2>3, <3>1, <3>2, VisitStays DEF Explores, t
  <2> QED
    BY <2>4, <2>5
<1> QED
  BY <1>2, <1>3, VisitStays, <1>1 DEF Explores

\* A round of search_layer expands one more node, unless the loop is over.
LEMMA ExpandExplores ==
    ASSUME NEW g, g.vec \in Seq(Vector), NEW q \in Vector, NEW ef \in Nat, ef >= 1, NEW layer,
           NEW S \in SUBSET Nodes(g), Closed(g, layer, S), NEW state \in Searching(S),
           Explores(g, layer, ef, {}, state)
    PROVE  LET t == Expand(g, q, ef, layer, state)
           IN  /\ t \in Searching(S) /\ Explores(g, layer, ef, {}, t) /\ state.visited \subseteq t.visited
               /\ \/ t.candidates = {}
                  \/ /\ IsFiniteSet(t.visited \ t.candidates)
                     /\ Cardinality(state.visited \ state.candidates) \in Nat
                     /\ Cardinality(t.visited \ t.candidates) \in Nat
                     /\ Cardinality(t.visited \ t.candidates)
                          >= Cardinality(state.visited \ state.candidates) + 1
<1> DEFINE c == Nearest(g, q, state.candidates)
           list == LinksAt(g, c, layer)
           rest == [state EXCEPT !.candidates = @ \ {c}]
           old == state.visited \ state.candidates
           N == Len(list)
           Good(x, i) ==
               /\ Explores(g, layer, ef, {c}, x) /\ \A j \in 1 .. i : list[j] \in x.visited
               /\ old \cup {c} \subseteq x.visited \ x.candidates /\ state.visited \subseteq x.visited
           D == [i \in 0 .. N |-> {x \in Searching(S) : Good(x, i)}]
           a == rest
           Step(x, i) == VisitNeighbor(g, q, ef, x, list[i])
           F == [i \in 1 .. N |-> [x \in D[i - 1] |-> Step(x, i)]]
           s[i \in 0 .. N] == IF i = 0 THEN a ELSE Step(s[i - 1], i)
           t == Expand(g, q, ef, layer, state)
<1> SUFFICES /\ t \in Searching(S) /\ Explores(g, layer, ef, {}, t) /\ state.visited \subseteq t.visited
             /\ \/ t.candidates = {}
                \/ /\ IsFiniteSet(t.visited \ t.candidates)
                   /\ Cardinality(old) \in Nat
                   /\ Cardinality(t.visited \ t.candidates) \in Nat
                   /\ Cardinality(t.visited \ t.candidates) >= Cardinality(old) + 1
  OBVIOUS
<1>0. CASE state.candidates = {}
  <2>1. t = state
    BY <1>0 DEF Expand
  <2> HIDE DEF t
  <2> QED
    BY <1>0, <2>1
<1>a. IsFiniteSet(S)
  <2>1. IsFiniteSet(1 .. Len(g.vec))
    BY FS_Interval
  <2> QED
    BY <2>1, FS_Subset DEF Nodes
<1> SUFFICES ASSUME state.candidates # {}
             PROVE  /\ t \in Searching(S) /\ Explores(g, layer, ef, {}, t) /\ state.visited \subseteq t.visited
                    /\ \/ t.candidates = {}
                       \/ /\ IsFiniteSet(t.visited \ t.candidates)
                          /\ Cardinality(old) \in Nat
                          /\ Cardinality(t.visited \ t.candidates) \in Nat
                          /\ Cardinality(t.visited \ t.candidates) >= Cardinality(old) + 1
  BY <1>0
<1>b. /\ state.visited \in SUBSET S /\ state.candidates \in SUBSET S
      /\ state = [visited |-> state.visited, candidates |-> state.candidates, results |-> state.results]
      /\ state.candidates \subseteq state.visited /\ c \in state.candidates /\ c \in S
  <2>1. /\ state.visited \in SUBSET S /\ state.candidates \in SUBSET S
        /\ state = [visited |-> state.visited, candidates |-> state.candidates, results |-> state.results]
        /\ state.candidates \subseteq state.visited
    BY DEF Searching, Explores
  <2>2. state.candidates \in SUBSET Nodes(g)
    BY <2>1
  <2>3. c \in state.candidates
    BY <2>2, NearestIs
  <2> HIDE DEF c
  <2> QED
    BY <2>1, <2>3
<1>c. list \in Seq(S) /\ N \in Nat
  BY <1>b DEF Closed
<1>1. N \in Nat /\ rest \in Searching(S) /\ (\A i \in 1 .. N : list[i] \in S) /\ Good(rest, 0)
  <2> HIDE DEF c
  <2>1. /\ rest.visited = state.visited /\ rest.candidates = state.candidates \ {c}
        /\ rest.results = state.results
    BY <1>b
  <2>2. rest \in Searching(S)
    BY <1>b DEF Searching
  <2> HIDE DEF rest
  <2>3. Explores(g, layer, ef, {c}, rest)
    BY <2>1 DEF Explores
  <2>4. 1 .. 0 = {}
    OBVIOUS
  <2> HIDE DEF list
  <2> QED
    BY <1>b, <1>c, <2>1, <2>2, <2>3, <2>4
<1>2. \A i \in 0 .. N : i = 0 \/ (i \in 1 .. N /\ i - 1 \in 0 .. N)
  BY <1>1
<1>3. N \in Nat /\ a \in D[0]
  <2> HIDE DEF N, rest, Good
  <2> QED
    BY <1>1
<1> HIDE DEF c, list, rest
<1>4. \A i \in 1 .. N : \A x \in D[i - 1] : Step(x, i) \in D[i]
  <2> SUFFICES ASSUME NEW i \in 1 .. N, NEW x \in Searching(S), Good(x, i - 1)
               PROVE  Step(x, i) \in Searching(S) /\ Good(Step(x, i), i)
    <3> HIDE DEF N, Good, Step
    <3> QED
      BY <1>2
  <2> DEFINE y == Step(x, i)
  <2>1. list[i] \in S /\ \A j \in 1 .. i : j = i \/ j \in 1 .. i - 1
    BY <1>1
  <2>2. /\ y \in Searching(S) /\ Explores(g, layer, ef, {c}, y)
        /\ x.visited \subseteq y.visited /\ list[i] \in y.visited
        /\ x.visited \ x.candidates \subseteq y.visited \ y.candidates
    BY <1>a, <2>1, VisitExplores
  <2> HIDE DEF y, old
  <2> QED
    BY <2>1, <2>2 DEF y
<1>5. s = [i \in 0 .. N |-> IF i = 0 THEN a ELSE Step(s[i - 1], i)]
  <2> HIDE DEF D, N, a, Step
  <2>1. \A i \in 1 .. N : \A x \in D[i - 1] : F[i][x] = Step(x, i)
    OBVIOUS
  <2> HIDE DEF F
  <2>2. PICK e : Iterates(N, D, a, F, e)
    BY <1>3, <1>4, <2>1, IteratedExists
  <2>3. \A i \in 0 .. N : i # 0 => F[i][e[i - 1]] = Step(e[i - 1], i)
    BY <1>2, <2>1, <2>2 DEF Iterates
  <2>4. e = [i \in 0 .. N |-> IF i = 0 THEN a ELSE Step(e[i - 1], i)]
    BY <2>2, <2>3 DEF Iterates
  <2> QED
    BY <2>4
<1>6. t = IF Stops(g, q, ef, state, c) THEN [state EXCEPT !.candidates = {}] ELSE s[N]
  BY DEF Expand, Iterated, c, list, rest
<1>7. s[N] \in D[N]
  <2> HIDE DEF D, N, a, Step, s
  <2>1. s[0] = a /\ \A i \in 1 .. N : s[i] = Step(s[i - 1], i)
    <3>1. \A i \in 1 .. N : i \in 0 .. N /\ i # 0
      OBVIOUS
    <3> QED
      BY <1>3, <1>5, <3>1
  <2>2. \A i \in 1 .. N : s[i - 1] \in D[i - 1] => s[i] \in D[i]
    BY <1>4, <2>1
  <2> QED
    BY <1>3, <2>1, <2>2, IteratedStays
<1>8. s[N] \in Searching(S) /\ Good(s[N], N)
  <2> HIDE DEF Good, s, N
  <2> QED
    BY <1>3, <1>7
<1> HIDE DEF s, t, D, Step, F
<1>9. CASE Stops(g, q, ef, state, c)
  <2>1. t = [state EXCEPT !.candidates = {}]
    BY <1>6, <1>9
  <2>2. t.candidates = {} /\ t.visited = state.visited /\ t.results = state.results /\ t \in Searching(S)
    BY <2>1 DEF Searching
  <2>3. Cardinality(state.results) >= ef
    BY <1>9 DEF Stops
  <2> QED
    BY <2>2, <2>3 DEF Explores
<1>10. CASE ~Stops(g, q, ef, state, c)
  <2>1. t = s[N]
    BY <1>6, <1>10
  <2>2. t \in Searching(S) /\ Explores(g, layer, ef, {c}, t) /\ state.visited \subseteq t.visited
        /\ old \cup {c} \subseteq t.visited \ t.candidates /\ \A j \in 1 .. N : list[j] \in t.visited
    BY <1>8, <2>1
  <2>3. Range(list) \subseteq t.visited
    BY <1>c, <2>2 DEF Range
  <2>4. Explores(g, layer, ef, {}, t)
    BY <2>2, <2>3 DEF Explores, list
  <2>5. t.visited \in SUBSET S
    BY <2>2 DEF Searching
  <2> DEFINE now == t.visited \ t.candidates
  <2>6. c \notin old /\ old \in SUBSET S /\ old \cup {c} \in SUBSET now /\ now \in SUBSET S
    BY <1>b, <2>2, <2>5
  <2> HIDE DEF now, old
  <2>7. IsFiniteSet(now) /\ IsFiniteSet(old) /\ Cardinality(now) \in Nat /\ Cardinality(old) \in Nat
    BY <1>a, <2>6, FS_Subset, FS_CardinalityType
  <2>8. Cardinality(old \cup {c}) = Cardinality(old) + 1
    BY <2>6, <2>7, FS_AddElement
  <2>9. Cardinality(old \cup {c}) <= Cardinality(now)
    BY <2>6, <2>7, FS_Subset
  <2>10. Cardinality(now) >= Cardinality(old) + 1
    BY <2>7, <2>8, <2>9
  <2> QED
    BY <2>2, <2>4, <2>7, <2>10 DEF now
<1> QED
  BY <1>9, <1>10

\* Every node of S can be reached from every other along the lists of the layer.
Joined(g, layer, S) ==
    \A X \in SUBSET S : X # {} /\ (\A n \in X : Range(LinksAt(g, n, layer)) \subseteq X) => X = S

LEMMA SearchLayerFills ==
    ASSUME NEW g, g.vec \in Seq(Vector), NEW q \in Vector, NEW ef \in Nat, ef >= 1, NEW layer,
           NEW S \in SUBSET Nodes(g), Closed(g, layer, S), NEW start \in S, Joined(g, layer, S)
    PROVE  \/ Cardinality(SearchLayer(g, q, start, ef, layer)) >= ef
           \/ SearchLayer(g, q, start, ef, layer) = S
<1> DEFINE begin == [visited |-> {start}, candidates |-> {start}, results |-> {start}]
           N == Len(g.vec)
           Good(x, i) ==
               /\ Explores(g, layer, ef, {}, x) /\ start \in x.visited
               /\ x.candidates = {} \/ Cardinality(x.visited \ x.candidates) >= i
           D == [i \in 0 .. N |-> {x \in Searching(S) : Good(x, i)}]
           a == begin
           Step(x, i) == Expand(g, q, ef, layer, x)
           F == [i \in 1 .. N |-> [x \in D[i - 1] |-> Step(x, i)]]
           s[i \in 0 .. N] == IF i = 0 THEN a ELSE Step(s[i - 1], i)
<1>1. N \in Nat /\ IsFiniteSet(1 .. N) /\ Cardinality(1 .. N) = N
  <2>1. N \in Nat
    OBVIOUS
  <2> HIDE DEF N
  <2> QED
    BY <2>1, FS_Interval
<1>2. \A i \in 0 .. N : i = 0 \/ (i \in 1 .. N /\ i - 1 \in 0 .. N)
  BY <1>1
<1>3. N \in Nat /\ a \in D[0]
  <2>1. {start} \in SUBSET S /\ {start} # {} /\ {start} \ {start} = {} /\ {start} \ ({start} \cup {}) = {}
    OBVIOUS
  <2>2. begin \in Searching(S)
    BY <2>1 DEF Searching
  <2>3. Cardinality(begin.visited \ begin.candidates) >= 0
    <3>1. begin.visited \ begin.candidates = {}
      BY <2>1
    <3>2. Cardinality({}) = 0
      BY FS_EmptySet
    <3> DEFINE none == begin.visited \ begin.candidates
    <3> HIDE DEF begin, none
    <3>3. Cardinality(none) = 0
      BY <3>1, <3>2, Zenon DEF none
    <3> QED
      BY <3>3 DEF none
  <2>4. Explores(g, layer, ef, {}, begin)
    BY <2>1 DEF Explores
  <2>5. start \in begin.visited
    OBVIOUS
  <2> HIDE DEF begin, N
  <2> QED
    BY <1>1, <2>2, <2>3, <2>4, <2>5
<1>4. \A i \in 1 .. N : \A x \in D[i - 1] : Step(x, i) \in D[i]
  <2> SUFFICES ASSUME NEW i \in 1 .. N, NEW x \in Searching(S), Good(x, i - 1)
               PROVE  Step(x, i) \in Searching(S) /\ Good(Step(x, i), i)
    <3> HIDE DEF N, Good, Step
    <3> QED
      BY <1>2
  <2> DEFINE y == Step(x, i)
  <2>1. /\ y \in Searching(S) /\ Explores(g, layer, ef, {}, y) /\ x.visited \subseteq y.visited
        /\ \/ y.candidates = {}
           \/ /\ Cardinality(x.visited \ x.candidates) \in Nat
              /\ Cardinality(y.visited \ y.candidates) \in Nat
              /\ Cardinality(y.visited \ y.candidates) >= Cardinality(x.visited \ x.candidates) + 1
    BY ExpandExplores
  <2>2. CASE x.candidates = {}
    <3>1. y = x
      BY <2>2 DEF Expand
    <3>2. start \in x.visited
      OBVIOUS
    <3> HIDE DEF Step, y
    <3>3. Good(y, i)
      BY <2>1, <2>2, <3>1, <3>2
    <3> QED
      BY <2>1, <3>3 DEF y
  <2>3. CASE x.candidates # {}
    <3>1. Cardinality(x.visited \ x.candidates) >= i - 1 /\ i \in Nat
      BY <1>1, <2>3
    <3> HIDE DEF y, N
    <3> QED
      BY <2>1, <3>1 DEF y
  <2> QED
    BY <2>2, <2>3
<1>5. s = [i \in 0 .. N |-> IF i = 0 THEN a ELSE Step(s[i - 1], i)]
  <2> HIDE DEF D, N, a, Step
  <2>1. \A i \in 1 .. N : \A x \in D[i - 1] : F[i][x] = Step(x, i)
    OBVIOUS
  <2> HIDE DEF F
  <2>2. PICK e : Iterates(N, D, a, F, e)
    BY <1>3, <1>4, <2>1, IteratedExists
  <2>3. \A i \in 0 .. N : i # 0 => F[i][e[i - 1]] = Step(e[i - 1], i)
    BY <1>2, <2>1, <2>2 DEF Iterates
  <2>4. e = [i \in 0 .. N |-> IF i = 0 THEN a ELSE Step(e[i - 1], i)]
    BY <2>2, <2>3 DEF Iterates
  <2> QED
    BY <2>4
<1>6. SearchLayer(g, q, start, ef, layer) = s[N].results
  BY DEF SearchLayer, Iterated
<1>7. s[N] \in D[N]
  <2> HIDE DEF D, N, a, Step, s
  <2>1. s[0] = a /\ \A i \in 1 .. N : s[i] = Step(s[i - 1], i)
    <3>1. \A i \in 1 .. N : i \in 0 .. N /\ i # 0
      OBVIOUS
    <3> QED
      BY <1>3, <1>5, <3>1
  <2>2. \A i \in 1 .. N : s[i - 1] \in D[i - 1] => s[i] \in D[i]
    BY <1>4, <2>1
  <2> QED
    BY <1>3, <2>1, <2>2, IteratedStays
<1>8. s[N] \in Searching(S) /\ Good(s[N], N)
  <2> HIDE DEF Good, s, N
  <2> QED
    BY <1>3, <1>7
<1> DEFINE t == s[N]
<1> HIDE DEF s, D, Step, F
<1>9. /\ t.visited \in SUBSET S /\ t.candidates \subseteq t.visited /\ start \in t.visited
      /\ t.candidates = {} \/ Cardinality(t.visited \ t.candidates) >= N
  BY <1>8 DEF Searching, Explores
<1>10. t.candidates = {}
  <2> SUFFICES ASSUME Cardinality(t.visited \ t.candidates) >= N
               PROVE  t.candidates = {}
    BY <1>9
  <2> DEFINE now == t.visited \ t.candidates
  <2>1. now \in SUBSET (1 .. N)
    BY <1>9 DEF Nodes
  <2> HIDE DEF now
  <2>2. Cardinality(now) <= N /\ Cardinality(now) \in Nat
    <3>1. IsFiniteSet(1 .. N) /\ Cardinality(1 .. N) = N
      BY <1>1
    <3> HIDE DEF N
    <3>2. IsFiniteSet(now) /\ Cardinality(now) <= Cardinality(1 .. N)
      BY <2>1, <3>1, FS_Subset
    <3> QED
      BY <3>1, <3>2, FS_CardinalityType
  <2>3. Cardinality(now) >= N
    BY DEF now
  <2>4. Cardinality(now) = Cardinality(1 .. N)
    BY <1>1, <2>2, <2>3
  <2>5. now = 1 .. N
    BY <1>1, <2>1, <2>4, FS_Subset
  <2> QED
    BY <1>9, <2>5 DEF now, Nodes
<1> HIDE DEF t
<1>11. CASE Cardinality(t.results) >= ef
  BY <1>6, <1>11 DEF t
<1>12. CASE ~(Cardinality(t.results) >= ef)
  <2>1. t.results = t.visited /\ \A n \in t.visited : Range(LinksAt(g, n, layer)) \subseteq t.visited
    BY <1>8, <1>10, <1>12 DEF Explores, t
  <2>2. t.visited = S
    BY <1>9, <2>1 DEF Joined
  <2> QED
    BY <1>6, <2>1, <2>2 DEF t
<1> QED
  BY <1>11, <1>12

-----------------------------------------------------------------------------
(* A walk along the lists of layer 0 reaches every node, while no edge is lost. *)

\* Every node but the first has an earlier one to which it is linked both ways.
Threaded(g) ==
    \A n \in 2 .. Len(g.vec) : \E m \in 1 .. n - 1 :
        m \in Range(g.links[n][0]) /\ n \in Range(g.links[m][0])

\* Every node has a list on layer 0, of nodes.
LEMMA BottomIs ==
    ASSUME NEW g, g.vec \in Seq(Vector), NEW lev, Layered(g, lev), NEW n \in Nodes(g)
    PROVE  /\ 0 \in DOMAIN g.links[n] /\ LinksAt(g, n, 0) = g.links[n][0]
           /\ g.links[n][0] \in Seq(Nodes(g) \ {n})
<1>1. /\ DOMAIN lev = Nodes(g) /\ lev \in [DOMAIN lev -> Nat] /\ g.links \in GoodLinks(lev)
      /\ n \in DOMAIN lev
  BY DEF Layered, Nodes
<1>2. DOMAIN g.links[n] = 0 .. lev[n] /\ lev[n] \in Nat
  BY <1>1, TopsAre
<1>3. 0 \in 0 .. lev[n]
  BY <1>2
<1>4. GoodList(lev, n, 0, g.links[n][0])
  BY <1>1, <1>3 DEF GoodLinks
<1>5. HasLayer(lev, 0) \subseteq Nodes(g)
  BY <1>1 DEF HasLayer
<1>6. g.links[n][0] \in Seq(HasLayer(lev, 0) \ {n})
  BY <1>4 DEF GoodList
<1>7. HasLayer(lev, 0) \ {n} \subseteq Nodes(g) \ {n}
  BY <1>5
<1>8. g.links[n][0] \in Seq(Nodes(g) \ {n})
  BY <1>6, <1>7
<1> QED
  BY <1>2, <1>3, <1>8 DEF LinksAt

\* An insertion that loses no edge and links its node back.
LEMMA InsertThreads ==
    ASSUME NEW g, g.vec \in Seq(Vector), NEW lev, Layered(g, lev), Threaded(g),
           NEW h, h.vec \in Seq(Vector), NEW up, Layered(h, up), Len(h.vec) = Len(g.vec) + 1,
           g.entry # 0 => Len(h.links[Len(h.vec)][0]) > 0, ~LosesEdge(g, h)
    PROVE  Threaded(h)
<1> DEFINE N == Len(g.vec)
           T == Len(h.vec)
<1>1. N \in Nat /\ T = N + 1 /\ T \in Nodes(h) /\ Nodes(h) = 1 .. T /\ Nodes(g) = 1 .. N
  BY DEF Nodes
<1> SUFFICES ASSUME NEW n \in 2 .. T
             PROVE  \E m \in 1 .. n - 1 : m \in Range(h.links[n][0]) /\ n \in Range(h.links[m][0])
  BY DEF Threaded
<1>2. DOMAIN g.vec = Nodes(g)
  BY DEF Nodes
<1>3. ASSUME NEW x \in Nodes(g)
      PROVE  Range(g.links[x][0]) \subseteq Range(h.links[x][0])
  <2>1. 0 \in DOMAIN g.links[x]
    BY BottomIs
  <2> QED
    BY <1>2, <2>1 DEF LosesEdge, NodesOf
<1>4. CASE n \in 2 .. N
  <2>1. PICK m \in 1 .. n - 1 : m \in Range(g.links[n][0]) /\ n \in Range(g.links[m][0])
    BY <1>4 DEF Threaded
  <2>2. m \in Nodes(g) /\ n \in Nodes(g)
    BY <1>1, <1>4
  <2> QED
    BY <1>3, <2>1, <2>2
<1>5. CASE n = T
  <2>1. N >= 1
    BY <1>1, <1>5
  <2>2. g.entry # 0
    BY <1>1, <2>1 DEF Layered
  <2> DEFINE list == h.links[T][0]
  <2>3. Len(list) > 0 /\ list \in Seq(Nodes(h) \ {T}) /\ 0 \in DOMAIN h.links[T]
    BY <1>1, <2>2, BottomIs
  <2>4. list[1] \in Nodes(h) \ {T} /\ list[1] \in Range(list)
    <3> HIDE DEF list
    <3>1. 1 \in 1 .. Len(list) /\ 1 \in DOMAIN list
      BY <2>3
    <3> QED
      BY <2>3, <3>1 DEF Range
  <2>5. T \in Range(LinksAt(h, list[1], 0))
    BY <1>1, <2>3, <2>4 DEF LosesEdge
  <2>6. LinksAt(h, list[1], 0) = h.links[list[1]][0]
    BY <2>4, BottomIs
  <2>7. list[1] \in 1 .. T - 1
    BY <1>1, <2>4
  <2> QED
    BY <1>5, <2>4, <2>5, <2>6, <2>7
<1> QED
  BY <1>1, <1>4, <1>5

\* From any node the walk goes down to the first and up again to all.
LEMMA ThreadedJoins ==
    ASSUME NEW g, g.vec \in Seq(Vector), NEW lev, Layered(g, lev), Threaded(g)
    PROVE  Joined(g, 0, Nodes(g))
<1> SUFFICES ASSUME NEW X \in SUBSET Nodes(g), X # {},
                    \A n \in X : Range(LinksAt(g, n, 0)) \subseteq X
             PROVE  X = Nodes(g)
  BY DEF Joined
<1>1. /\ Len(g.vec) \in Nat /\ Nodes(g) = 1 .. Len(g.vec)
      /\ \A n \in Nodes(g) : LinksAt(g, n, 0) = g.links[n][0]
  <2>1. \A n \in Nodes(g) : LinksAt(g, n, 0) = g.links[n][0]
    BY BottomIs
  <2> QED
    BY <2>1 DEF Nodes
<1>2. 1 \in X
  <2>1. PICK x \in X : \A y \in X : x <= y
    <3>1. X \in SUBSET Nat
      BY <1>1
    <3> QED
      BY <3>1, LeastNat
  <2>2. CASE x = 1
    BY <2>2
  <2>3. CASE x # 1
    <3>1. x \in Nodes(g) /\ x \in 2 .. Len(g.vec)
      BY <1>1, <2>3
    <3>2. PICK m \in 1 .. x - 1 : m \in Range(g.links[x][0])
      BY <3>1 DEF Threaded
    <3>3. m \in X
      BY <1>1, <3>1, <3>2
    <3> QED
      BY <1>1, <2>1, <3>1, <3>2, <3>3
  <2> QED
    BY <2>2, <2>3
<1>3. ASSUME Nodes(g) \ X # {}
      PROVE  FALSE
  <2>1. PICK n \in Nodes(g) \ X : \A y \in Nodes(g) \ X : n <= y
    <3>1. Nodes(g) \ X \in SUBSET Nat
      BY <1>1
    <3> QED
      BY <1>3, <3>1, LeastNat
  <2>2. n \in 2 .. Len(g.vec)
    BY <1>1, <1>2
  <2>3. PICK m \in 1 .. n - 1 : n \in Range(g.links[m][0])
    BY <2>2 DEF Threaded
  <2>4. m \in Nodes(g) /\ ~(n <= m)
    BY <1>1, <2>2
  <2>5. m \in X
    BY <2>1, <2>4
  <2> QED
    BY <1>1, <2>3, <2>4, <2>5
<1> QED
  BY <1>3

\* A graph that has lost no edge is threaded.
ThreadInv == \A r \in Replicas \ pruned : Threaded(hnsw[r])

LEMMA ThreadInvInit == Init => ThreadInv
<1> SUFFICES ASSUME Init, NEW r \in Replicas
             PROVE  Threaded(hnsw[r])
  BY DEF ThreadInv
<1>1. Len(hnsw[r].vec) = 0 /\ 2 .. 0 = {}
  BY DEF Init, EmptyGraph
<1> QED
  BY <1>1 DEF Threaded

LEMMA ThreadInvKept ==
    ASSUME ThreadInv, UNCHANGED <<setup, hnsw, pruned>>
    PROVE  ThreadInv'
<1>1. Replicas' = Replicas
  BY DEF Replicas, Shards
<1> QED
  BY <1>1 DEF ThreadInv, Threaded

\* A call on one replica: the graph of the others stays.
LEMMA ThreadInvCall ==
    ASSUME StoreInv, ThreadInv, UNCHANGED setup, NEW r \in Replicas, NEW g,
           hnsw' = [hnsw EXCEPT ![r] = g], pruned \subseteq pruned',
           r \notin pruned' => Threaded(g)
    PROVE  ThreadInv'
<1>1. Replicas' = Replicas
  BY DEF Replicas, Shards
<1>2. hnsw' = [x \in Replicas |-> IF x = r THEN g ELSE hnsw[x]]
  <2>1. hnsw = [x \in Replicas |-> hnsw[x]]
    BY DEF StoreInv
  <2> QED
    BY <2>1
<1>3. ASSUME NEW x \in Replicas \ pruned'
      PROVE  Threaded(hnsw'[x])
  <2>1. CASE x = r
    BY <1>2, <2>1
  <2>2. CASE x # r
    BY <1>2, <2>2 DEF ThreadInv
  <2> QED
    BY <2>1, <2>2
<1> QED
  BY <1>1, <1>3 DEF ThreadInv, Threaded

LEMMA InsertKeepsThread ==
    ASSUME StoreInv, LayerInv, ThreadInv, NEW r \in Replicas, NEW id \in setup.ids[r[1]],
           NEW v \in setup.vectors, NEW level, NEW rank, Insert(r, id, v, level, rank),
           NodeOf(hnsw[r], id) = 0 => level \in Nat /\ rank \in [0 .. level -> Ranks]
    PROVE  ThreadInv'
<1> DEFINE g == hnsw[r]
           h == HnswInsert(g, id, v, level, rank)
<1>1. v \in Vector /\ setup \in Setups /\ setup.ops \in Nat
  BY SetupsAssumption DEF StoreInv, Setup, Vector
<1>2. /\ hnsw' = [hnsw EXCEPT ![r] = h] /\ setup' = setup /\ count.ops < setup.ops
      /\ pruned' = pruned \cup {x \in {r} : LosesEdge(g, hnsw'[r])}
  BY DEF Insert
<1>3. hnsw'[r] = h
  <2>1. hnsw = [x \in Replicas |-> hnsw[x]]
    BY DEF StoreInv
  <2> HIDE DEF h
  <2> QED
    BY <1>2, <2>1
<1>4. IsGraph(g) /\ g.vec \in Seq(Vector) /\ Len(g.vec) \in Nat
  BY DEF StoreInv, GraphHolds, IsGraph
<1>5. count.ops \in Nat /\ Len(g.vec) <= count.ops
  BY DEF LayerInv
<1>6. PICK lev : Layered(g, lev)
  BY DEF LayerInv
<1>7. r \notin pruned => Threaded(g)
  BY DEF ThreadInv
<1>8. h.vec \in Seq(Vector)
  <2>1. GraphHolds(g, stored[r]) /\ IsHistory(stored[r]) /\ id \in DOMAIN stored[r]
    BY DEF StoreInv
  <2>2. GraphHolds(h, [stored[r] EXCEPT ![id] = v])
    BY <1>1, <2>1, HnswInsertHolds
  <2> QED
    BY <2>2 DEF GraphHolds
<1> HIDE DEF g
<1>9. ASSUME r \notin pruned'
      PROVE  Threaded(h)
  <2>1. CASE NodeOf(g, id) # 0
    <3>1. h = Replace(g, NodeOf(g, id), v)
      BY <2>1 DEF HnswInsert
    <3>2. Len(h.vec) = Len(g.vec)
      BY <1>4, <1>6, <3>1, ReplaceStays
    <3>3. h.links = g.links
      <4>1. g = [vec |-> g.vec, id |-> g.id, links |-> g.links, del |-> g.del, live |-> g.live,
                 entry |-> g.entry]
        BY <1>4 DEF IsGraph
      <4> QED
        BY <3>1, <4>1 DEF Replace
    <3> HIDE DEF h
    <3> QED
      BY <1>2, <1>7, <1>9, <3>2, <3>3 DEF Threaded
  <2>2. CASE NodeOf(g, id) = 0
    <3>1. h = InsertNew(g, id, v, level, rank)
      BY <2>2 DEF HnswInsert
    <3>2. level \in Nat /\ rank \in [0 .. level -> Ranks]
      BY <2>2 DEF g
    <3>3. ASSUME NEW l \in 0 .. level
          PROVE  Tells(rank[l], 1 .. Len(g.vec))
      <4>1. rank[l] \in Ranks
        BY <3>2
      <4>2. \A n \in 1 .. Len(g.vec) : n \in 1 .. setup.ops
        BY <1>1, <1>2, <1>4, <1>5
      <4> QED
        BY <1>1, <4>1, <4>2, RanksAssumption DEF Tells
    <3>4. /\ Len(h.vec) = Len(g.vec) + 1 /\ \E up : Layered(h, up)
          /\ g.entry # 0 => Len(h.links[Len(h.vec)][0]) > 0
      BY <1>1, <1>4, <1>6, <3>1, <3>2, <3>3, InsertNewStays
    <3> HIDE DEF h
    <3>5. Threaded(g) /\ ~LosesEdge(g, h)
      BY <1>2, <1>3, <1>7, <1>9
    <3> QED
      BY <1>4, <1>6, <1>8, <3>4, <3>5, InsertThreads
  <2> QED
    BY <2>1, <2>2
<1> HIDE DEF h
<1> QED
  BY <1>2, <1>9, ThreadInvCall

LEMMA DeleteKeepsThread ==
    ASSUME StoreInv, LayerInv, ThreadInv, NEW r \in Replicas, NEW id \in setup.ids[r[1]], Delete(r, id)
    PROVE  ThreadInv'
<1> DEFINE g == hnsw[r]
           h == HnswDelete(g, id)
<1>1. hnsw' = [hnsw EXCEPT ![r] = h] /\ setup' = setup /\ pruned' = pruned
  BY DEF Delete
<1>2. IsGraph(g) /\ (r \notin pruned => Threaded(g))
  BY DEF StoreInv, GraphHolds, IsGraph, ThreadInv
<1> HIDE DEF g
<1>3. h.vec = g.vec /\ h.links = g.links
  BY <1>2 DEF IsGraph, HnswDelete
<1> HIDE DEF h
<1>4. r \notin pruned' => Threaded(h)
  BY <1>1, <1>2, <1>3 DEF Threaded
<1> QED
  BY <1>1, <1>4, ThreadInvCall

LEMMA ThreadInvNext == StoreInv /\ LayerInv /\ ThreadInv /\ [Next]_vars => ThreadInv'
<1> SUFFICES ASSUME StoreInv, LayerInv, ThreadInv, [Next]_vars
             PROVE  ThreadInv'
  OBVIOUS
<1>1. ASSUME NEW r \in Replicas, NEW id \in setup.ids[r[1]], Upsert(r, id)
      PROVE  ThreadInv'
  <2>1. PICK v \in setup.vectors :
          \/ /\ NodeOf(hnsw[r], id) = 0
             /\ \E level \in 0 .. setup.level : \E rank \in [0 .. level -> Ranks] :
                   Insert(r, id, v, level, rank)
          \/ NodeOf(hnsw[r], id) # 0 /\ Insert(r, id, v, 0, <<>>)
    BY <1>1 DEF Upsert
  <2>2. CASE NodeOf(hnsw[r], id) = 0
    <3>1. PICK level \in 0 .. setup.level : \E rank \in [0 .. level -> Ranks] :
             Insert(r, id, v, level, rank)
      BY <2>1, <2>2
    <3>2. PICK rank \in [0 .. level -> Ranks] : Insert(r, id, v, level, rank)
      BY <3>1
    <3>3. level \in Nat
      BY SetupsAssumption DEF StoreInv, Setup
    <3> QED
      BY <3>2, <3>3, InsertKeepsThread
  <2>3. CASE NodeOf(hnsw[r], id) # 0
    BY <2>1, <2>3, InsertKeepsThread
  <2> QED
    BY <2>2, <2>3
<1>2. ASSUME NEW r \in Replicas, NEW id \in setup.ids[r[1]], Delete(r, id)
      PROVE  ThreadInv'
  BY <1>2, DeleteKeepsThread
<1>3. ASSUME NEW q, NEW k, NEW meta, BeginSearch(q, k, meta)
      PROVE  ThreadInv'
  BY <1>3, ThreadInvKept DEF BeginSearch, store
<1>4. ASSUME NEW rank, SearchReplica(rank)
      PROVE  ThreadInv'
  BY <1>4, ThreadInvKept DEF SearchReplica, store
<1>5. CASE SearchFails \/ FinishSearch \/ UNCHANGED vars
  BY <1>5, ThreadInvKept DEF SearchFails, FinishSearch, store, vars
<1> QED
  BY <1>1, <1>2, <1>3, <1>4, <1>5 DEF Next

-----------------------------------------------------------------------------
(* What a search of one index returns.                                     *)

MaxPair(a, b) == IF b > a THEN b ELSE a

LEMMA BreadthIs ==
    ASSUME NEW ef \in Nat, NEW k \in Nat
    PROVE  Breadth(ef, k) = MaxPair(ef, k)
<1> DEFINE m == MaxPair(ef, k)
<1>1. m \in {ef, k} /\ \A y \in {ef, k} : m >= y
  BY DEF MaxPair
<1>2. \A x \in {ef, k} : (\A y \in {ef, k} : x >= y) => x = m
  BY DEF MaxPair
<1> HIDE DEF m
<1>3. Max({ef, k}) = m
  BY <1>1, <1>2 DEF Max
<1> QED
  BY <1>3 DEF m, Breadth

\* The lists of a layer lead to nodes of the layer.
LEMMA LayerClosed ==
    ASSUME NEW g, NEW lev, lev \in [DOMAIN lev -> Nat], g.links \in GoodLinks(lev), NEW l \in Nat
    PROVE  Closed(g, l, HasLayer(lev, l))
<1> SUFFICES ASSUME NEW n \in HasLayer(lev, l)
             PROVE  LinksAt(g, n, l) \in Seq(HasLayer(lev, l))
  BY DEF Closed
<1>1. n \in DOMAIN lev /\ l \in 0 .. lev[n]
  BY DEF HasLayer
<1>2. DOMAIN g.links[n] = 0 .. lev[n]
  BY <1>1, TopsAre
<1> DEFINE list == g.links[n][l]
<1>3. LinksAt(g, n, l) = list
  BY <1>1, <1>2 DEF LinksAt
<1>4. GoodList(lev, n, l, list)
  BY <1>1 DEF GoodLinks
<1> HIDE DEF list
<1>5. list \in Seq(HasLayer(lev, l) \ {n})
  BY <1>4 DEF GoodList
<1>6. list \in Seq(HasLayer(lev, l))
  BY <1>5
<1> QED
  BY <1>3, <1>6

\* A search starts from the entry point, and finds nodes.
LEMMA FoundFromEntry ==
    ASSUME NEW g, g.vec \in Seq(Vector), NEW lev, Layered(g, lev), Len(g.vec) # 0,
           NEW q \in Vector, NEW ef \in Nat, ef >= 1
    PROVE  LET found == SearchLayer(g, q, Descend(g, q, g.entry, TopLayer(g, g.entry), 0), ef, 0)
           IN  /\ found \in (SUBSET Nodes(g)) \ {{}}
               /\ Threaded(g) => Cardinality(found) >= ef \/ found = Nodes(g)
<1>1. /\ DOMAIN lev = Nodes(g) /\ lev \in [DOMAIN lev -> Nat] /\ g.links \in GoodLinks(lev)
      /\ g.entry \in DOMAIN lev
  BY DEF Layered, Nodes
<1> DEFINE top == TopLayer(g, g.entry)
           at == Descend(g, q, g.entry, top, 0)
<1>2. top = lev[g.entry] /\ top \in Nat
  BY <1>1, TopsAre
<1>3. HasLayer(lev, 0) = Nodes(g)
  BY <1>1 DEF HasLayer
<1>4. at \in Nodes(g)
  <2> DEFINE S == [l \in 0 .. top |-> HasLayer(lev, l)]
  <2>1. ASSUME NEW l \in 0 + 1 .. top
        PROVE  Closed(g, l, S[l]) /\ S[l] \subseteq S[l - 1]
    <3>1. l \in 0 .. top /\ l - 1 \in 0 .. top /\ l \in Nat
      BY <1>2
    <3>2. Closed(g, l, HasLayer(lev, l))
      BY <1>1, <3>1, LayerClosed
    <3>3. HasLayer(lev, l) \subseteq HasLayer(lev, l - 1)
      BY <1>1, <3>1 DEF HasLayer
    <3> QED
      BY <3>1, <3>2, <3>3
  <2>2. g.entry \in S[top] /\ S[0] = Nodes(g)
    BY <1>1, <1>2, <1>3 DEF HasLayer
  <2>3. 0 \in Nat /\ ~(top < 0)
    BY <1>2
  <2> HIDE DEF S, top
  <2>4. Descend(g, q, g.entry, top, 0) \in S[IF top < 0 THEN top ELSE 0]
    BY <1>2, <2>1, <2>2, <2>3, DescendStays
  <2> QED
    BY <2>2, <2>3, <2>4
<1> HIDE DEF at
<1>5. Closed(g, 0, Nodes(g))
  BY <1>1, <1>3, LayerClosed
<1>6. SearchLayer(g, q, at, ef, 0) \in (SUBSET Nodes(g)) \ {{}}
  BY <1>4, <1>5, SearchLayerStays
<1>7. ASSUME Threaded(g)
      PROVE  \/ Cardinality(SearchLayer(g, q, at, ef, 0)) >= ef
             \/ SearchLayer(g, q, at, ef, 0) = Nodes(g)
  <2>1. Joined(g, 0, Nodes(g))
    BY <1>7, ThreadedJoins
  <2> QED
    BY <1>4, <1>5, <2>1, SearchLayerFills
<1> QED
  BY <1>6, <1>7 DEF at

\* A graph without a live node has only tombstones.
LEMMA LiveIs ==
    ASSUME NEW g, NEW st, GraphHolds(g, st), IsHistory(st)
    PROVE  /\ g.live = 0 => g.del = Nodes(g)
           /\ g.live # 0 => Len(g.vec) # 0
<1>1. /\ g.id \in Seq(DOMAIN st) /\ Len(g.id) = Len(g.vec) /\ g.vec \in Seq(Vector)
      /\ g.del \subseteq 1 .. Len(g.id) /\ g.live = Cardinality(Kept(st))
      /\ \A n \in 1 .. Len(g.id) : st[g.id[n]] = IF n \in g.del THEN Absent ELSE g.vec[n]
      /\ \A i \in DOMAIN st : i \notin Range(g.id) => st[i] = Absent
  BY DEF GraphHolds
<1>2. g.live = 0 <=> Kept(st) = {}
  BY <1>1, FS_EmptySet DEF IsHistory
<1>3. ASSUME Kept(st) = {}
      PROVE  g.del = Nodes(g)
  <2>1. ASSUME NEW n \in Nodes(g), n \notin g.del
        PROVE  FALSE
    <3>1. n \in 1 .. Len(g.id) /\ n \in 1 .. Len(g.vec)
      BY <1>1 DEF Nodes
    <3>2. g.id[n] \in DOMAIN st /\ st[g.id[n]] = g.vec[n] /\ g.vec[n] \in Vector
      BY <1>1, <2>1, <3>1
    <3> QED
      BY <1>3, <3>2, VectorIsPresent DEF Kept
  <2> QED
    BY <1>1, <2>1 DEF Nodes
<1>4. ASSUME Len(g.vec) = 0
      PROVE  Kept(st) = {}
  <2>1. DOMAIN g.id = {}
    BY <1>1, <1>4
  <2>2. Range(g.id) = {}
    BY <2>1 DEF Range
  <2> QED
    BY <1>1, <2>2 DEF Kept
<1> QED
  BY <1>2, <1>3, <1>4

\* The answer, from the live nodes F among those found.
Answer(g, q, k, F, rank) ==
    LET alive == SortFound(g, q, F, rank)
    IN  [i \in 1 .. Min({k, Len(alive)}) |->
            [id |-> g.id[alive[i]], score |-> Dist(g.vec[alive[i]], q)]]

LEMMA SearchFinds ==
    ASSUME NEW g, NEW st, GraphHolds(g, st), IsHistory(st), NEW lev, Layered(g, lev),
           NEW q \in Vector, NEW k \in Nat, NEW ef \in Nat, NEW rank
    PROVE  /\ k = 0 \/ g.live = 0 => HnswSearch(g, q, k, ef, rank) = <<>>
           /\ ~(k = 0 \/ g.live = 0) =>
                 \E F \in SUBSET (Nodes(g) \ g.del) :
                    /\ HnswSearch(g, q, k, ef, rank) = Answer(g, q, k, F, rank)
                    /\ Threaded(g) => \/ Cardinality(F) + Cardinality(g.del) >= MaxPair(ef, k)
                                      \/ F = Nodes(g) \ g.del
<1> DEFINE found == SearchLayer(g, q, Descend(g, q, g.entry, TopLayer(g, g.entry), 0),
                                Breadth(ef, k), 0)
           F == found \ g.del
<1>1. HnswSearch(g, q, k, ef, rank)
        = IF k = 0 \/ g.live = 0 THEN <<>> ELSE Answer(g, q, k, F, rank)
  BY DEF HnswSearch, Answer
<1> HIDE DEF found
<1>2. ASSUME ~(k = 0 \/ g.live = 0)
      PROVE  /\ F \in SUBSET (Nodes(g) \ g.del)
             /\ Threaded(g) => \/ Cardinality(F) + Cardinality(g.del) >= MaxPair(ef, k)
                               \/ F = Nodes(g) \ g.del
  <2>1. Breadth(ef, k) = MaxPair(ef, k) /\ MaxPair(ef, k) \in Nat /\ MaxPair(ef, k) >= 1
    BY <1>2, BreadthIs DEF MaxPair
  <2>2. Len(g.vec) # 0 /\ g.vec \in Seq(Vector)
    BY <1>2, LiveIs DEF GraphHolds
  <2>3. /\ found \in SUBSET Nodes(g)
        /\ Threaded(g) => Cardinality(found) >= MaxPair(ef, k) \/ found = Nodes(g)
    BY <2>1, <2>2, FoundFromEntry DEF found
  <2>4. IsFiniteSet(Nodes(g)) /\ g.del \in SUBSET Nodes(g)
    <3>1. 1 \in Int /\ Len(g.vec) \in Int
      BY <2>2
    <3>2. IsFiniteSet(1 .. Len(g.vec))
      BY <3>1, FS_Interval
    <3> QED
      BY <3>2 DEF GraphHolds, Nodes
  <2>5. ASSUME Cardinality(found) >= MaxPair(ef, k)
        PROVE  Cardinality(F) + Cardinality(g.del) >= MaxPair(ef, k)
    <3>1. IsFiniteSet(found) /\ IsFiniteSet(g.del) /\ IsFiniteSet(F) /\ IsFiniteSet(F \cap g.del)
      BY <2>3, <2>4, FS_Subset
    <3>2. Cardinality(F \cup g.del) = Cardinality(F) + Cardinality(g.del) - Cardinality(F \cap g.del)
          /\ IsFiniteSet(F \cup g.del)
      BY <3>1, FS_Union
    <3>3. Cardinality(found) <= Cardinality(F \cup g.del)
      <4>1. found \in SUBSET (F \cup g.del)
        OBVIOUS
      <4> QED
        BY <3>2, <4>1, FS_Subset
    <3>4. /\ Cardinality(found) \in Nat /\ Cardinality(F) \in Nat /\ Cardinality(g.del) \in Nat
          /\ Cardinality(F \cap g.del) \in Nat /\ Cardinality(F \cup g.del) \in Nat
      BY <3>1, <3>2, FS_CardinalityType
    <3> HIDE DEF F
    <3> QED
      BY <2>1, <2>5, <3>2, <3>3, <3>4
  <2> QED
    BY <2>3, <2>5
<1> HIDE DEF F
<1> QED
  BY <1>1, <1>2

\* The points among which an exact answer is chosen.
PointsOf(st, q) == {[id |-> i, score |-> Dist(st[i], q)] : i \in Kept(st)}

\* Each hit is a point, none comes twice, and they rise; and those of an answer that
\* considers every live node are as many as there are, or k and the nearest.
IsAnswer(hits, st, q, k) ==
    /\ hits \in Seq(PointsOf(st, q)) /\ Distinct(hits) /\ Len(hits) <= k
    /\ \A i, j \in 1 .. Len(hits) : i < j => hits[i].score <= hits[j].score
Exact(hits, st, q, k) ==
    \A h \in PointsOf(st, q) :
        h \in Range(hits) \/ (Len(hits) = k /\ \A m \in Range(hits) : m.score <= h.score)

LEMMA AnswerIs ==
    ASSUME NEW g, NEW st, GraphHolds(g, st), IsHistory(st), NEW q \in Vector, NEW k \in Nat,
           NEW F \in SUBSET (Nodes(g) \ g.del), NEW rank, Tells(rank, F)
    PROVE  /\ IsAnswer(Answer(g, q, k, F, rank), st, q, k)
           /\ IsFiniteSet(F)
           /\ Len(Answer(g, q, k, F, rank)) = IF Cardinality(F) < k THEN Cardinality(F) ELSE k
           /\ F = Nodes(g) \ g.del => Exact(Answer(g, q, k, F, rank), st, q, k)
<1> DEFINE alive == SortFound(g, q, F, rank)
           N == Cardinality(F)
           Hit(n) == [id |-> g.id[n], score |-> Dist(g.vec[n], q)]
           m == IF N < k THEN N ELSE k
           hits == Answer(g, q, k, F, rank)
           P == PointsOf(st, q)
<1>1. /\ g.id \in Seq(DOMAIN st) /\ Len(g.id) = Len(g.vec) /\ g.vec \in Seq(Vector)
      /\ g.del \subseteq 1 .. Len(g.id)
      /\ \A a, b \in 1 .. Len(g.id) : g.id[a] = g.id[b] => a = b
      /\ \A n \in 1 .. Len(g.id) : st[g.id[n]] = IF n \in g.del THEN Absent ELSE g.vec[n]
      /\ \A i \in DOMAIN st : i \notin Range(g.id) => st[i] = Absent
      /\ DOMAIN st \subseteq Nat
  BY DEF GraphHolds, IsHistory
<1>2. F \in SUBSET Nodes(g) /\ \A n \in F : n \in 1 .. Len(g.id) /\ n \in 1 .. Len(g.vec) /\ n \notin g.del
  BY <1>1 DEF Nodes
<1>3. /\ IsFiniteSet(F) /\ alive \in Seq(F) /\ Len(alive) = N /\ Distinct(alive) /\ Range(alive) = F
      /\ \A i, j \in 1 .. N : i < j => Dist(g.vec[alive[i]], q) <= Dist(g.vec[alive[j]], q)
  <2>1. SortsNodes(alive, g, q, F)
    BY <1>1, <1>2, SortFoundIs
  <2> HIDE DEF alive
  <2> QED
    BY <2>1 DEF SortsNodes
<1>4. N \in Nat /\ m \in Nat /\ m <= N /\ m <= k /\ (m = k \/ m = N)
  <2>1. N \in Nat
    BY <1>3, FS_CardinalityType
  <2> HIDE DEF N
  <2> QED
    BY <2>1
<1>5. hits = [i \in 1 .. m |-> Hit(alive[i])]
  <2>1. Min({k, Len(alive)}) = m
    BY <1>3, <1>4, MinOfTwo
  <2> HIDE DEF m, alive
  <2>2. hits = [i \in 1 .. Min({k, Len(alive)}) |->
                   [id |-> g.id[alive[i]], score |-> Dist(g.vec[alive[i]], q)]]
    BY DEF Answer, alive
  <2> QED
    BY <2>1, <2>2
<1> HIDE DEF alive, hits, N, m
<1>6. \A i \in 1 .. N : alive[i] \in F
  BY <1>3
<1>7. ASSUME NEW n \in F
      PROVE  Hit(n) \in P
  <2>1. g.id[n] \in DOMAIN st /\ st[g.id[n]] = g.vec[n] /\ g.vec[n] \in Vector
    BY <1>1, <1>2
  <2>2. g.id[n] \in Kept(st)
    BY <2>1, VectorIsPresent DEF Kept
  <2> QED
    BY <2>1, <2>2 DEF PointsOf
<1>8. \A a, b \in F : Hit(a) = Hit(b) => a = b
  <2> TAKE a, b \in F
  <2> HAVE Hit(a) = Hit(b)
  <2>1. Hit(a).id = Hit(b).id
    OBVIOUS
  <2>2. g.id[a] = g.id[b]
    BY <2>1
  <2> QED
    BY <1>1, <1>2, <2>2
<1>9. \A n \in F : Hit(n).score = Dist(g.vec[n], q)
  OBVIOUS
<1> HIDE DEF Hit, P
<1>10. \A i \in 1 .. m : i \in 1 .. N
  BY <1>4
<1>11. hits \in Seq(P) /\ Len(hits) = m /\ \A i \in 1 .. m : hits[i] = Hit(alive[i])
  <2>1. \A i \in 1 .. m : Hit(alive[i]) \in P
    BY <1>6, <1>7, <1>10
  <2>2. hits \in [1 .. m -> P]
    BY <1>5, <2>1
  <2> QED
    BY <1>4, <1>5, <2>2
<1>12. Distinct(hits)
  <2> SUFFICES ASSUME NEW i \in 1 .. m, NEW j \in 1 .. m, hits[i] = hits[j]
               PROVE  i = j
    BY <1>11 DEF Distinct
  <2>1. alive[i] = alive[j]
    BY <1>6, <1>8, <1>10, <1>11
  <2> QED
    BY <1>3, <1>10, <2>1 DEF Distinct
<1>13. \A i, j \in 1 .. m : i < j => hits[i].score <= hits[j].score
  BY <1>3, <1>6, <1>9, <1>10, <1>11
<1>14. ASSUME F = Nodes(g) \ g.del, NEW h \in P
       PROVE  h \in Range(hits) \/ (Len(hits) = k /\ \A x \in Range(hits) : x.score <= h.score)
  <2>1. PICK i \in Kept(st) : h = [id |-> i, score |-> Dist(st[i], q)]
    BY DEF P, PointsOf
  <2>2. i \in DOMAIN st /\ st[i] # Absent
    BY DEF Kept
  <2>3. PICK n \in DOMAIN g.id : g.id[n] = i
    BY <1>1, <2>2 DEF Range
  <2>4. n \in 1 .. Len(g.id) /\ n \notin g.del /\ st[i] = g.vec[n]
    BY <1>1, <2>2, <2>3
  <2>5. n \in F
    BY <1>1, <1>14, <2>4 DEF Nodes
  <2>6. h = Hit(n)
    BY <2>1, <2>3, <2>4 DEF Hit
  <2>7. PICK j \in 1 .. N : alive[j] = n
    <3>1. DOMAIN alive = 1 .. N
      BY <1>3
    <3> QED
      BY <1>3, <2>5, <3>1 DEF Range
  <2>8. CASE j <= m
    <3>1. j \in 1 .. m
      BY <1>4, <2>8
    <3>2. hits[j] = h /\ j \in DOMAIN hits
      BY <1>11, <2>6, <2>7, <3>1
    <3> QED
      BY <3>2 DEF Range
  <2>9. CASE ~(j <= m)
    <3>1. m = k
      BY <1>4, <2>9
    <3>2. ASSUME NEW x \in Range(hits)
          PROVE  x.score <= h.score
      <4>1. PICK y \in 1 .. m : x = hits[y]
        <5>1. DOMAIN hits = 1 .. m
          BY <1>11
        <5> QED
          BY <5>1 DEF Range
      <4>2. y \in 1 .. N /\ y < j
        BY <1>4, <2>9
      <4>3. x.score = Dist(g.vec[alive[y]], q) /\ h.score = Dist(g.vec[alive[j]], q)
        BY <1>6, <1>9, <1>11, <2>5, <2>6, <2>7, <4>1, <4>2
      <4> QED
        BY <1>3, <4>2, <4>3
    <3> QED
      BY <1>11, <3>1, <3>2
  <2> QED
    BY <2>8, <2>9
<1>15. Len(hits) = IF Cardinality(F) < k THEN Cardinality(F) ELSE k
  BY <1>11 DEF m, N
<1>16. IsAnswer(hits, st, q, k)
  BY <1>4, <1>11, <1>12, <1>13 DEF IsAnswer, P
<1>17. F = Nodes(g) \ g.del => Exact(hits, st, q, k)
  BY <1>14 DEF Exact, P
<1> QED
  BY <1>3, <1>15, <1>16, <1>17 DEF hits

\* Nothing is a good answer for k = 0, or where nothing is stored.
LEMMA NoAnswerIs ==
    ASSUME NEW st, NEW q, NEW k \in Nat
    PROVE  /\ IsAnswer(<<>>, st, q, k)
           /\ k = 0 \/ Kept(st) = {} => Exact(<<>>, st, q, k)
<1>1. IsAnswer(<<>>, st, q, k)
  BY DEF IsAnswer, Distinct
<1>2. Range(<<>>) = {} /\ Len(<<>>) = 0
  BY DEF Range
<1>3. Kept(st) = {} => PointsOf(st, q) = {}
  BY DEF PointsOf
<1> QED
  BY <1>1, <1>2, <1>3 DEF Exact

\* Sound for every breadth; full if nothing but tombstones takes up room; exact for a
\* breadth that has room for the graph.
LEMMA SearchIs ==
    ASSUME NEW g, NEW st, GraphHolds(g, st), IsHistory(st), NEW lev, Layered(g, lev),
           NEW q \in Vector, NEW k \in Nat, NEW ef \in Nat, NEW rank, Tells(rank, Nodes(g))
    PROVE  LET hits == HnswSearch(g, q, k, ef, rank)
               room == IF Len(g.vec) < MaxPair(ef, k) THEN Len(g.vec) ELSE MaxPair(ef, k)
           IN  /\ IsAnswer(hits, st, q, k) /\ IsFiniteSet(g.del)
               /\ Threaded(g) => Len(hits) >= k \/ Len(hits) >= room - Cardinality(g.del)
               /\ Threaded(g) /\ ef >= Len(g.vec) => Exact(hits, st, q, k)
<1> DEFINE hits == HnswSearch(g, q, k, ef, rank)
           N == Len(g.vec)
           B == MaxPair(ef, k)
           room == IF N < B THEN N ELSE B
           D == Cardinality(g.del)
<1>1. /\ N \in Nat /\ B \in Nat /\ IsFiniteSet(g.del) /\ D \in Nat /\ g.del \in SUBSET Nodes(g)
      /\ IsFiniteSet(Nodes(g)) /\ Cardinality(Nodes(g)) = N
  <2>1. N \in Nat /\ g.del \in SUBSET Nodes(g)
    BY DEF GraphHolds, Nodes
  <2>2. IsFiniteSet(Nodes(g)) /\ Cardinality(Nodes(g)) = N
    <3> HIDE DEF N
    <3>1. IsFiniteSet(1 .. N) /\ Cardinality(1 .. N) = N
      BY <2>1, FS_Interval
    <3> QED
      BY <3>1 DEF Nodes, N
  <2>3. IsFiniteSet(g.del)
    BY <2>1, <2>2, FS_Subset
  <2> QED
    BY <2>1, <2>2, <2>3, FS_CardinalityType DEF MaxPair
<1> HIDE DEF hits
<1>2. CASE k = 0 \/ g.live = 0
  <2>1. hits = <<>>
    BY <1>2, SearchFinds DEF hits
  <2>2. g.live = Cardinality(Kept(st))
    BY DEF GraphHolds
  <2>3. g.live = 0 => Kept(st) = {}
    BY <2>2, FS_EmptySet DEF IsHistory
  <2>4. IsAnswer(hits, st, q, k) /\ Exact(hits, st, q, k)
    BY <1>2, <2>1, <2>3, NoAnswerIs
  <2>5. Len(hits) >= k \/ Len(hits) >= room - D
    <3>1. Len(hits) = 0
      BY <2>1
    <3>2. g.live = 0 => D = N
      <4>1. g.live = 0 => g.del = Nodes(g)
        BY LiveIs
      <4> QED
        BY <1>1, <4>1
    <3> HIDE DEF D, N, B
    <3> QED
      BY <1>1, <1>2, <3>1, <3>2
  <2> QED
    BY <1>1, <2>4, <2>5 DEF hits
<1>3. CASE ~(k = 0 \/ g.live = 0)
  <2>1. PICK F \in SUBSET (Nodes(g) \ g.del) :
          /\ hits = Answer(g, q, k, F, rank)
          /\ Threaded(g) => Cardinality(F) + D >= B \/ F = Nodes(g) \ g.del
    <3>1. \E F \in SUBSET (Nodes(g) \ g.del) :
             /\ HnswSearch(g, q, k, ef, rank) = Answer(g, q, k, F, rank)
             /\ Threaded(g) => \/ Cardinality(F) + Cardinality(g.del) >= MaxPair(ef, k)
                               \/ F = Nodes(g) \ g.del
      BY <1>3, SearchFinds
    <3> QED
      BY <3>1 DEF hits
  <2>2. Tells(rank, F)
    BY DEF Tells
  <2>3. /\ IsAnswer(hits, st, q, k) /\ IsFiniteSet(F)
        /\ Len(hits) = IF Cardinality(F) < k THEN Cardinality(F) ELSE k
        /\ F = Nodes(g) \ g.del => Exact(hits, st, q, k)
    BY <2>1, <2>2, AnswerIs
  <2>4. Cardinality(F) \in Nat /\ Len(hits) \in Nat
    BY <2>3, FS_CardinalityType
  <2>5. /\ IsFiniteSet(Nodes(g) \ g.del) /\ Cardinality(Nodes(g) \ g.del) = N - D
        /\ (Cardinality(F) >= N - D => F = Nodes(g) \ g.del)
    <3> DEFINE rest == Nodes(g) \ g.del
    <3>1. rest \cap g.del = {} /\ rest \cup g.del = Nodes(g) /\ IsFiniteSet(rest)
          /\ F \in SUBSET rest
      BY <1>1, FS_Subset
    <3> HIDE DEF rest
    <3>2. Cardinality(rest \cup g.del) = Cardinality(rest) + D - Cardinality(rest \cap g.del)
      BY <1>1, <3>1, FS_Union
    <3>3. Cardinality(rest \cap g.del) = 0 /\ Cardinality(rest \cup g.del) = N /\ Cardinality(rest) \in Nat
      <4>1. Cardinality(rest \cap g.del) = 0 /\ Cardinality(rest \cup g.del) = N
        BY <1>1, <3>1, FS_EmptySet, Zenon
      <4> QED
        BY <3>1, <4>1, FS_CardinalityType
    <3> HIDE DEF D, N
    <3>4. Cardinality(rest) = N - D
      BY <1>1, <3>2, <3>3
    <3>5. Cardinality(F) <= Cardinality(rest) /\ (Cardinality(rest) = Cardinality(F) => rest = F)
      BY <3>1, FS_Subset
    <3> QED
      BY <1>1, <2>4, <3>1, <3>4, <3>5 DEF rest
  <2> HIDE DEF D, N, B
  <2>6. ASSUME Threaded(g)
        PROVE  Len(hits) >= k \/ Len(hits) >= room - D
    <3>1. Cardinality(F) >= B - D \/ Cardinality(F) = N - D
      <4>1. CASE F = Nodes(g) \ g.del
        BY <2>5, <4>1, Zenon
      <4>2. CASE Cardinality(F) + D >= B
        BY <1>1, <2>4, <4>2
      <4> QED
        BY <2>1, <2>6, <4>1, <4>2
    <3> QED
      BY <1>1, <2>3, <2>4, <3>1
  <2>7. ASSUME Threaded(g), ef >= N
        PROVE  F = Nodes(g) \ g.del
    <3>1. B >= N
      BY <1>1, <2>7 DEF B, MaxPair
    <3> QED
      BY <1>1, <2>1, <2>4, <2>5, <2>7, <3>1
  <2> QED
    BY <1>1, <2>3, <2>6, <2>7 DEF hits, D, N, B
<1> QED
  BY <1>2, <1>3

\* What holds of every replica, for the lemmas above.
LEMMA ReplicaIs ==
    ASSUME StoreInv, LayerInv, ThreadInv, NEW r \in Replicas, NEW q
    PROVE  /\ GraphHolds(hnsw[r], stored[r]) /\ TableHolds(brute[r], stored[r]) /\ IsHistory(stored[r])
           /\ hnsw[r].vec \in Seq(Vector) /\ Len(hnsw[r].vec) \in Nat
           /\ \E lev : Layered(hnsw[r], lev)
           /\ r \notin pruned => Threaded(hnsw[r])
           /\ \A rank \in Ranks : Tells(rank, Nodes(hnsw[r]))
           /\ Points(r, q) = PointsOf(stored[r], q)
<1>1. /\ GraphHolds(hnsw[r], stored[r]) /\ TableHolds(brute[r], stored[r]) /\ IsHistory(stored[r])
      /\ \E lev : Layered(hnsw[r], lev)
      /\ r \notin pruned => Threaded(hnsw[r])
  BY DEF StoreInv, LayerInv, ThreadInv
<1>2. hnsw[r].vec \in Seq(Vector) /\ Len(hnsw[r].vec) \in Nat
  BY <1>1 DEF GraphHolds
<1>3. ASSUME NEW rank \in Ranks
      PROVE  Tells(rank, Nodes(hnsw[r]))
  <2>1. setup \in Setups /\ setup.ops \in Nat
    BY SetupsAssumption DEF StoreInv, Setup
  <2>2. count.ops \in Nat /\ count.ops <= setup.ops /\ Len(hnsw[r].vec) <= count.ops
    BY DEF LayerInv
  <2>3. Nodes(hnsw[r]) \subseteq 1 .. setup.ops
    BY <1>2, <2>1, <2>2 DEF Nodes
  <2> QED
    BY <2>1, <2>3, RanksAssumption DEF Tells
<1>4. Points(r, q) = PointsOf(stored[r], q)
  BY DEF Points, PointsOf, Kept
<1> QED
  BY <1>1, <1>2, <1>3, <1>4

LEMMA SearchSoundHolds == StoreInv /\ LayerInv /\ ThreadInv => SearchSound
<1> SUFFICES ASSUME StoreInv, LayerInv, ThreadInv, NEW r \in Replicas, NEW q \in setup.vectors,
                    NEW k \in setup.k, NEW ef \in 1 .. Len(hnsw[r].vec) - 1
             PROVE  LET hits == HnswSearch(hnsw[r], q, k, ef, [n \in NodesOf(hnsw[r]) |-> n])
                        room == Min({Max({ef, k}), Len(hnsw[r].vec)})
                    IN  /\ Range(hits) \subseteq Points(r, q)
                        /\ Cardinality(Range(hits)) = Len(hits) /\ Len(hits) <= k
                        /\ \A i, j \in DOMAIN hits : i < j => hits[i].score <= hits[j].score
                        /\ r \notin pruned => Len(hits) >= Min({k, room - Cardinality(hnsw[r].del)})
  BY DEF SearchSound
<1> DEFINE g == hnsw[r]
           st == stored[r]
           rank == [n \in NodesOf(g) |-> n]
           hits == HnswSearch(g, q, k, ef, rank)
           N == Len(g.vec)
           D == Cardinality(g.del)
           room == Min({Max({ef, k}), N})
<1>1. q \in Vector /\ k \in Nat
  <2>1. setup \in Setups
    BY DEF StoreInv
  <2> QED
    BY <2>1, SetupsAssumption DEF Setup, Vector
<1>2. /\ GraphHolds(g, st) /\ IsHistory(st) /\ g.vec \in Seq(Vector) /\ N \in Nat
      /\ r \notin pruned => Threaded(g)
  BY ReplicaIs
<1>3. PICK lev : Layered(g, lev)
  BY DEF LayerInv
<1>4. Points(r, q) = PointsOf(st, q)
  BY ReplicaIs
<1>5. ef \in Nat /\ N \in Nat
  BY <1>2
<1> HIDE DEF g, st
<1>6. Tells(rank, Nodes(g))
  BY <1>2 DEF Tells, Nodes, NodesOf
<1> HIDE DEF rank
<1>7. /\ IsAnswer(hits, st, q, k) /\ IsFiniteSet(g.del)
      /\ Threaded(g) =>
            \/ Len(hits) >= k
            \/ Len(hits) >= (IF N < MaxPair(ef, k) THEN N ELSE MaxPair(ef, k)) - D
  BY <1>1, <1>2, <1>3, <1>5, <1>6, SearchIs
<1> HIDE DEF hits
<1>8. D \in Nat
  BY <1>7, FS_CardinalityType
<1> HIDE DEF D
<1>9. room = IF N < MaxPair(ef, k) THEN N ELSE MaxPair(ef, k)
  <2>1. Max({ef, k}) = MaxPair(ef, k) /\ MaxPair(ef, k) \in Nat
    BY <1>1, <1>5, BreadthIs DEF Breadth, MaxPair
  <2> HIDE DEF N
  <2> QED
    BY <1>5, <2>1, MinOfTwo
<1>10. hits \in Seq(PointsOf(st, q)) /\ Distinct(hits) /\ Len(hits) <= k /\ Len(hits) \in Nat
       /\ \A i, j \in 1 .. Len(hits) : i < j => hits[i].score <= hits[j].score
  BY <1>7 DEF IsAnswer
<1>11. DOMAIN hits = 1 .. Len(hits) /\ Range(hits) \subseteq PointsOf(st, q)
  BY <1>10 DEF Range
<1>12. Cardinality(Range(hits)) = Len(hits)
  BY <1>10, DistinctCount
<1>13. ASSUME r \notin pruned
       PROVE  Len(hits) >= Min({k, room - D})
  <2> DEFINE full == room - D
  <2>1. Len(hits) >= k \/ Len(hits) >= full
    BY <1>2, <1>7, <1>9, <1>13
  <2>2. full \in Int
    BY <1>1, <1>5, <1>8, <1>9 DEF MaxPair
  <2> HIDE DEF full
  <2>3. Min({k, full}) <= k /\ Min({k, full}) <= full /\ Min({k, full}) \in Int
    <3> DEFINE m == IF full < k THEN full ELSE k
    <3>1. m \in {k, full} /\ \A y \in {k, full} : m <= y
      BY <1>1, <2>2
    <3>2. \A x \in {k, full} : (\A y \in {k, full} : x <= y) => x = m
      BY <1>1, <2>2
    <3> HIDE DEF m
    <3>3. Min({k, full}) = m
      BY <3>1, <3>2 DEF Min
    <3> QED
      BY <1>1, <2>2, <3>3 DEF m
  <2>4. Len(hits) >= Min({k, full})
    BY <1>1, <1>10, <2>1, <2>2, <2>3
  <2> QED
    BY <2>4 DEF full
<1> QED
  BY <1>4, <1>10, <1>11, <1>12, <1>13 DEF g, st, hits, rank, D

\* For any graph, query, k and breadth, a search returns live points with their scores,
\* nearest first and none twice; and only tombstones or a lost edge cost it hits.
THEOREM SearchesAreSound == Spec => []SearchSound
<1>1. Init => StoreInv /\ LayerInv /\ ThreadInv
  BY StoreInvInit, LayerInvInit, ThreadInvInit
<1>2. StoreInv /\ LayerInv /\ ThreadInv /\ [Next]_vars => (StoreInv /\ LayerInv /\ ThreadInv)'
  BY StoreInvNext, LayerInvNext, ThreadInvNext
<1> QED
  BY <1>1, <1>2, SearchSoundHolds, PTL DEF Spec

-----------------------------------------------------------------------------
(* The best scores of a set are those of a part of it that has enough of the best. *)

Hit == [id : Nat, score : Int]
Rises(list) == \A i, j \in 1 .. Len(list) : i < j => list[i].score <= list[j].score
Enumerates(list, H) == list \in Seq(H) /\ Distinct(list) /\ Range(list) = H /\ Rises(list)

LEMMA SortHitsIs ==
    ASSUME NEW H \in SUBSET Hit, IsFiniteSet(H)
    PROVE  Enumerates(SortHits(H), H)
<1> DEFINE d == [a \in H |-> a.score]
           e == [a \in H |-> a.id]
           B == ByKeys(H, d, e)
           Before(a, b) == a.score < b.score \/ (a.score = b.score /\ a.id < b.id)
           N == Cardinality(H)
           r == [i \in 1 .. N |-> CHOOSE a \in H : Cardinality(B[a]) = i - 1]
           sorted == SortHits(H)
<1>1. \A a \in H : a.score \in Int /\ a.id \in Int /\ a = [id |-> a.id, score |-> a.score]
  BY DEF Hit
<1>2. Orders(H, B)
  <2>1. \A a \in H : d[a] \in Int /\ e[a] \in Int
    BY <1>1
  <2>2. \A a, b \in H : d[a] = d[b] /\ e[a] = e[b] => a = b
    BY <1>1
  <2> HIDE DEF d, e
  <2> QED
    BY <2>1, <2>2, KeysOrder
<1>3. \A a \in H : B[a] = {b \in H : Before(b, a)}
  <2> TAKE a \in H
  <2>1. B[a] = {b \in H : d[b] < d[a] \/ (d[b] = d[a] /\ e[b] < e[a])}
    BY DEF ByKeys
  <2>2. \A b \in H : d[b] = b.score /\ e[b] = b.id
    OBVIOUS
  <2> HIDE DEF d, e, B
  <2> QED
    BY <2>1, <2>2
<1>4. /\ N \in Nat /\ r \in [1 .. N -> H]
      /\ \A i, j \in 1 .. N : i < j => r[i] \in B[r[j]]
      /\ \A i, j \in 1 .. N : r[i] = r[j] => i = j
      /\ \A a \in H : \E i \in 1 .. N : r[i] = a
  <2> HIDE DEF B
  <2>1. Arranges(H, B, r)
    BY <1>2, SortedArranges
  <2> HIDE DEF r
  <2> QED
    BY <1>2, <2>1, ArrangedIs
<1>5. sorted = r
  <2> DEFINE one(i) == CHOOSE a \in H : Cardinality({b \in H : Before(b, a)}) = i - 1
             two(i) == CHOOSE a \in H : Cardinality(B[a]) = i - 1
  <2>1. sorted = [i \in 1 .. N |-> one(i)] /\ r = [i \in 1 .. N |-> two(i)]
    BY DEF SortHits
  <2>2. \A a \in H : Cardinality(B[a]) = Cardinality({b \in H : Before(b, a)})
    BY <1>3
  <2> HIDE DEF Before, B, sorted, N, r
  <2>3. ASSUME NEW i \in 1 .. N
        PROVE  one(i) = two(i)
    BY <2>2
  <2> HIDE DEF one, two
  <2> QED
    BY <2>1, <2>3
<1>6. \A a, b \in H : a \in B[b] => a.score <= b.score
  <2> TAKE a, b \in H
  <2>1. a \in B[b] <=> Before(a, b)
    BY <1>3
  <2> HIDE DEF B
  <2> QED
    BY <1>1, <2>1
<1> HIDE DEF r, N, B, sorted
<1>7. r \in Seq(H) /\ Len(r) = N /\ DOMAIN r = 1 .. N
  BY <1>4
<1>8. Range(r) = H
  BY <1>4, <1>7 DEF Range
<1>9. Distinct(r) /\ Rises(r)
  BY <1>4, <1>6, <1>7 DEF Distinct, Rises
<1> QED
  BY <1>5, <1>7, <1>8, <1>9 DEF Enumerates, sorted

\* Hits that score less than the i-th stand before it.
LEMMA BelowIsBefore ==
    ASSUME NEW H \in SUBSET Hit, NEW list \in Seq(H), Rises(list), NEW i \in 1 .. Len(list),
           NEW T \in SUBSET Range(list), \A t \in T : t.score < list[i].score
    PROVE  IsFiniteSet(T) /\ Cardinality(T) <= i - 1
<1> DEFINE K == 1 .. i - 1
           f == [x \in K |-> list[x]]
           U == {f[x] : x \in K}
<1>1. i \in Nat /\ i - 1 \in Nat /\ i <= Len(list) /\ Len(list) \in Nat
      /\ \A x \in 1 .. Len(list) : x \in K \/ i < x \/ x = i
  OBVIOUS
<1>2. IsFiniteSet(K) /\ Cardinality(K) = i - 1
  <2> DEFINE n == i - 1
  <2>1. n \in Nat
    BY <1>1
  <2> HIDE DEF n
  <2>2. IsFiniteSet(1 .. n) /\ Cardinality(1 .. n) = n
    BY <2>1, FS_Interval
  <2> QED
    BY <2>2 DEF n
<1>3. T \subseteq U
  <2> SUFFICES ASSUME NEW t \in T
               PROVE  t \in U
    OBVIOUS
  <2>1. PICK y \in 1 .. Len(list) : t = list[y]
    BY DEF Range
  <2>2. list[y] \in Hit /\ list[i] \in Hit /\ list[y].score < list[i].score
    BY <2>1
  <2>3. ~(i < y) /\ y # i
    BY <2>2 DEF Rises, Hit
  <2>4. y \in K
    BY <1>1, <2>3
  <2> QED
    BY <2>1, <2>4
<1> HIDE DEF K
<1>4. f \in Surjection(K, U)
  BY DEF Surjection
<1> HIDE DEF f, U
<1>5. IsFiniteSet(U) /\ Cardinality(U) <= Cardinality(K)
  BY <1>2, <1>4, FS_Surjection
<1>6. IsFiniteSet(T) /\ Cardinality(T) <= Cardinality(U)
  BY <1>3, <1>5, FS_Subset
<1>7. Cardinality(T) \in Nat /\ Cardinality(U) \in Nat
  BY <1>5, <1>6, FS_CardinalityType
<1> QED
  BY <1>1, <1>2, <1>5, <1>6, <1>7

\* The first i of a list without repetitions.
LEMMA FirstOnes ==
    ASSUME NEW H, NEW list \in Seq(H), Distinct(list), NEW i \in 1 .. Len(list)
    PROVE  LET U == {list[x] : x \in 1 .. i}
           IN  IsFiniteSet(U) /\ Cardinality(U) = i
<1> DEFINE U == {list[x] : x \in 1 .. i}
           f == [x \in 1 .. i |-> list[x]]
<1>1. i \in Nat /\ \A x \in 1 .. i : x \in 1 .. Len(list)
  OBVIOUS
<1>2. f \in Bijection(1 .. i, U)
  <2>1. f \in [1 .. i -> U] /\ \A u \in U : \E x \in 1 .. i : f[x] = u
    OBVIOUS
  <2>2. \A x, y \in 1 .. i : f[x] = f[y] => x = y
    BY <1>1 DEF Distinct
  <2> HIDE DEF f, U
  <2> QED
    BY <2>1, <2>2 DEF Bijection, Injection, Surjection, IsInjective
<1> HIDE DEF f, U
<1>3. ExistsBijection(1 .. i, U)
  BY <1>2 DEF ExistsBijection
<1>4. Cardinality(U) = i
  BY <1>1, <1>3, FS_CountingElements
<1>5. IsFiniteSet(U)
  BY <1>1, <1>3, FS_NatBijection
<1> QED
  BY <1>4, <1>5 DEF U

MinPair(a, b) == IF b < a THEN b ELSE a

\* Every hit left out of P has k others in P that are as good.
Covers(P, H, k) == \A h \in H \ P : k <= Cardinality({m \in P : m.score <= h.score})

IsTopPart(H, P, k, a, b) ==
    /\ H \in SUBSET Hit /\ IsFiniteSet(H) /\ P \in SUBSET H /\ k \in Nat /\ Covers(P, H, k)
    /\ Enumerates(a, P) /\ Enumerates(b, H)
AgreesUpTo(k, a, b) ==
    /\ MinPair(k, Len(a)) = MinPair(k, Len(b))
    /\ \A i \in 1 .. MinPair(k, Len(a)) : a[i].score = b[i].score

LEMMA TopOfPart ==
    ASSUME NEW H, NEW P, NEW k, NEW a, NEW b, IsTopPart(H, P, k, a, b)
    PROVE  AgreesUpTo(k, a, b)
<1>0. /\ H \in SUBSET Hit /\ IsFiniteSet(H) /\ P \in SUBSET H /\ k \in Nat /\ Covers(P, H, k)
      /\ Enumerates(a, P) /\ Enumerates(b, H)
  BY DEF IsTopPart
<1>1. /\ a \in Seq(P) /\ Distinct(a) /\ Range(a) = P /\ Rises(a) /\ Len(a) \in Nat
      /\ b \in Seq(H) /\ Distinct(b) /\ Range(b) = H /\ Rises(b) /\ Len(b) \in Nat
  BY <1>0 DEF Enumerates
<1>2. IsFiniteSet(P) /\ P \in SUBSET Hit
  BY <1>0, FS_Subset
<1>a. \A h \in H : h \in Hit /\ h.score \in Int
  BY <1>0 DEF Hit
<1>b. /\ \A x \in 1 .. Len(a) : a[x] \in P /\ a[x] \in H
      /\ \A x \in 1 .. Len(b) : b[x] \in H
  BY <1>0, <1>1
<1>3. Cardinality(P) = Len(a) /\ Cardinality(H) = Len(b)
  BY <1>0, <1>1, <1>2, DistinctCount
<1>4. Len(a) <= Len(b)
  BY <1>0, <1>3, FS_Subset
<1>5. \A h \in H \ P : k <= Len(a)
  <2> TAKE h \in H \ P
  <2> DEFINE T == {m \in P : m.score <= h.score}
  <2>1. k <= Cardinality(T)
    BY <1>0 DEF Covers
  <2>2. T \in SUBSET P
    OBVIOUS
  <2> HIDE DEF T
  <2>3. Cardinality(T) <= Cardinality(P) /\ Cardinality(T) \in Nat
    BY <1>2, <2>2, FS_Subset, FS_CardinalityType
  <2> QED
    BY <1>0, <1>1, <1>3, <2>1, <2>3
<1>6. MinPair(k, Len(a)) = MinPair(k, Len(b))
  <2>1. CASE P = H
    BY <1>0, <1>3, <2>1
  <2>2. CASE P # H
    <3>1. k <= Len(a)
      BY <1>0, <1>5, <2>2
    <3> QED
      BY <1>0, <1>1, <1>4, <3>1 DEF MinPair
  <2> QED
    BY <2>1, <2>2
<1>7. ASSUME NEW i \in 1 .. MinPair(k, Len(a))
      PROVE  a[i].score = b[i].score
  <2>1. i \in 1 .. Len(a) /\ i \in 1 .. Len(b) /\ i <= k /\ i \in Nat
    BY <1>0, <1>1, <1>4 DEF MinPair
  <2>2. a[i] \in Hit /\ b[i] \in Hit /\ a[i].score \in Int /\ b[i].score \in Int
    BY <1>a, <1>b, <2>1
  <2>3. ~(a[i].score < b[i].score)
    <3> SUFFICES ASSUME a[i].score < b[i].score
                 PROVE  FALSE
      OBVIOUS
    <3> DEFINE U == {a[x] : x \in 1 .. i}
    <3>1. IsFiniteSet(U) /\ Cardinality(U) = i
      BY <1>0, <1>1, <2>1, FirstOnes
    <3>2. U \in SUBSET H /\ \A u \in U : u.score < b[i].score
      <4> SUFFICES ASSUME NEW x \in 1 .. i
                   PROVE  a[x] \in H /\ a[x].score < b[i].score
        OBVIOUS
      <4>1. x \in 1 .. Len(a) /\ (x < i \/ x = i)
        BY <1>0, <1>1, <2>1
      <4>2. a[x] \in Hit /\ a[x] \in H /\ a[x].score \in Int
        BY <1>a, <1>b, <4>1
      <4>3. a[x].score <= a[i].score
        BY <1>0, <1>1, <2>1, <2>2, <4>1, <4>2 DEF Rises
      <4> QED
        BY <1>0, <2>2, <4>2, <4>3
    <3> HIDE DEF U
    <3>3. Cardinality(U) <= i - 1
      BY <1>0, <1>1, <2>1, <3>2, BelowIsBefore
    <3> QED
      BY <2>1, <3>1, <3>3
  <2>4. ~(b[i].score < a[i].score)
    <3> SUFFICES ASSUME b[i].score < a[i].score
                 PROVE  FALSE
      OBVIOUS
    <3> DEFINE U == {b[x] : x \in 1 .. i}
    <3>1. IsFiniteSet(U) /\ Cardinality(U) = i
      BY <1>0, <1>1, <2>1, FirstOnes
    <3>2. U \in SUBSET H /\ \A u \in U : u.score \in Int /\ u.score < a[i].score
      <4> SUFFICES ASSUME NEW x \in 1 .. i
                   PROVE  b[x] \in H /\ b[x].score \in Int /\ b[x].score < a[i].score
        OBVIOUS
      <4>1. x \in 1 .. Len(b) /\ (x < i \/ x = i)
        BY <1>0, <1>1, <2>1
      <4>2. b[x] \in Hit /\ b[x] \in H /\ b[x].score \in Int
        BY <1>a, <1>b, <4>1
      <4>3. b[x].score <= b[i].score
        BY <1>0, <1>1, <2>1, <2>2, <4>1, <4>2 DEF Rises
      <4> QED
        BY <1>0, <2>2, <4>2, <4>3
    <3> HIDE DEF U
    <3>3. CASE U \subseteq P
      <4>1. Cardinality(U) <= i - 1
        BY <1>0, <1>1, <1>2, <2>1, <3>2, <3>3, BelowIsBefore
      <4> QED
        BY <2>1, <3>1, <4>1
    <3>4. CASE ~(U \subseteq P)
      <4>1. PICK h \in U : h \in H \ P
        BY <1>0, <3>2, <3>4
      <4> DEFINE T == {m \in P : m.score <= h.score}
      <4>2. k <= Cardinality(T)
        BY <1>0, <4>1 DEF Covers
      <4>3. T \in SUBSET P /\ \A t \in T : t.score < a[i].score
        <5>1. \A m \in P : m.score \in Int
          BY <1>2 DEF Hit
        <5>2. h.score \in Int /\ h.score < a[i].score
          BY <3>2
        <5> QED
          BY <2>2, <5>1, <5>2
      <4> HIDE DEF T
      <4>4. IsFiniteSet(T) /\ Cardinality(T) <= i - 1
        BY <1>0, <1>1, <1>2, <2>1, <4>3, BelowIsBefore
      <4>5. Cardinality(T) \in Nat
        BY <4>4, FS_CardinalityType
      <4> QED
        BY <1>0, <2>1, <4>2, <4>4, <4>5
    <3> QED
      BY <3>3, <3>4
  <2> QED
    BY <2>2, <2>3, <2>4
<1> QED
  BY <1>6, <1>7 DEF AgreesUpTo

\* The points are hits, finitely many.
LEMMA PointsAre ==
    ASSUME NEW st, IsHistory(st), NEW q \in Vector
    PROVE  /\ PointsOf(st, q) \in SUBSET Hit /\ IsFiniteSet(PointsOf(st, q))
           /\ \A h \in PointsOf(st, q) : h.id \in DOMAIN st
<1> DEFINE P == PointsOf(st, q)
           K == Kept(st)
           Point(i) == [id |-> i, score |-> Dist(st[i], q)]
           f == [i \in K |-> Point(i)]
<1>1. IsFiniteSet(K) /\ \A i \in K : i \in Nat /\ i \in DOMAIN st /\ st[i] \in Vector
  BY DEF IsHistory, Kept
<1>2. P = {Point(i) : i \in K}
  BY DEF PointsOf
<1>3. \A i \in K : Point(i) \in Hit /\ Point(i).id = i
  BY <1>1, DistIsNumber DEF Hit
<1> HIDE DEF Point, P, K
<1>4. f \in Surjection(K, P)
  BY <1>2 DEF Surjection
<1>5. IsFiniteSet(P)
  BY <1>1, <1>4, FS_Surjection
<1> QED
  BY <1>1, <1>2, <1>3, <1>5 DEF P

\* The oracle sorts the same points.
FirstOf(H, k) == SubSeq(SortHits(H), 1, Min({k, Len(SortHits(H))}))

LEMMA BruteSearchIs ==
    ASSUME NEW t, NEW st, TableHolds(t, st), IsHistory(st), NEW q \in Vector, NEW k
    PROVE  /\ BruteSearch(t, q, k) = IF k = 0 \/ t.live = 0 THEN <<>> ELSE FirstOf(PointsOf(st, q), k)
           /\ t.live = 0 => PointsOf(st, q) = {}
<1>1. /\ t.ids \in Seq(DOMAIN st \cup {0}) /\ t.vec \in Seq(Vector) /\ Len(t.ids) = Len(t.vec)
      /\ \A a \in 1 .. Len(t.ids) : t.ids[a] # 0 => st[t.ids[a]] = t.vec[a]
      /\ \A i \in DOMAIN st : i \notin Range(t.ids) => st[i] = Absent
      /\ t.live = Cardinality(Kept(st))
      /\ 0 \notin DOMAIN st /\ DOMAIN t.ids = 1 .. Len(t.ids)
  BY DEF TableHolds, IsHistory
<1> DEFINE S == {x \in DOMAIN t.ids : t.ids[x] # 0}
           H == {[id |-> t.ids[s], score |-> Dist(q, t.vec[s])] : s \in S}
<1>2. \A a, b \in Vector : Dist(a, b) = Dist(b, a)
  <2>1. \A x, y \in Int : (x - y) * (x - y) = (y - x) * (y - x)
    <3> TAKE x, y \in Int
    <3>1. y - x = -(x - y) /\ x - y \in Int
      OBVIOUS
    <3>2. \A z \in Int : z * z = (-z) * (-z)
      OBVIOUS
    <3> QED
      BY <3>1, <3>2
  <2> QED
    BY <2>1 DEF Dist, Vector
<1>3. \A s \in S : t.ids[s] \in Kept(st) /\ st[t.ids[s]] = t.vec[s] /\ t.vec[s] \in Vector
  BY <1>1, VectorIsPresent DEF Kept
<1>4. \A i \in Kept(st) : \E s \in S : t.ids[s] = i
  BY <1>1 DEF Kept, Range
<1>5. \A s \in S : Dist(q, t.vec[s]) = Dist(st[t.ids[s]], q)
  BY <1>2, <1>3
<1> HIDE DEF S
<1>6. H = PointsOf(st, q)
  <2>1. H \subseteq PointsOf(st, q)
    BY <1>3, <1>5 DEF PointsOf
  <2>2. ASSUME NEW i \in Kept(st)
        PROVE  [id |-> i, score |-> Dist(st[i], q)] \in H
    BY <1>4, <1>5
  <2> HIDE DEF H
  <2> QED
    BY <2>1, <2>2 DEF PointsOf
<1>7. t.live = 0 => PointsOf(st, q) = {}
  BY <1>1, FS_EmptySet DEF IsHistory, PointsOf
<1>8. BruteSearch(t, q, k) = IF k = 0 \/ t.live = 0 THEN <<>> ELSE FirstOf(H, k)
  BY DEF BruteSearch, S, FirstOf
<1> HIDE DEF H
<1> QED
  BY <1>6, <1>7, <1>8

\* What Exact says of the hits left out.
LEMMA ExactCovers ==
    ASSUME NEW st, NEW q, NEW k \in Nat, NEW hits, IsAnswer(hits, st, q, k), Exact(hits, st, q, k)
    PROVE  Covers(Range(hits), PointsOf(st, q), k)
<1>1. hits \in Seq(PointsOf(st, q)) /\ Distinct(hits)
  BY DEF IsAnswer
<1>2. Cardinality(Range(hits)) = Len(hits)
  BY <1>1, DistinctCount
<1>3. ASSUME NEW h \in PointsOf(st, q) \ Range(hits)
      PROVE  k <= Cardinality({m \in Range(hits) : m.score <= h.score})
  <2>1. Len(hits) = k /\ \A m \in Range(hits) : m.score <= h.score
    BY DEF Exact
  <2>2. {m \in Range(hits) : m.score <= h.score} = Range(hits)
    BY <2>1
  <2>3. Cardinality({m \in Range(hits) : m.score <= h.score}) = k
    BY <1>2, <2>1, <2>2
  <2> QED
    BY <2>3
<1> QED
  BY <1>3 DEF Covers

\* The first k scores of a list of hits.
LEMMA FirstScores ==
    ASSUME NEW H, NEW b \in Seq(H), NEW k \in Nat
    PROVE  /\ Min({k, Len(b)}) = MinPair(k, Len(b)) /\ MinPair(k, Len(b)) \in Nat
           /\ Scores(SubSeq(b, 1, Min({k, Len(b)}))) = [i \in 1 .. MinPair(k, Len(b)) |-> b[i].score]
<1> DEFINE m == MinPair(k, Len(b))
<1>1. Len(b) \in Nat /\ m \in Nat /\ m <= Len(b)
  BY DEF MinPair
<1>2. Min({k, Len(b)}) = m
  <2>1. Len(b) \in Nat
    OBVIOUS
  <2> QED
    BY <2>1, MinOfTwo DEF MinPair
<1> HIDE DEF m
<1>3. SubSeq(b, 1, m) = [i \in 1 .. m |-> b[i]]
  <2>1. SubSeq(b, 1, m) = [i \in 1 .. (1 + m) - 1 |-> b[1 + i - 1]]
    BY <1>1, SubSeqProperties
  <2>2. (1 + m) - 1 = m /\ \A i \in 1 .. m : 1 + i - 1 = i
    BY <1>1
  <2> QED
    BY <2>1, <2>2
<1>4. DOMAIN SubSeq(b, 1, m) = 1 .. m /\ \A i \in 1 .. m : SubSeq(b, 1, m)[i] = b[i]
  BY <1>3
<1>5. Scores(SubSeq(b, 1, m)) = [i \in 1 .. m |-> b[i].score]
  BY <1>4 DEF Scores
<1> QED
  BY <1>1, <1>2, <1>5 DEF m

LEMMA ExactWhenBroadHolds == StoreInv /\ LayerInv /\ ThreadInv => ExactWhenBroad
<1> SUFFICES ASSUME StoreInv, LayerInv, ThreadInv, NEW r \in Replicas \ pruned,
                    NEW q \in setup.vectors, NEW k \in setup.k, NEW rank \in Ranks
             PROVE  Scores(HnswSearch(hnsw[r], q, k, Len(hnsw[r].vec), rank))
                      = Scores(BruteSearch(brute[r], q, k))
  BY DEF ExactWhenBroad
<1> DEFINE g == hnsw[r]
           t == brute[r]
           st == stored[r]
           hits == HnswSearch(g, q, k, Len(g.vec), rank)
           P == PointsOf(st, q)
           sorted == SortHits(P)
<1>1. q \in Vector /\ k \in Nat
  <2>1. setup \in Setups
    BY DEF StoreInv
  <2> QED
    BY <2>1, SetupsAssumption DEF Setup, Vector
<1>2. /\ GraphHolds(g, st) /\ TableHolds(t, st) /\ IsHistory(st) /\ Len(g.vec) \in Nat
      /\ Threaded(g) /\ Tells(rank, Nodes(g))
  BY ReplicaIs
<1>3. PICK lev : Layered(g, lev)
  BY DEF LayerInv
<1> HIDE DEF g, t, st
<1>4. IsAnswer(hits, st, q, k) /\ Exact(hits, st, q, k)
  <2>1. Len(g.vec) >= Len(g.vec)
    BY <1>2
  <2> QED
    BY <1>1, <1>2, <1>3, <2>1, SearchIs
<1> HIDE DEF hits
<1>5. P \in SUBSET Hit /\ IsFiniteSet(P)
  BY <1>1, <1>2, PointsAre
<1>6. Covers(Range(hits), P, k)
  BY <1>1, <1>4, ExactCovers
<1>7. /\ ~(k = 0 \/ t.live = 0) => BruteSearch(t, q, k) = FirstOf(P, k)
      /\ k = 0 \/ t.live = 0 => BruteSearch(t, q, k) = <<>>
      /\ t.live = 0 => P = {}
  <2> HIDE DEF P
  <2>1. BruteSearch(t, q, k) = IF k = 0 \/ t.live = 0 THEN <<>> ELSE FirstOf(PointsOf(st, q), k)
    BY <1>1, <1>2, BruteSearchIs
  <2>2. t.live = 0 => PointsOf(st, q) = {}
    BY <1>1, <1>2, BruteSearchIs
  <2>3. P = PointsOf(st, q)
    BY DEF P
  <2> QED
    BY <2>1, <2>2, <2>3
<1>8. hits \in Seq(P) /\ Distinct(hits) /\ Rises(hits) /\ Len(hits) <= k /\ Len(hits) \in Nat
  BY <1>4 DEF IsAnswer, Rises
<1> HIDE DEF P
<1>9. Enumerates(sorted, P)
  BY <1>5, SortHitsIs
<1>10. Range(hits) \in SUBSET P /\ Enumerates(hits, Range(hits)) /\ DOMAIN hits = 1 .. Len(hits)
  <2>1. Range(hits) \in SUBSET P /\ DOMAIN hits = 1 .. Len(hits)
    BY <1>8 DEF Range
  <2>2. hits \in Seq(Range(hits))
    <3>1. \A i \in 1 .. Len(hits) : hits[i] \in Range(hits)
      BY <2>1 DEF Range
    <3>2. hits \in [1 .. Len(hits) -> Range(hits)]
      BY <1>8, <2>1, <3>1
    <3> QED
      BY <1>8, <3>2, SeqDef
  <2> QED
    BY <1>8, <2>1, <2>2 DEF Enumerates
<1> HIDE DEF sorted
<1>11. /\ MinPair(k, Len(hits)) = MinPair(k, Len(sorted))
       /\ \A i \in 1 .. MinPair(k, Len(hits)) : hits[i].score = sorted[i].score
  <2>1. IsTopPart(P, Range(hits), k, hits, sorted)
    BY <1>1, <1>5, <1>6, <1>9, <1>10 DEF IsTopPart
  <2>2. AgreesUpTo(k, hits, sorted)
    BY <2>1, TopOfPart
  <2> QED
    BY <2>2 DEF AgreesUpTo
<1>12. MinPair(k, Len(hits)) = Len(hits)
  BY <1>1, <1>8 DEF MinPair
<1>13. Scores(hits) = [i \in 1 .. MinPair(k, Len(sorted)) |-> sorted[i].score]
  BY <1>10, <1>11, <1>12 DEF Scores
<1>14. sorted \in Seq(P) /\ Len(sorted) \in Nat
  BY <1>9 DEF Enumerates
<1>15. Scores(FirstOf(P, k)) = [i \in 1 .. MinPair(k, Len(sorted)) |-> sorted[i].score]
  BY <1>1, <1>14, FirstScores DEF FirstOf, sorted
<1>16. CASE k = 0 \/ t.live = 0
  <2>1. hits = <<>>
    <3>1. Len(hits) = 0
      <4>1. CASE k = 0
        BY <1>8, <4>1
      <4>2. CASE t.live = 0
        <5>1. ~(Len(hits) >= 1)
          <6> SUFFICES ASSUME 1 \in 1 .. Len(hits)
                       PROVE  FALSE
            BY <1>8
          <6> QED
            BY <1>7, <1>8, <4>2
        <5> QED
          BY <1>8, <5>1
      <4> QED
        BY <1>16, <4>1, <4>2
    <3> QED
      BY <1>8, <3>1
  <2>2. BruteSearch(t, q, k) = <<>>
    BY <1>7, <1>16
  <2> QED
    BY <2>1, <2>2 DEF g, t, hits
<1>17. CASE ~(k = 0 \/ t.live = 0)
  <2>1. Scores(BruteSearch(t, q, k)) = Scores(hits)
    BY <1>7, <1>13, <1>15, <1>17
  <2> QED
    BY <2>1 DEF g, t, hits
<1> QED
  BY <1>16, <1>17

\* For any vectors, levels, ties and calls, a replica whose lists never lost an edge answers
\* a search as broad as its graph with the scores of the exact index.
THEOREM BroadSearchesAreExact == Spec => []ExactWhenBroad
<1>1. Init => StoreInv /\ LayerInv /\ ThreadInv
  BY StoreInvInit, LayerInvInit, ThreadInvInit
<1>2. StoreInv /\ LayerInv /\ ThreadInv /\ [Next]_vars => (StoreInv /\ LayerInv /\ ThreadInv)'
  BY StoreInvNext, LayerInvNext, ThreadInvNext
<1> QED
  BY <1>1, <1>2, ExactWhenBroadHolds, PTL DEF Spec

-----------------------------------------------------------------------------
(* Merging the answers of the shards.                                      *)

\* The answer of the next shard has none of the hits before it.
HasBoth(list, H, a, b) ==
    list \in Seq(H) /\ Distinct(list) /\ Range(list) = Range(a) \cup Range(b)

LEMMA AppendHits ==
    ASSUME NEW H, NEW G, H \cap G = {}, NEW a \in Seq(H), Distinct(a), NEW b \in Seq(G), Distinct(b)
    PROVE  HasBoth(a \o b, H \cup G, a, b)
<1> DEFINE c == a \o b
           n == Len(a)
           m == Len(b)
<1>1. n \in Nat /\ m \in Nat /\ DOMAIN a = 1 .. n /\ DOMAIN b = 1 .. m
      /\ (\A i \in 1 .. n : a[i] \in H) /\ (\A i \in 1 .. m : b[i] \in G)
  OBVIOUS
<1>2. /\ c \in Seq(H \cup G) /\ Len(c) = n + m /\ DOMAIN c = 1 .. n + m
      /\ \A i \in 1 .. n : c[i] = a[i]
      /\ \A i \in 1 .. m : c[n + i] = b[i]
  <2>1. a \in Seq(H \cup G) /\ b \in Seq(H \cup G)
    BY <1>1
  <2> QED
    BY <1>1, <2>1
<1>3. \A i \in 1 .. n + m : i \in 1 .. n \/ (i - n \in 1 .. m /\ i = n + (i - n))
  BY <1>1
<1>4. (\A i \in 1 .. n : i \in 1 .. n + m) /\ (\A i \in 1 .. m : n + i \in 1 .. n + m)
  BY <1>1
<1> HIDE DEF c, n, m
<1>5. \A i, j \in 1 .. n + m : c[i] = c[j] => i = j
  <2> TAKE i, j \in 1 .. n + m
  <2> HAVE c[i] = c[j]
  <2>1. CASE i \in 1 .. n /\ j \in 1 .. n
    BY <1>2, <2>1 DEF Distinct, n
  <2>0. \A x \in 1 .. n + m : IF x \in 1 .. n THEN c[x] \in H ELSE c[x] \in G
    <3> TAKE x \in 1 .. n + m
    <3>1. CASE x \in 1 .. n
      BY <1>1, <1>2, <3>1
    <3>2. CASE x \notin 1 .. n
      <4>1. x - n \in 1 .. m /\ c[x] = b[x - n]
        BY <1>2, <1>3, <3>2
      <4> QED
        BY <1>1, <3>2, <4>1
    <3> QED
      BY <3>1, <3>2
  <2>2. CASE i \in 1 .. n /\ j \notin 1 .. n
    BY <2>0, <2>2
  <2>3. CASE i \notin 1 .. n /\ j \in 1 .. n
    BY <2>0, <2>3
  <2>4. CASE i \notin 1 .. n /\ j \notin 1 .. n
    <3>1. i - n \in 1 .. m /\ j - n \in 1 .. m /\ b[i - n] = b[j - n]
      BY <1>2, <1>3, <2>4
    <3>2. i - n = j - n
      BY <3>1 DEF Distinct, m
    <3> QED
      BY <1>3, <2>4, <3>2
  <2> QED
    BY <2>1, <2>2, <2>3, <2>4
<1>6. Range(c) = Range(a) \cup Range(b)
  <2>1. ASSUME NEW i \in 1 .. n + m
        PROVE  c[i] \in Range(a) \cup Range(b)
    <3>1. CASE i \in 1 .. n
      BY <1>1, <1>2, <3>1 DEF Range
    <3>2. CASE i - n \in 1 .. m /\ i = n + (i - n)
      <4>1. c[i] = b[i - n]
        BY <1>2, <3>2
      <4> QED
        BY <1>1, <3>2, <4>1 DEF Range
    <3> QED
      BY <1>3, <3>1, <3>2
  <2>2. \A i \in 1 .. n : a[i] \in {c[x] : x \in 1 .. n + m}
    BY <1>2, <1>4
  <2>3. \A i \in 1 .. m : b[i] \in {c[x] : x \in 1 .. n + m}
    BY <1>2, <1>4
  <2>4. /\ Range(a) = {a[i] : i \in 1 .. n} /\ Range(b) = {b[i] : i \in 1 .. m}
        /\ Range(c) = {c[x] : x \in 1 .. n + m}
    BY <1>1, <1>2 DEF Range
  <2> QED
    BY <2>1, <2>2, <2>3, <2>4
<1> QED
  BY <1>2, <1>5, <1>6 DEF Distinct, HasBoth, c

\* What is covered of two sets is covered of both.
LEMMA CoversBoth ==
    ASSUME NEW H, NEW G, NEW L, NEW P, NEW k \in Nat, IsFiniteSet(L), IsFiniteSet(P),
           Covers(L, H, k), Covers(P, G, k)
    PROVE  Covers(L \cup P, H \cup G, k)
<1> SUFFICES ASSUME NEW h \in (H \cup G) \ (L \cup P)
             PROVE  k <= Cardinality({m \in L \cup P : m.score <= h.score})
  BY DEF Covers
<1> DEFINE Best(X) == {m \in X : m.score <= h.score}
<1>1. IsFiniteSet(L \cup P)
  BY FS_Union
<1>2. Best(L) \subseteq Best(L \cup P) /\ Best(P) \subseteq Best(L \cup P)
      /\ Best(L \cup P) \subseteq L \cup P
  OBVIOUS
<1>3. k <= Cardinality(Best(L)) \/ k <= Cardinality(Best(P))
  BY DEF Covers
<1> HIDE DEF Best
<1>4. IsFiniteSet(Best(L \cup P))
  BY <1>1, <1>2, FS_Subset
<1>5. /\ Cardinality(Best(L)) <= Cardinality(Best(L \cup P)) /\ IsFiniteSet(Best(L))
      /\ Cardinality(Best(P)) <= Cardinality(Best(L \cup P)) /\ IsFiniteSet(Best(P))
  BY <1>2, <1>4, FS_Subset
<1>6. Cardinality(Best(L)) \in Nat /\ Cardinality(Best(P)) \in Nat /\ Cardinality(Best(L \cup P)) \in Nat
  BY <1>4, <1>5, FS_CardinalityType
<1>7. k <= Cardinality(Best(L \cup P))
  BY <1>3, <1>5, <1>6
<1> QED
  BY <1>7 DEF Best

\* The merge sorts all hits, and cuts.
LEMMA TopKIs ==
    ASSUME NEW H \in SUBSET Hit, NEW hits \in Seq(H), Distinct(hits), NEW k \in Nat
    PROVE  \E full : /\ Enumerates(full, Range(hits)) /\ Len(full) = Len(hits)
                     /\ TopK(hits, k) = [i \in 1 .. MinPair(k, Len(hits)) |-> full[i]]
<1> DEFINE N == Len(hits)
           S == 1 .. N
           Before(i, j) ==
                \/ hits[i].score < hits[j].score
                \/ hits[i].score = hits[j].score /\ hits[i].id < hits[j].id
                \/ hits[i].score = hits[j].score /\ hits[i].id = hits[j].id /\ i < j
           B == [j \in S |-> {i \in S : Before(i, j)}]
           at(i) == CHOOSE a \in S : Cardinality({b \in S : Before(b, a)}) = i - 1
           order == [i \in 1 .. Cardinality(S) |-> at(i)]
           full == [i \in S |-> hits[order[i]]]
<1>1. N \in Nat /\ DOMAIN hits = S /\ S \in SUBSET Nat
      /\ \A i \in S : hits[i] \in H /\ hits[i].score \in Int /\ hits[i].id \in Int
  BY DEF Hit
<1>2. IsFiniteSet(S) /\ Cardinality(S) = N
  <2> HIDE DEF N
  <2> QED
    BY <1>1, FS_Interval
<1>3. Min({k, N}) = MinPair(k, N) /\ MinPair(k, N) \in Nat /\ MinPair(k, N) <= N
  <2> HIDE DEF N
  <2>1. Min({k, N}) = MinPair(k, N)
    BY <1>1, MinOfTwo DEF MinPair
  <2> QED
    BY <1>1, <2>1 DEF MinPair
<1>4. TopK(hits, k) = [i \in 1 .. Min({k, N}) |-> hits[order[i]]]
  BY <1>1 DEF TopK, SortBy
<1>5. Orders(S, B)
  <2>1. \A i \in S : hits[i].score \in Int /\ hits[i].id \in Int /\ i \in Nat
    BY <1>1
  <2> DEFINE x(i) == hits[i].score
             y(i) == hits[i].id
  <2>2. \A i, j \in S : i \in B[j] <=> \/ x(i) < x(j)
                                       \/ x(i) = x(j) /\ y(i) < y(j)
                                       \/ x(i) = x(j) /\ y(i) = y(j) /\ i < j
    OBVIOUS
  <2>3. B \in [S -> SUBSET S]
    OBVIOUS
  <2>4. \A i \in S : x(i) \in Int /\ y(i) \in Int /\ i \in Nat
    BY <2>1
  <2> HIDE DEF B, S, x, y
  <2>5. \A a \in S : a \notin B[a]
    BY <2>2, <2>4
  <2>6. \A a, b \in S : a # b => a \in B[b] \/ b \in B[a]
    BY <2>2, <2>4
  <2>7. \A a, b, c \in S : a \in B[b] /\ b \in B[c] => a \in B[c]
    <3> TAKE a, b, c \in S
    <3> HAVE a \in B[b] /\ b \in B[c]
    <3> QED
      BY <2>2, <2>4
  <2> QED
    BY <1>2, <2>3, <2>5, <2>6, <2>7 DEF Orders
<1>6. Arranges(S, B, order)
  <2>1. \A a \in S : B[a] = {b \in S : Before(b, a)}
    OBVIOUS
  <2> HIDE DEF B, S, Before
  <2>2. order = [i \in 1 .. Cardinality(S) |-> order[i]]
    <3> HIDE DEF at
    <3> QED
      OBVIOUS
  <2>3. ASSUME NEW i \in 1 .. Cardinality(S), NEW x \in S, Cardinality(B[x]) = i - 1
        PROVE  order[i] \in S /\ Cardinality(B[order[i]]) = i - 1
    <3>1. order[i] = at(i)
      <4> HIDE DEF at
      <4> QED
        OBVIOUS
    <3>2. \E a \in S : Cardinality({b \in S : Before(b, a)}) = i - 1
      BY <2>1, <2>3
    <3>3. order[i] \in S /\ Cardinality({b \in S : Before(b, order[i])}) = i - 1
      BY <3>1, <3>2
    <3> QED
      BY <2>1, <3>3
  <2> HIDE DEF order
  <2> QED
    BY <2>2, <2>3 DEF Arranges
<1>7. /\ order \in [S -> S]
      /\ \A i, j \in S : i < j => order[i] \in B[order[j]]
      /\ \A i, j \in S : order[i] = order[j] => i = j
      /\ \A a \in S : \E i \in S : order[i] = a
  <2>1. S = 1 .. Cardinality(S)
    BY <1>2
  <2> HIDE DEF B, order, S
  <2>2. /\ order \in [1 .. Cardinality(S) -> S]
        /\ \A i, j \in 1 .. Cardinality(S) : i < j => order[i] \in B[order[j]]
        /\ \A i, j \in 1 .. Cardinality(S) : order[i] = order[j] => i = j
        /\ \A a \in S : \E i \in 1 .. Cardinality(S) : order[i] = a
    BY <1>5, <1>6, ArrangedIs
  <2> QED
    BY <2>1, <2>2
<1>8. \A i, j \in S : i \in B[j] => hits[i].score <= hits[j].score
  BY <1>1
<1> HIDE DEF order, B
<1>9. full \in Seq(Range(hits)) /\ Len(full) = N
  <2>1. \A i \in S : hits[order[i]] \in Range(hits)
    BY <1>1, <1>7 DEF Range
  <2> QED
    BY <1>1, <2>1
<1>10. Range(full) = Range(hits)
  <2>1. \A x \in Range(full) : x \in Range(hits)
    BY <1>1, <1>7 DEF Range
  <2>2. ASSUME NEW x \in Range(hits)
        PROVE  x \in Range(full)
    <3>1. PICK a \in S : x = hits[a]
      BY <1>1 DEF Range
    <3>2. PICK i \in S : order[i] = a
      BY <1>7
    <3>3. full[i] = x /\ i \in DOMAIN full
      BY <3>1, <3>2
    <3> QED
      BY <3>3 DEF Range
  <2> QED
    BY <2>1, <2>2
<1>11. Distinct(full)
  <2>1. \A i, j \in S : hits[i] = hits[j] => i = j
    BY DEF Distinct
  <2>2. \A i, j \in S : full[i] = full[j] => i = j
    BY <1>7, <2>1
  <2> QED
    BY <1>9, <2>2 DEF Distinct
<1>12. Rises(full)
  <2>1. \A i, j \in S : i < j => full[i].score <= full[j].score
    BY <1>7, <1>8
  <2> QED
    BY <1>9, <2>1 DEF Rises
<1>13. TopK(hits, k) = [i \in 1 .. MinPair(k, N) |-> full[i]]
  <2>1. \A i \in 1 .. MinPair(k, N) : i \in S
    BY <1>1, <1>3
  <2> QED
    BY <1>3, <1>4, <2>1
<1> HIDE DEF full
<1>14. Enumerates(full, Range(hits))
  BY <1>9, <1>10, <1>11, <1>12 DEF Enumerates
<1> QED
  BY <1>9, <1>13, <1>14

\* A search has the hits of the shards before the present one, and of what their replicas
\* held it left out only points that k of its hits are as good as.
HeldIs ==
    /\ task.q \in Vector /\ task.k \in Nat /\ task.held \in SUBSET Hit /\ IsFiniteSet(task.held)
    /\ \A h \in task.held : \E s \in Shards : s < task.shard /\ h.id \in setup.ids[s]
MergedIs ==
    /\ task.merged \in Seq(task.held) /\ Distinct(task.merged)
    /\ pruned = {} => Covers(Range(task.merged), task.held, task.k)
GatherInv ==
    /\ task.pc # "idle" => HeldIs
    /\ task.pc = "ask" => MergedIs
    /\ MergedIsTopK

LEMMA GatherInvInit == Init => GatherInv
  BY DEF Init, GatherInv, Idle, MergedIsTopK

LEMMA GatherInvKept ==
    ASSUME GatherInv, UNCHANGED <<setup, task>>, pruned \subseteq pruned'
    PROVE  GatherInv'
<1>1. pruned' = {} => pruned = {}
  OBVIOUS
<1>2. Shards' = Shards
  BY DEF Shards
<1>3. (task.pc # "idle" => HeldIs)'
  BY <1>2 DEF GatherInv, HeldIs
<1>4. (task.pc = "ask" => MergedIs)'
  BY <1>1 DEF GatherInv, MergedIs
<1>5. MergedIsTopK'
  BY <1>1 DEF GatherInv, MergedIsTopK
<1> QED
  BY <1>3, <1>4, <1>5 DEF GatherInv

LEMMA GatherBegins ==
    ASSUME setup \in Setups, NEW q \in setup.vectors, NEW k \in setup.k, NEW meta, BeginSearch(q, k, meta)
    PROVE  GatherInv'
<1>1. /\ task' = [pc |-> "ask", q |-> q, k |-> k, meta |-> meta, shard |-> 1, try |-> 1,
                  merged |-> <<>>, held |-> {}, failed |-> {}, from |-> <<>>]
      /\ setup' = setup
  BY DEF BeginSearch
<1>2. q \in Vector /\ k \in Nat
  BY SetupsAssumption DEF Setup, Vector
<1>3. HeldIs'
  BY <1>1, <1>2, FS_EmptySet DEF HeldIs
<1>4. MergedIs'
  BY <1>1 DEF MergedIs, Distinct, Covers
<1> QED
  BY <1>1, <1>3, <1>4 DEF GatherInv, MergedIsTopK

\* A search under way is a record of these fields.
TaskIs ==
    task = [pc |-> task.pc, q |-> task.q, k |-> task.k, meta |-> task.meta,
            shard |-> task.shard, try |-> task.try, merged |-> task.merged,
            held |-> task.held, failed |-> task.failed, from |-> task.from]

\* The replica asked is one of the shard; its answer leaves out only what is covered.
LEMMA AnswerOfShard ==
    ASSUME StoreInv, LayerInv, ThreadInv, SearchInv, NEW rank \in Ranks, SearchReplica(rank),
           task.q \in Vector, task.k \in Nat
    PROVE  LET r == <<task.shard, Target>>
               hits == HnswSearch(hnsw[r], task.q, task.k, Len(hnsw[r].vec), rank)
               G == Points(r, task.q)
           IN  /\ G \in SUBSET Hit /\ IsFiniteSet(G)
               /\ \A h \in G : h.id \in setup.ids[task.shard]
               /\ hits \in Seq(G) /\ Distinct(hits)
               /\ pruned = {} => Covers(Range(hits), G, task.k)
<1> DEFINE s == task.shard
           r == <<s, Target>>
           g == hnsw[r]
           st == stored[r]
           q == task.q
           k == task.k
           hits == HnswSearch(g, q, k, Len(g.vec), rank)
           G == Points(r, q)
<1>1. task.pc = "ask" /\ s \in Shards /\ setup \in Setups
  BY DEF SearchReplica, SearchInv
<1>2. task.try \in 1 .. Len(setup.order[s])
  BY <1>1 DEF SearchInv, TriedInOrder
<1>3. Target \in Range(setup.order[s])
  <2>1. \A i \in 1 .. Len(setup.order[s]) : Ordered(task.meta, s)[i] \in Range(setup.order[s])
    <3> HIDE DEF s
    <3> QED
      BY <1>1, OrderedIs
  <2> QED
    BY <1>2, <2>1 DEF Target
<1>4. r \in Replicas /\ r[1] = s
  BY <1>1, <1>3 DEF Replicas
<1> HIDE DEF r
<1>5. DOMAIN st = setup.ids[s]
  BY <1>4 DEF StoreInv
<1>6. /\ GraphHolds(g, st) /\ IsHistory(st) /\ Len(g.vec) \in Nat
      /\ r \notin pruned => Threaded(g)
      /\ Tells(rank, Nodes(g)) /\ G = PointsOf(st, q)
  BY <1>4, ReplicaIs
<1>7. PICK lev : Layered(g, lev)
  BY <1>4 DEF LayerInv
<1> HIDE DEF g, st, G, s
<1>8. Len(g.vec) >= Len(g.vec)
  BY <1>6
<1>9. IsAnswer(hits, st, q, k) /\ (Threaded(g) => Exact(hits, st, q, k))
  BY <1>6, <1>7, <1>8, SearchIs
<1> HIDE DEF hits
<1>10. G \in SUBSET Hit /\ IsFiniteSet(G) /\ \A h \in G : h.id \in setup.ids[s]
  BY <1>5, <1>6, PointsAre
<1>11. hits \in Seq(G) /\ Distinct(hits)
  BY <1>6, <1>9 DEF IsAnswer
<1>12. ASSUME pruned = {}
       PROVE  Covers(Range(hits), G, k)
  <2>1. Exact(hits, st, q, k)
    BY <1>6, <1>9, <1>12
  <2> QED
    BY <1>6, <1>9, <2>1, ExactCovers
<1> QED
  BY <1>10, <1>11, <1>12 DEF hits, g, G, r, s

\* No shard before this one has its ids.
LEMMA GatherAnswer ==
    ASSUME StoreInv, LayerInv, ThreadInv, SearchInv, GatherInv, NEW rank \in Ranks, SearchReplica(rank)
    PROVE  GatherInv'
<1> DEFINE s == task.shard
           r == <<s, Target>>
           hits == HnswSearch(hnsw[r], task.q, task.k, Len(hnsw[r].vec), rank)
           G == Points(r, task.q)
           H == task.held
           k == task.k
<1>1. /\ task.pc = "ask" /\ s \in Shards /\ setup' = setup /\ pruned' = pruned
      /\ task' = [task EXCEPT !.merged = @ \o hits, !.held = @ \cup G, !.from = Append(@, Target),
                              !.shard = @ + 1, !.try = 1]
  BY DEF SearchReplica, store
<1>2. HeldIs /\ MergedIs
  BY <1>1 DEF GatherInv
<1>3. TaskIs /\ s \in Nat /\ setup \in Setups
  BY <1>1 DEF SearchInv, TaskOK, TaskIs, Idle
<1>4. /\ G \in SUBSET Hit /\ IsFiniteSet(G)
      /\ \A h \in G : h.id \in setup.ids[s]
      /\ hits \in Seq(G) /\ Distinct(hits)
      /\ pruned = {} => Covers(Range(hits), G, k)
  BY <1>2, AnswerOfShard DEF HeldIs
<1> HIDE DEF hits, G
<1>5. /\ task'.pc = "ask" /\ task'.q = task.q /\ task'.k = k /\ task'.shard = s + 1
      /\ task'.merged = task.merged \o hits /\ task'.held = H \cup G
  <2> HIDE DEF Target
  <2> QED
    BY <1>1, <1>3 DEF TaskIs
<1>6. H \cap G = {}
  <2> SUFFICES ASSUME NEW h \in H, h \in G
               PROVE  FALSE
    OBVIOUS
  <2>1. PICK x \in Shards : x < s /\ h.id \in setup.ids[x]
    BY <1>2 DEF HeldIs
  <2>2. h.id \in setup.ids[s]
    BY <1>4
  <2>3. /\ setup.ids \in Seq(SUBSET (Nat \ {0})) /\ Len(setup.ids) = Len(setup.order)
        /\ setup.order \in Seq(Seq(Nat) \ {<<>>})
        /\ \A i, j \in DOMAIN setup.ids : i # j => setup.ids[i] \cap setup.ids[j] = {}
    BY <1>3, SetupsAssumption DEF Setup
  <2>4. x \in DOMAIN setup.ids /\ s \in DOMAIN setup.ids /\ x # s
    <3>1. Shards = 1 .. Len(setup.order) /\ DOMAIN setup.ids = 1 .. Len(setup.order)
      BY <2>3 DEF Shards
    <3>2. x \in Nat /\ x \in DOMAIN setup.ids /\ s \in DOMAIN setup.ids
      BY <1>1, <2>1, <3>1
    <3>3. x < s
      BY <2>1
    <3> HIDE DEF s
    <3> QED
      BY <1>3, <3>2, <3>3
  <2> QED
    BY <2>1, <2>2, <2>3, <2>4
<1>7. HeldIs'
  <2>1. IsFiniteSet(H \cup G)
    BY <1>2, <1>4, FS_Union DEF HeldIs
  <2>2. H \cup G \in SUBSET Hit
    BY <1>2, <1>4 DEF HeldIs
  <2>3. \A h \in H \cup G : \E x \in Shards : x < s + 1 /\ h.id \in setup.ids[x]
    <3>1. \A x \in Shards : x < s => x < s + 1
      <4>1. setup.order \in Seq(Seq(Nat) \ {<<>>})
        BY <1>3, SetupsAssumption DEF Setup
      <4>2. \A x \in Shards : x \in Nat
        BY <4>1 DEF Shards
      <4> QED
        BY <1>3, <4>2
    <3>2. s < s + 1
      BY <1>3
    <3> QED
      BY <1>1, <1>2, <1>4, <3>1, <3>2 DEF HeldIs
  <2>4. Shards' = Shards
    BY <1>1 DEF Shards
  <2> HIDE DEF s
  <2> QED
    BY <1>1, <1>2, <1>5, <2>1, <2>2, <2>3, <2>4 DEF HeldIs
<1>8. MergedIs'
  <2>1. /\ task.merged \in Seq(H) /\ Distinct(task.merged) /\ k \in Nat
        /\ IsFiniteSet(H)
        /\ pruned = {} => Covers(Range(task.merged), H, k)
    BY <1>2 DEF HeldIs, MergedIs
  <2> DEFINE a == task.merged
             c == a \o hits
  <2> HIDE DEF H, a, k
  <2>2. c \in Seq(H \cup G) /\ Distinct(c) /\ Range(c) = Range(a) \cup Range(hits)
    <3>1. a \in Seq(H) /\ Distinct(a) /\ hits \in Seq(G) /\ Distinct(hits) /\ H \cap G = {}
      BY <1>4, <1>6, <2>1 DEF a
    <3>2. HasBoth(c, H \cup G, a, hits)
      BY <3>1, AppendHits
    <3> QED
      BY <3>2 DEF HasBoth
  <2>3. ASSUME pruned = {}
        PROVE  Covers(Range(c), H \cup G, k)
    <3>1. Range(a) \in SUBSET H /\ Range(hits) \in SUBSET G
      BY <1>4, <2>1 DEF Range, a
    <3>2. IsFiniteSet(Range(a)) /\ IsFiniteSet(Range(hits))
      BY <1>4, <2>1, <3>1, FS_Subset
    <3>3. Covers(Range(a), H, k) /\ Covers(Range(hits), G, k)
      BY <1>4, <2>1, <2>3 DEF a
    <3>4. Covers(Range(a) \cup Range(hits), H \cup G, k)
      BY <2>1, <3>2, <3>3, CoversBoth
    <3> QED
      BY <2>2, <3>4
  <2>4. task'.merged = c /\ task'.held = H \cup G /\ task'.k = k
    BY <1>5 DEF a, H, k
  <2> HIDE DEF c
  <2> QED
    BY <1>1, <2>2, <2>3, <2>4 DEF MergedIs
<1> QED
  BY <1>5, <1>7, <1>8 DEF GatherInv, MergedIsTopK

LEMMA GatherFails ==
    ASSUME SearchInv, GatherInv, SearchFails
    PROVE  GatherInv'
<1>1. /\ task.pc = "ask" /\ setup' = setup /\ pruned' = pruned
      /\ task' = [(IF task.try = Len(Ordered(task.meta, task.shard))
                     THEN GiveUp ELSE [task EXCEPT !.try = @ + 1])
                    EXCEPT !.failed = @ \cup {<<task.shard, Target>>}]
  BY DEF SearchFails, store
<1>2. HeldIs /\ MergedIs
  BY <1>1 DEF GatherInv
<1>3. TaskIs
  BY <1>1 DEF SearchInv, TaskOK, TaskIs, Idle
<1>4. /\ task'.q = task.q /\ task'.k = task.k /\ task'.held = task.held
      /\ task'.shard = task.shard /\ task'.merged = task.merged /\ task'.pc \in {"ask", "failed"}
  BY <1>1, <1>3 DEF TaskIs, GiveUp
<1>5. Shards' = Shards
  BY <1>1 DEF Shards
<1>6. HeldIs'
  BY <1>1, <1>2, <1>4, <1>5 DEF HeldIs
<1>7. MergedIs'
  BY <1>1, <1>2, <1>4 DEF MergedIs
<1> QED
  BY <1>4, <1>6, <1>7 DEF GatherInv, MergedIsTopK

\* What is covered may be left out of the merge.
LEMMA GatherFinishes ==
    ASSUME SearchInv, GatherInv, FinishSearch
    PROVE  GatherInv'
<1> DEFINE H == task.held
           k == task.k
           a == task.merged
           P == Range(a)
           best == SortHits(H)
<1>1. /\ task.pc = "ask" /\ task.shard = Len(setup.order) + 1 /\ setup' = setup /\ pruned' = pruned
      /\ task' = [task EXCEPT !.pc = "done", !.merged = TopK(@, k)]
  BY DEF FinishSearch, store
<1>2. HeldIs /\ MergedIs
  BY <1>1 DEF GatherInv
<1>3. TaskIs /\ task.shard = Len(task.from) + 1 /\ task.from \in Seq(Nat) /\ setup \in Setups
  BY <1>1 DEF SearchInv, TaskOK, TaskIs, TriedInOrder, Idle
<1>4. /\ task'.pc = "done" /\ task'.q = task.q /\ task'.k = k /\ task'.held = H
      /\ task'.shard = task.shard /\ task'.from = task.from /\ task'.merged = TopK(a, k)
  BY <1>1, <1>3 DEF TaskIs
<1>5. Len(task.from) = Len(setup.order)
  <2>1. Len(setup.order) \in Nat /\ Len(task.from) \in Nat
    BY <1>3, SetupsAssumption DEF Setup
  <2> QED
    BY <1>1, <1>3, <2>1
<1>6. HeldIs'
  BY <1>1, <1>2, <1>4 DEF HeldIs, Shards
<1>7. /\ H \in SUBSET Hit /\ IsFiniteSet(H) /\ k \in Nat /\ a \in Seq(H) /\ Distinct(a)
      /\ pruned = {} => Covers(P, H, k)
  BY <1>2 DEF HeldIs, MergedIs
<1> HIDE DEF H, k, a
<1>8. PICK full : /\ Enumerates(full, P) /\ Len(full) = Len(a)
                  /\ TopK(a, k) = [i \in 1 .. MinPair(k, Len(a)) |-> full[i]]
  BY <1>7, TopKIs
<1>9. P \in SUBSET H
  BY <1>7 DEF Range
<1>10. Enumerates(best, H)
  BY <1>7, SortHitsIs
<1> HIDE DEF P, best
<1>11. full \in Seq(P) /\ best \in Seq(H) /\ Len(full) \in Nat /\ Len(best) \in Nat
       /\ MinPair(k, Len(full)) \in Nat /\ MinPair(k, Len(full)) <= Len(full)
  BY <1>7, <1>8, <1>10 DEF Enumerates, MinPair
<1> DEFINE top == TopK(a, k)
<1>12. /\ DOMAIN top = 1 .. MinPair(k, Len(full)) /\ \A i \in DOMAIN top : top[i] = full[i]
       /\ \A i \in DOMAIN top : full[i] \in P
  BY <1>8, <1>11
<1> HIDE DEF top
<1>13. Range(top) \subseteq H
  BY <1>9, <1>12 DEF Range
<1>14. ASSUME pruned = {}
       PROVE  Scores(top) = Scores(SubSeq(best, 1, Min({k, Len(best)})))
  <2>1. IsTopPart(H, P, k, full, best)
    BY <1>7, <1>8, <1>9, <1>10, <1>14 DEF IsTopPart
  <2>2. AgreesUpTo(k, full, best)
    BY <2>1, TopOfPart
  <2>3. /\ MinPair(k, Len(full)) = MinPair(k, Len(best))
        /\ \A i \in 1 .. MinPair(k, Len(full)) : full[i].score = best[i].score
    BY <2>2 DEF AgreesUpTo
  <2>4. Scores(top) = [i \in 1 .. MinPair(k, Len(best)) |-> best[i].score]
    BY <1>12, <2>3 DEF Scores
  <2>5. Scores(SubSeq(best, 1, Min({k, Len(best)}))) = [i \in 1 .. MinPair(k, Len(best)) |-> best[i].score]
    BY <1>7, <1>11, FirstScores
  <2> QED
    BY <2>4, <2>5
<1>15. MergedIsTopK'
  BY <1>1, <1>4, <1>5, <1>13, <1>14 DEF MergedIsTopK, best, top, H, k, a
<1> QED
  BY <1>4, <1>6, <1>15 DEF GatherInv

LEMMA GatherInvNext == StoreInv /\ LayerInv /\ ThreadInv /\ SearchInv /\ GatherInv /\ [Next]_vars => GatherInv'
<1> SUFFICES ASSUME StoreInv, LayerInv, ThreadInv, SearchInv, GatherInv, [Next]_vars
             PROVE  GatherInv'
  OBVIOUS
<1>1. ASSUME NEW r, NEW id, Upsert(r, id) \/ Delete(r, id)
      PROVE  GatherInv'
  <2>1. UNCHANGED <<setup, task>> /\ pruned \subseteq pruned'
    BY <1>1 DEF Upsert, Insert, Delete
  <2> QED
    BY <2>1, GatherInvKept
<1>2. ASSUME NEW q \in setup.vectors, NEW k \in setup.k, NEW meta, BeginSearch(q, k, meta)
      PROVE  GatherInv'
  BY <1>2, GatherBegins DEF SearchInv
<1>3. ASSUME NEW rank \in Ranks, SearchReplica(rank)
      PROVE  GatherInv'
  BY <1>3, GatherAnswer
<1>4. CASE SearchFails
  BY <1>4, GatherFails
<1>5. CASE FinishSearch
  BY <1>5, GatherFinishes
<1>6. CASE UNCHANGED vars
  BY <1>6, GatherInvKept DEF vars, store
<1> QED
  BY <1>1, <1>2, <1>3, <1>4, <1>5, <1>6 DEF Next

\* For any shards, replicas, failing calls and writes between the shards, the answer of
\* coordinate_search is of points its replicas held when they were asked; with the scores
\* of the k best of them, if no graph has lost an edge.
THEOREM MergeGivesTheBest == Spec => []MergedIsTopK
<1> DEFINE Inv == StoreInv /\ LayerInv /\ ThreadInv /\ SearchInv /\ GatherInv
<1>1. Init => Inv
  BY StoreInvInit, LayerInvInit, ThreadInvInit, SearchInvInit, GatherInvInit
<1>2. Inv /\ [Next]_vars => Inv'
  BY StoreInvNext, LayerInvNext, ThreadInvNext, SearchInvNext, GatherInvNext
<1>3. Inv => MergedIsTopK
  BY DEF GatherInv
<1> QED
  BY <1>1, <1>2, <1>3, PTL DEF Spec
=============================================================================
