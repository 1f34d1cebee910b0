----------------------------- MODULE Placement -----------------------------
(***************************************************************************)
(* Layer 2 of placement: the consistent-hash ring of                       *)
(* qv-cluster/src/placement.rs, as the membership changes.                 *)
(*                                                                         *)
(* XXH64 is any function: the vnodes of a node and the home of the shard   *)
(* stand anywhere on a ring of Points positions, collisions included.      *)
(***************************************************************************)
EXTENDS Naturals, Sequences, FiniteSets, FiniteSetsExt, SequencesExt

CONSTANTS
    Nodes,      \* node ids, numbers
    Vnodes,     \* virtual nodes per node
    Points,     \* bound: size of the hash space
    Homes,      \* bound: the home positions to consider
    RF          \* replication_n

ASSUME SizesAssumption == Vnodes \in Nat \ {0} /\ Points \in Nat \ {0} /\ RF \in Nat \ {0}
ASSUME NodesAssumption == /\ Nodes \subseteq Nat /\ IsFiniteSet(Nodes)
                          /\ Homes \subseteq 0 .. Points - 1

VARIABLES
    pos,       \* <<node, vnode index>> -> ring position, fixed by the hash
    home       \* home position of the shard, fixed by the hash

Indexes == 0 .. Vnodes - 1

-----------------------------------------------------------------------------
\* Ring::new: the vnodes of the members by position, then by node id; which of
\* two vnodes of one node at one position comes first cannot be told.
SortsBefore(a, b) ==
    \/ pos[a] < pos[b]
    \/ pos[a] = pos[b] /\ a[1] < b[1]
    \/ pos[a] = pos[b] /\ a[1] = b[1] /\ a[2] < b[2]

Ring(M) ==
    LET vnodes == M \X Indexes
        ranked == {<<v, Cardinality({w \in vnodes : SortsBefore(w, v)})>> : v \in vnodes}
    IN  [i \in 1 .. Cardinality(vnodes) |-> (CHOOSE r \in ranked : r[2] = i - 1)[1]]

\* Mutant: partition_point over `*pos <= home'.
StartAfter(ring) ==
    Cardinality({i \in DOMAIN ring : pos[ring[i]] <= home}) % Len(ring)

\* The first vnode at or after the home position, counted from 0.
Start(ring) ==
    Cardinality({i \in DOMAIN ring : pos[ring[i]] < home}) % Len(ring)

\* One step of the walk: a node met for the first time is a replica, until
\* there are enough.
Visit(replicas, node, want) ==
    IF Len(replicas) = want \/ Contains(replicas, node)
      THEN replicas ELSE Append(replicas, node)

\* Ring::replicas_for_shard.
ReplicasForShard(M) ==
    LET ring == Ring(M)
        n    == Len(ring)
        want == Min({RF, Cardinality(M)})
        walk[step \in 0 .. n] ==
            IF step = 0 THEN <<>>
            ELSE Visit(walk[step - 1], ring[((Start(ring) + step - 1) % n) + 1][1], want)
    IN  IF M = {} THEN <<>> ELSE walk[n]

-----------------------------------------------------------------------------
\* The hash is fixed: any placement, the vnodes of a node in ascending order
\* (the walk does not tell them apart).
RingInit ==
    /\ pos \in {p \in [Nodes \X Indexes -> 0 .. Points - 1] :
                   \A n \in Nodes : \A i, j \in Indexes : i < j => p[<<n, i>>] <= p[<<n, j>>]}
    /\ home \in Homes

\* How far clockwise from the home the nearest vnode of a node is, and the
\* order of two nodes that this gives: both know nothing of the other members.
Offset(n) == Min({(pos[<<n, i>>] + Points - home) % Points : i \in Indexes})
Before(a, b) == Offset(a) < Offset(b) \/ (Offset(a) = Offset(b) /\ a < b)

=============================================================================
