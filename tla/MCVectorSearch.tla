--------------------------- MODULE MCVectorSearch ---------------------------
(* Small instances of VectorSearch.                                        *)
EXTENDS VectorSearch

\* Equal distances in the order of the nodes, or against it.
MCRanks == {[n \in 1 .. 5 |-> n], [n \in 1 .. 5 |-> 6 - n]}

\* One replica that grows until lists overflow.
Grow == [order |-> <<<<1>>>>, ids |-> <<{1, 2, 3, 4}>>,
         vectors |-> {<<0, 0>>, <<1, 0>>, <<4, 0>>, <<1, 3>>}, level |-> 1,
         ops |-> 4, searches |-> 0, k |-> {2}, faults |-> 0]

\* One replica whose points are replaced and deleted.
Churn == [Grow EXCEPT !.ids = <<{1, 2, 3}>>, !.vectors = {<<0, 0>>, <<1, 0>>, <<1, 3>>},
                      !.level = 0, !.ops = 5, !.k = {1, 2}]

\* A search over two shards, with two replicas of the first.
Fanout == [order |-> <<<<1, 2>>, <<1>>>>, ids |-> <<{2}, {1}>>,
           vectors |-> {<<0, 0>>, <<1, 0>>}, level |-> 0,
           ops |-> 3, searches |-> 1, k |-> {1}, faults |-> 2]

MCSetups == {Grow, Churn, Fanout}
=============================================================================
