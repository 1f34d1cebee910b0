---------------------------- MODULE MCRebalance ----------------------------
(* Small instances of Rebalance.                                           *)
EXTENDS Rebalance

\* The node that joins and the node it displaces; the others keep their replicas.
Movers == {Min(Nodes), Max(Nodes)}

\* Two changes in a row.
Calm == [settled |-> TRUE, kinds |-> {}, deletes |-> {FALSE}, reconcilers |-> Movers,
         reads |-> 0, changes |-> 2, faults |-> 0]

\* One change that waits, and one thing that goes wrong.
Careful == [Calm EXCEPT !.kinds = {"miss", "commit", "restart"}, !.changes = 1, !.faults = 1]

\* One change, at any time, one thing that goes wrong, a read, and a tombstone.
Rough == [settled |-> FALSE, kinds |-> {"miss", "commit", "pull", "restart"},
          deletes |-> {TRUE}, reconcilers |-> {Min(Nodes)},
          reads |-> 1, changes |-> 1, faults |-> 1]

\* One change, and a pull that fails.
Flaky == [Calm EXCEPT !.kinds = {"pull"}, !.reconcilers = Nodes, !.changes = 1, !.faults = 1]

AllScenarios == {Calm, Careful, Rough}
OnlyFlaky == {Flaky}
=============================================================================
