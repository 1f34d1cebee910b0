---------------------------- MODULE MCMetaPlane ----------------------------
(* Small instances of MetaPlane.                                           *)
EXTENDS MetaPlane

Nothing == [founders |-> {}, overlap |-> FALSE, rings |-> FALSE, calls |-> 0, faults |-> 0,
            acquires |-> 0, drops |-> 0, creates |-> 0, releases |-> 0, requests |-> 0,
            restarts |-> 0]

\* One membership change on every ring.
Rings == {[Nothing EXCEPT !.founders = F, !.rings = TRUE, !.calls = 1] :
             F \in {{1, 2}, {1, 3}, {2, 3}}}

\* A cluster that grows and shrinks one call at a time, with two failures.
Serial == [Nothing EXCEPT !.calls = 5, !.faults = 2]

\* Calls that overlap, transfers and a collection that is dropped meanwhile.
Overlapping == [Nothing EXCEPT !.founders = {1, 2}, !.overlap = TRUE, !.calls = 2, !.faults = 1,
                               !.acquires = 1, !.drops = 1]

\* Requests on the shard of one node, which is dropped and opened again.
Storage == [Nothing EXCEPT !.founders = {1}, !.releases = 1, !.requests = 4, !.restarts = 1]

\* Requests while the collection is dropped and created anew.
Recreated == [Nothing EXCEPT !.founders = {1}, !.drops = 1, !.creates = 1, !.requests = 3]

AllSetups == Rings \cup {Serial, Overlapping, Storage, Recreated}
Symmetry == Permutations(Threads)
=============================================================================
