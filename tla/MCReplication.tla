--------------------------- MODULE MCReplication ---------------------------
(* Small instances of the data plane.                                      *)
EXTENDS Replication, TLC

WriteSymmetry == Permutations(Writes)
=============================================================================
