------------------------------ MODULE Distance ------------------------------
(***************************************************************************)
(* The metric of crates/qv-hnsw/src/distance.rs: squared Euclidean, on     *)
(* pairs of integers, which keeps the arithmetic exact.                    *)
(***************************************************************************)
EXTENDS Integers

\* Metric::L2.
Dist(a, b) == (a[1] - b[1]) * (a[1] - b[1]) + (a[2] - b[2]) * (a[2] - b[2])
=============================================================================
