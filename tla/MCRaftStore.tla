---------------------------- MODULE MCRaftStore ----------------------------
(* Small instances of the Raft store.                                      *)
EXTENDS RaftStore
=============================================================================
