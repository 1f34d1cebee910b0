----------------------------- MODULE DurableLww -----------------------------
(***************************************************************************)
(* What a shard promises its callers: a durable last-writer-wins map.      *)
(*                                                                         *)
(* `store' is the version of each id that no crash can take away.  A write *)
(* replaces an older version atomically; an acknowledgement only ever      *)
(* promises the version that is already durable.                           *)
(***************************************************************************)
EXTENDS Naturals

CONSTANTS
    Keys,      \* point ids of one shard
    Payloads,  \* what a version carries: vectors and the tombstone
    MaxHlc,    \* bound: stamps are 1 .. MaxHlc, and 0 means "never seen"
    Unseen     \* the payload of an id the shard has never seen


VARIABLES
    store,   \* [Keys -> Version], durable
    acked    \* [Keys -> Version], the newest version promised to a caller

vars == <<store, acked>>

NoVersion == [hlc |-> 0, val |-> Unseen]
Version == [hlc : 1 .. MaxHlc, val : Payloads] \cup {NoVersion}

Init == /\ store = [k \in Keys |-> NoVersion]
        /\ acked = [k \in Keys |-> NoVersion]

Write(k, v) == /\ store[k].hlc < v.hlc
               /\ store' = [store EXCEPT ![k] = v]
               /\ UNCHANGED acked

Ack(k) == /\ acked' = [acked EXCEPT ![k] = store[k]]
          /\ UNCHANGED store

Next == \E k \in Keys : Ack(k) \/ \E v \in Version : Write(k, v)

Spec == Init /\ [][Next]_vars

-----------------------------------------------------------------------------
TypeOK == store \in [Keys -> Version] /\ acked \in [Keys -> Version]

\* A promised version is still the durable one, or a newer write replaced it.
AckedIsDurable ==
    \A k \in Keys : acked[k] = store[k] \/ acked[k].hlc < store[k].hlc
=============================================================================
