----------------------------- MODULE ShardStore -----------------------------
(***************************************************************************)
(* The shard map of one node (qv-node/src/shards.rs): handles to a durable *)
(* shard that threads keep while the map forgets them, over the shard's    *)
(* files as qv-storage/src/shard.rs opens, appends and snapshots them.     *)
(*                                                                         *)
(* One shard and one point.  Frames have one size and are on disk when an  *)
(* append returns (module ShardStorage looks at sizes, fsync and crashes). *)
(* Stamps are numbered in HLC order, 0 is "never written".  A frame with   *)
(* dimension 0 is a delete.                                                *)
(***************************************************************************)
EXTENDS Naturals, Sequences, FiniteSetsExt

CONSTANTS
    Threads,      \* requests that run at the same time
    Dims,         \* vector dimensions
    Thresholds    \* values of snapshot_wal_mb, in frames, 0 for no snapshots

ASSUME ThreadsAssumption == IsFiniteSet(Threads)
ASSUME DimsAssumption == Dims \subseteq Nat \ {0} /\ Dims # {} /\ Thresholds \subseteq Nat

VARIABLES
    threshold,  \* the node's snapshot threshold, fixed when it starts
    wal,        \* the frames of the WAL file
    snap,       \* the snapshot file
    handles,    \* Arc -> the Shard behind it
    slot,       \* the Arc in the map, 0 for none
    thread,     \* thread -> its request
    acked,      \* history: newest stamp acknowledged since the collection exists
    forgotten,  \* history: the Arcs that the map forgot
    strayed     \* history: a thread appended through a forgotten Arc

storeVars == <<threshold, wal, snap, handles, slot, thread, acked, forgotten, strayed>>
fileVars == <<threshold, wal, snap>>

-----------------------------------------------------------------------------
NoSnapshot == [offset |-> 0, version |-> 0, dim |-> 0]
NoShard == [dim |-> 0, index |-> 0, version |-> 0, len |-> 0, last |-> 0]
NoRequest == [at |-> "none", stamp |-> 0, dim |-> 0, schema |-> 0, arc |-> 0]

\* One Arc per thread that may hold one, and one for the map.
Arcs == 1 .. Cardinality(Threads) + 1
Held == {thread[t].arc : t \in Threads}
Unused == Min(Arcs \ (Held \cup {slot}))

\* Mutant: a frame that begins at the snapshot's offset is taken for covered.
CoversNext(i) == i - 1 <= snap.offset

\* Shard::open skips the frames that end within the snapshot's offset.
Covered(i) == i <= snap.offset

\* Mutant: the replay puts the empty vector of a delete into the index.
ApplyAsUpsert(state, frame, d) ==
    IF ~state.ok \/ frame.stamp < state.version THEN state
    ELSE [version |-> frame.stamp, ok |-> frame.dim = d]

\* apply_record on the version and the health of an index of dimension d: an
\* older frame is skipped, a vector of another dimension is an error.
ApplyRecord(state, frame, d) ==
    IF ~state.ok \/ frame.stamp < state.version THEN state
    ELSE [version |-> frame.stamp, ok |-> frame.dim \in {0, d}]

\* What Shard::open makes of the files when the schema says dimension d.
Recovered(d) ==
    LET index == IF snap = NoSnapshot THEN d ELSE snap.dim
        upTo[i \in 0 .. Len(wal)] ==
            IF i = 0 THEN [version |-> snap.version, ok |-> TRUE]
            ELSE IF Covered(i) THEN upTo[i - 1]
            ELSE ApplyRecord(upTo[i - 1], wal[i], index)
    IN  [ok |-> upTo[Len(wal)].ok,
         shard |-> [dim |-> d, index |-> index, version |-> upTo[Len(wal)].version,
                    len |-> Len(wal), last |-> snap.offset]]

-----------------------------------------------------------------------------
StoreInit ==
    /\ threshold \in Thresholds
    /\ wal = <<>> /\ snap = NoSnapshot
    /\ handles = [a \in Arcs |-> NoShard] /\ slot = 0
    /\ thread = [t \in Threads |-> NoRequest]
    /\ acked = 0 /\ forgotten = {} /\ strayed = FALSE

Goto(t, at, arc) == thread' = [thread EXCEPT ![t].at = at, ![t].arc = arc]
Return(t) == thread' = [thread EXCEPT ![t] = NoRequest]

\* A request: a vector of dimension d (0 for a delete) with a stamp, for a
\* collection whose schema says dimension dim when the request looks it up.
BeginRequest(t, stamp, d, dim) ==
    /\ thread[t] = NoRequest
    /\ thread' = [thread EXCEPT ![t] = [at |-> "lookup", stamp |-> stamp, dim |-> d,
                                        schema |-> dim, arc |-> 0]]
    /\ UNCHANGED <<fileVars, handles, slot, acked, forgotten, strayed>>

\* The vector has the dimension that was looked up, a shard was opened for it.
Fits(d, dim) == d \in {0, dim}

\* get_or_open under the read lock.
Lookup(t) ==
    /\ thread[t].at = "lookup" /\ Fits(thread[t].dim, thread[t].schema)
    /\ Goto(t, IF slot # 0 THEN "apply" ELSE "open", slot)
    /\ UNCHANGED <<fileVars, handles, slot, acked, forgotten, strayed>>

\* Mutant: no second look at the map under the write lock.
OpenAgain(t) ==
    LET r == Recovered(thread[t].schema)
    IN  /\ thread[t].at = "open" /\ r.ok
        /\ handles' = [handles EXCEPT ![Unused] = r.shard]
        /\ slot' = Unused /\ forgotten' = forgotten \ {Unused}
        /\ Goto(t, "apply", Unused)
        /\ UNCHANGED <<fileVars, acked, strayed>>

\* get_or_open under the write lock: another thread may have opened the shard.
Open(t) ==
    LET r == Recovered(thread[t].schema)
    IN  /\ thread[t].at = "open"
        /\ \/ /\ slot # 0
              /\ Goto(t, "apply", slot)
              /\ UNCHANGED <<handles, slot, forgotten>>
           \/ /\ slot = 0 /\ r.ok
              /\ handles' = [handles EXCEPT ![Unused] = r.shard]
              /\ slot' = Unused /\ forgotten' = forgotten \ {Unused}
              /\ Goto(t, "apply", Unused)
           \/ /\ slot = 0 /\ ~r.ok
              /\ Return(t)
              /\ UNCHANGED <<handles, slot, forgotten>>
        /\ UNCHANGED <<fileVars, acked, strayed>>

\* upsert_versioned and delete_versioned under the mutex of the shard.
Apply(t) ==
    LET r == thread[t]
        s == handles[r.arc]
        grown == [s EXCEPT !.len = @ + 1]
        new == [grown EXCEPT !.version = r.stamp]
        due == threshold # 0 /\ new.len - new.last >= threshold   \* maybe_snapshot
    IN  /\ r.at = "apply" /\ Fits(r.dim, s.dim)
        /\ \/ /\ r.stamp <= s.version                     \* stale: nothing to store
              /\ UNCHANGED <<wal, snap, handles>>
              /\ acked' = Max({acked, r.stamp})
           \/ /\ r.stamp > s.version /\ r.dim \in {0, s.index}
              /\ wal' = Append(wal, [stamp |-> r.stamp, dim |-> r.dim])
              /\ handles' = [handles EXCEPT ![r.arc] =
                                [new EXCEPT !.last = IF due THEN new.len ELSE @]]
              /\ snap' = IF due THEN [offset |-> new.len, version |-> new.version,
                                      dim |-> new.index] ELSE snap
              /\ acked' = Max({acked, r.stamp})
           \/ /\ r.stamp > s.version /\ r.dim \notin {0, s.index}
              /\ wal' = Append(wal, [stamp |-> r.stamp, dim |-> r.dim])
              /\ handles' = [handles EXCEPT ![r.arc] = grown]
              /\ UNCHANGED <<snap, acked>>                \* the index refuses it: an error
        /\ Return(t)
        /\ strayed' = (strayed \/ (wal' # wal /\ r.arc \in forgotten))
        /\ UNCHANGED <<threshold, slot, forgotten>>

\* DimMismatch, from ShardStore::upsert or from the shard: nothing is appended.
Refuse(t) ==
    /\ \/ thread[t].at = "lookup" /\ ~Fits(thread[t].dim, thread[t].schema)
       \/ thread[t].at = "apply" /\ ~Fits(thread[t].dim, handles[thread[t].arc].dim)
    /\ Return(t)
    /\ UNCHANGED <<fileVars, handles, slot, acked, forgotten, strayed>>

\* drop_shard and drop_collection: the map forgets the Arc, the directory stays.
Forget ==
    /\ slot' = 0
    /\ forgotten' = (forgotten \cup {slot}) \ {0}
    /\ UNCHANGED <<fileVars, handles, thread, strayed>>

\* The process ends and comes back with an empty map.
RestartStore ==
    /\ slot' = 0
    /\ handles' = [a \in Arcs |-> NoShard]
    /\ thread' = [t \in Threads |-> NoRequest]
    /\ forgotten' = {}
    /\ UNCHANGED <<fileVars, acked, strayed>>

StoreTypeOK ==
    /\ threshold \in Thresholds
    /\ \A i \in DOMAIN wal : wal[i].stamp \in Nat /\ wal[i].dim \in Dims \cup {0}
    /\ snap.offset \in Nat /\ snap.version \in Nat /\ snap.dim \in Dims \cup {0}
    /\ handles \in [Arcs -> [dim : Dims \cup {0}, index : Dims \cup {0}, version : Nat,
                             len : Nat, last : Nat]]
    /\ slot \in Arcs \cup {0}
    /\ thread \in [Threads -> [at : {"none", "lookup", "open", "apply"}, stamp : Nat,
                               dim : Dims \cup {0}, schema : Dims \cup {0},
                               arc : Arcs \cup {0}]]
    /\ \A t \in Threads : thread[t].at = "apply" => thread[t].arc # 0
    /\ acked \in Nat /\ forgotten \subseteq Arcs /\ strayed \in BOOLEAN
=============================================================================
