---------------------------- MODULE ShardStorage ----------------------------
(***************************************************************************)
(* One durable shard of crates/qv-storage: the Shard of shard.rs, its      *)
(* write-ahead log (wal.rs) and its snapshots (snapshot.rs), with process  *)
(* kills, power losses and I/O errors between any two of its disk steps.   *)
(*                                                                         *)
(* A shard runs one call at a time (it is behind a mutex), so the only     *)
(* interleaving is with failures: `pc' says how far the current call got.  *)
(* The WAL is one sequence of frames with two marks: what the operating    *)
(* system holds (`written') and what is on stable storage (`synced'); the  *)
(* frames beyond `written' sit in the BufWriter of the process.  The WAL   *)
(* is never truncated by a snapshot.  Byte offsets keep what matters of    *)
(* them: a delete carries no vector, so its frame is shorter.              *)
(***************************************************************************)
EXTENDS Naturals, Sequences, FiniteSets

CONSTANTS
    Keys,           \* point ids
    Vectors,        \* what an upsert stores
    Tomb,           \* what a delete stores
    Unseen,         \* payload of an id never seen
    MaxHlc,         \* bound: stamps 1 .. MaxHlc
    SnapThreshold,  \* snapshot_threshold_bytes
    Setups          \* modes of operation to consider: see Setup

CrashKinds == {"kill", "power"}
FaultKinds == {"frame", "flush", "snapshot", "dirsync", "bitrot"}

\* batch: wal_batch_ms > 0; which crashes and I/O errors happen; and two bounds,
\* the ids that are written and the frames in the WAL.
Setup == [batch : BOOLEAN, crashes : SUBSET CrashKinds, faults : SUBSET FaultKinds,
          keys : SUBSET Keys, maxLog : Nat]

ASSUME BoundsAssumption == MaxHlc \in Nat /\ SnapThreshold \in Nat
ASSUME SetupsAssumption == Setups \subseteq Setup
ASSUME PayloadAssumption == Tomb \notin Vectors /\ Unseen \notin Vectors \cup {Tomb}

VARIABLES
    setup,     \* the mode of operation, fixed
    pc,        \* "down", "idle", or the step the current call is about to take
    op,        \* the record the current call writes (NoOp for snapshot_now)
    mem,       \* versions + index: the winning version of each id
    log,       \* the frames of shard.wal, buffered ones included
    written,   \* frames handed to the operating system
    synced,    \* frames on stable storage
    len,       \* Wal.len, the logical end offset
    dirty,     \* Wal.dirty
    snap,      \* shard.snap as the file system shows it
    snapSafe,  \* shard.snap as a power loss would leave it
    lastSnap,  \* Shard.last_snapshot_offset
    acked      \* history: the version each id was last acknowledged at

disk == <<log, written, synced, snap, snapSafe>>
vars == <<setup, pc, op, mem, log, written, synced, len, dirty, snap, snapSafe, lastSnap, acked>>

-----------------------------------------------------------------------------
(* Data.                                                                   *)

Payloads == Vectors \cup {Tomb}
NoVersion == [hlc |-> 0, val |-> Unseen]
Version == [hlc : 1 .. MaxHlc, val : Payloads] \cup {NoVersion}

\* A WAL frame; `intact' is what the length and CRC checks find.
Frame == [id : Keys, hlc : 1 .. MaxHlc, val : Payloads, intact : BOOLEAN]
NoOp == [id |-> CHOOSE k \in Keys : TRUE, hlc |-> 0, val |-> Unseen, intact |-> FALSE]

Record(k, h, v) == [id |-> k, hlc |-> h, val |-> v, intact |-> TRUE]
Torn(f) == [f EXCEPT !.intact = FALSE]
VersionOf(f) == [hlc |-> f.hlc, val |-> f.val]

Snapshots == [off : Nat, mem : [Keys -> Version]]
NoSnapshot == [off |-> 0, mem |-> [k \in Keys |-> NoVersion]]

\* framed_len: what a record occupies on disk.
FramedLen(f) == IF f.val = Tomb THEN 1 ELSE 2

\* Where the frames of s end: the file length of a WAL holding them.
EndOffset(s) ==
    LET end[i \in 0 .. Len(s)] == IF i = 0 THEN 0 ELSE end[i - 1] + FramedLen(s[i])
    IN  end[Len(s)]

-----------------------------------------------------------------------------
(* Recovery: Wal::recover, then the replay loop of Shard::open.            *)

\* The frames before the first one that is torn, fails its CRC or does not
\* decode.
IntactPrefix(s) ==
    SubSeq(s, 1, Cardinality({i \in DOMAIN s : \A j \in 1 .. i : s[j].intact}))

\* Mutant: a record with the stored stamp is skipped too.
ApplyRecordStrict(m, f) ==
    IF f.hlc <= m[f.id].hlc THEN m ELSE [m EXCEPT ![f.id] = VersionOf(f)]

\* apply_record: a record older than the stored version is skipped.
ApplyRecord(m, f) ==
    IF f.hlc < m[f.id].hlc THEN m ELSE [m EXCEPT ![f.id] = VersionOf(f)]

\* Mutant: every frame is counted as if it carried no vector.
ReplayMiscounts(s, frames) ==
    LET state[i \in 0 .. Len(frames)] ==
            IF i = 0 THEN s.mem
            ELSE IF i > s.off THEN ApplyRecord(state[i - 1], frames[i])
            ELSE state[i - 1]
    IN  state[Len(frames)]

\* Replay, on top of a snapshot, the frames that end beyond its offset.
Replay(s, frames) ==
    LET end[i \in 0 .. Len(frames)] ==
            IF i = 0 THEN 0 ELSE end[i - 1] + FramedLen(frames[i])
        state[i \in 0 .. Len(frames)] ==
            IF i = 0 THEN s.mem
            ELSE IF end[i] > s.off THEN ApplyRecord(state[i - 1], frames[i])
            ELSE state[i - 1]
    IN  state[Len(frames)]

\* What Shard::open would build from a snapshot and a WAL.
Recovered(s, frames) == Replay(s, IntactPrefix(frames))

-----------------------------------------------------------------------------
Init ==
    /\ setup \in Setups
    /\ pc = "idle" /\ op = NoOp
    /\ mem = NoSnapshot.mem
    /\ log = <<>> /\ written = 0 /\ synced = 0
    /\ len = 0 /\ dirty = FALSE
    /\ snap = NoSnapshot /\ snapSafe = NoSnapshot /\ lastSnap = 0
    /\ acked = NoSnapshot.mem

\* The caller is told the point converged: the version it can now rely on is
\* the one the shard holds.
Acknowledge(k) == acked' = [acked EXCEPT ![k] = mem'[k]]

\* Mutant: a write with the stored stamp is not stale.
IsStaleStrict(k, h) == h < mem[k].hlc

IsStale(k, h) == h <= mem[k].hlc

\* Mutant: the bytes reach the operating system and are not fsynced.
FlushNoSync ==
    /\ written' = IF dirty THEN Len(log) ELSE written
    /\ dirty' = FALSE
    /\ UNCHANGED synced

\* Wal::flush: nothing to do unless an append marked the log dirty.
Flush ==
    /\ written' = IF dirty THEN Len(log) ELSE written
    /\ synced' = IF dirty THEN Len(log) ELSE synced
    /\ dirty' = FALSE

-----------------------------------------------------------------------------
(* upsert_versioned / delete_versioned.                                    *)

\* A write that loses last-writer-wins is answered at once.
WriteStale(k, h) ==
    /\ pc = "idle" /\ IsStale(k, h)
    /\ UNCHANGED mem
    /\ Acknowledge(k)
    /\ UNCHANGED <<pc, op, log, written, synced, len, dirty, snap, snapSafe, lastSnap>>

\* A winning write frames its record into the BufWriter.  In batch mode
\* append returns here; otherwise it goes on to flush.
WriteAppend(k, h, v) ==
    /\ pc = "idle" /\ ~IsStale(k, h) /\ Len(log) < setup.maxLog
    /\ op' = Record(k, h, v)
    /\ log' = Append(log, op')
    /\ len' = len + FramedLen(op')
    /\ dirty' = TRUE
    /\ pc' = IF setup.batch THEN "apply" ELSE "flush"
    /\ UNCHANGED <<mem, written, synced, snap, snapSafe, lastSnap, acked>>

\* writer.flush and sync_data before append returns.
WriteFlush ==
    /\ pc = "flush"
    /\ Flush
    /\ pc' = "apply"
    /\ UNCHANGED <<op, mem, log, len, snap, snapSafe, lastSnap, acked>>

\* The record enters the index and the version map; then maybe_snapshot.
WriteApply ==
    /\ pc = "apply"
    /\ mem' = [mem EXCEPT ![op.id] = VersionOf(op)]
    /\ IF SnapThreshold > 0 /\ len >= lastSnap + SnapThreshold
       THEN pc' = "snapflush" /\ UNCHANGED <<op, acked>>
       ELSE pc' = "idle" /\ op' = NoOp /\ Acknowledge(op.id)
    /\ UNCHANGED <<log, written, synced, len, dirty, snap, snapSafe, lastSnap>>

-----------------------------------------------------------------------------
(* snapshot_now, called on its own or at the end of a write.               *)

SnapshotNow ==
    /\ pc = "idle"
    /\ pc' = "snapflush"
    /\ UNCHANGED <<op, mem, log, written, synced, len, dirty, snap, snapSafe, lastSnap, acked>>

\* Mutant: the snapshot does not flush the WAL it covers.
SnapFlushSkipped ==
    /\ pc = "snapflush"
    /\ pc' = "snapwrite"
    /\ UNCHANGED <<op, mem, log, written, synced, len, dirty, snap, snapSafe, lastSnap, acked>>

\* The WAL is flushed first, so the offset the image will claim is durable.
SnapFlush ==
    /\ pc = "snapflush"
    /\ Flush
    /\ pc' = "snapwrite"
    /\ UNCHANGED <<op, mem, log, len, snap, snapSafe, lastSnap, acked>>

\* Snapshot::write: temp file, fsync, rename.  Until the rename the old
\* snapshot is in place, so nothing before it changes what open would load.
SnapRename ==
    /\ pc = "snapwrite"
    /\ snap' = [off |-> len, mem |-> mem]
    /\ pc' = "snapsync"
    /\ UNCHANGED <<op, mem, log, written, synced, len, dirty, snapSafe, lastSnap, acked>>

\* The directory entry is fsynced and the call returns; an error of that fsync
\* is dropped.
SnapSync ==
    /\ pc = "snapsync"
    /\ snapSafe' = snap \/ ("dirsync" \in setup.faults /\ UNCHANGED snapSafe)
    /\ lastSnap' = len
    /\ pc' = "idle" /\ op' = NoOp
    /\ UNCHANGED mem
    /\ IF op = NoOp THEN UNCHANGED acked ELSE Acknowledge(op.id)
    /\ UNCHANGED <<log, written, synced, len, dirty, snap>>

\* Shard::flush.
FlushNow ==
    /\ pc = "idle" /\ dirty
    /\ Flush
    /\ UNCHANGED <<pc, op, mem, log, len, snap, snapSafe, lastSnap, acked>>

-----------------------------------------------------------------------------
(* I/O errors the code returns to the caller, leaving the shard open.      *)

\* write_all fails inside a frame (a full disk, on a frame larger than the
\* BufWriter): part of it is in the file, and len was not advanced.
AppendFails(k, h, v) ==
    /\ "frame" \in setup.faults
    /\ pc = "idle" /\ ~IsStale(k, h) /\ Len(log) < setup.maxLog
    /\ log' = Append(log, Torn(Record(k, h, v)))
    /\ written' = Len(log')
    /\ UNCHANGED <<pc, op, mem, synced, len, dirty, snap, snapSafe, lastSnap, acked>>

\* The flush of an append fails: the frame stays buffered, len stays advanced,
\* and the write is reported as failed without touching the index.
FlushFails ==
    /\ "flush" \in setup.faults
    /\ pc = "flush"
    /\ pc' = "idle" /\ op' = NoOp
    /\ UNCHANGED <<mem, log, written, synced, len, dirty, snap, snapSafe, lastSnap, acked>>

\* snapshot_now fails at its flush or before its rename: a write it ends was
\* applied and is in the WAL, but the caller gets an error.
SnapshotFails ==
    /\ "snapshot" \in setup.faults
    /\ pc \in {"snapflush", "snapwrite"}
    /\ pc' = "idle" /\ op' = NoOp
    /\ UNCHANGED <<mem, log, written, synced, len, dirty, snap, snapSafe, lastSnap, acked>>

-----------------------------------------------------------------------------
(* Failures of the process and the machine.                                *)

\* Frames 1 .. n of the log survive, and perhaps a piece of the next one.
Survives(n, torn) ==
    log' = SubSeq(log, 1, n) \o (IF torn THEN <<Torn(log[n + 1])>> ELSE <<>>)

\* The process ends, and with it everything it held in memory.
Halt == /\ pc' = "down" /\ op' = NoOp
        /\ mem' = NoSnapshot.mem /\ len' = 0 /\ dirty' = FALSE /\ lastSnap' = 0

\* kill -9: the process's buffer is lost, the page cache is not.  The process
\* may have been inside Wal::flush, or a full BufWriter may have spilled, so
\* any part of the buffer may already be in the page cache.
Kill(n, torn) ==
    /\ "kill" \in setup.crashes /\ pc # "down"
    /\ n \in written .. Len(log) /\ (torn => n < Len(log))
    /\ Survives(n, torn)
    /\ written' = Len(log')
    /\ Halt
    /\ UNCHANGED <<synced, snap, snapSafe, acked>>

\* Power loss: of what was not synced, any prefix may have reached the disk;
\* a rename whose directory was not synced may be undone.  It may also hit
\* when the process is already down.
PowerLoss(n, torn, s) ==
    /\ "power" \in setup.crashes
    /\ n \in synced .. Len(log) /\ (torn => n < Len(log))
    /\ Survives(n, torn)
    /\ written' = Len(log') /\ synced' = Len(log')
    /\ s \in {snap, snapSafe} /\ snap' = s /\ snapSafe' = s
    /\ Halt
    /\ UNCHANGED acked

\* Drop of an idle shard: best-effort flush, then the process ends.
Shutdown ==
    /\ pc = "idle"
    /\ Flush
    /\ Halt
    /\ UNCHANGED <<log, snap, snapSafe, acked>>

\* A stored frame rots while the shard is down: its CRC check will fail.
\* Versions that only the rotten frame or those after it held are gone, so
\* nothing is promised about them any more.
BitRot(i) ==
    /\ "bitrot" \in setup.faults /\ pc = "down"
    /\ i \in DOMAIN log /\ log[i].intact
    /\ log' = [log EXCEPT ![i] = Torn(@)]
    /\ acked' = [k \in Keys |-> LET v == Recovered(snap, log')[k]
                                IN  IF acked[k].hlc <= v.hlc THEN acked[k] ELSE v]
    /\ UNCHANGED <<pc, op, mem, written, synced, len, dirty, snap, snapSafe, lastSnap>>

\* Mutant: the marks of the file before its truncation are kept.
OpenStaleMarks ==
    /\ pc = "down"
    /\ log' = IntactPrefix(log)
    /\ mem' = Replay(snap, log')
    /\ len' = EndOffset(log')
    /\ dirty' = FALSE
    /\ lastSnap' = snap.off
    /\ pc' = "idle"
    /\ UNCHANGED <<op, written, synced, snap, snapSafe, acked>>

\* Shard::open: load the snapshot, recover the WAL (truncating it, and only
\* then syncing it), replay beyond the snapshot's offset, open for appending.
Open ==
    /\ pc = "down"
    /\ log' = IntactPrefix(log)
    /\ written' = Len(log')
    /\ synced' = IF Len(log') < Len(log) THEN Len(log') ELSE synced
    /\ mem' = Replay(snap, log')
    /\ len' = EndOffset(log')
    /\ dirty' = FALSE
    /\ lastSnap' = snap.off
    /\ pc' = "idle"
    /\ UNCHANGED <<op, snap, snapSafe, acked>>

-----------------------------------------------------------------------------
Write == \E k \in setup.keys, h \in 1 .. MaxHlc :
            \/ WriteStale(k, h)
            \/ \E v \in Payloads : WriteAppend(k, h, v) \/ AppendFails(k, h, v)

Crash == \E n \in 0 .. Len(log), torn \in BOOLEAN :
            \/ Kill(n, torn)
            \/ \E s \in {snap, snapSafe} : PowerLoss(n, torn, s)

Next == /\ \/ Write
           \/ WriteFlush \/ WriteApply
           \/ SnapshotNow \/ SnapFlush \/ SnapRename \/ SnapSync
           \/ FlushNow
           \/ FlushFails \/ SnapshotFails
           \/ Crash \/ Shutdown
           \/ \E i \in DOMAIN log : BitRot(i)
           \/ Open
        /\ UNCHANGED setup

Spec == Init /\ [][Next]_vars

-----------------------------------------------------------------------------
TypeOK ==
    /\ setup \in Setups
    /\ pc \in {"down", "idle", "flush", "apply", "snapflush", "snapwrite", "snapsync"}
    /\ op \in Frame \cup {NoOp}
    /\ mem \in [Keys -> Version]
    /\ log \in Seq(Frame) /\ Len(log) <= setup.maxLog
    /\ written \in 0 .. Len(log) /\ synced \in 0 .. written
    /\ len \in Nat /\ dirty \in BOOLEAN
    /\ snap \in Snapshots /\ snapSafe \in Snapshots /\ lastSnap \in Nat
    /\ acked \in [Keys -> Version]

\* The setups in which a crash takes back nothing that was synced or read back:
\* fsync on every append, failing frames and rotten bits excluded, and either
\* kills or power losses, not a power loss after a kill.
Lossless ==
    /\ ~setup.batch /\ setup.crashes # CrashKinds
    /\ setup.faults \cap {"frame", "bitrot"} = {}

\* Failures may hit, but no append fails half way.
WholeAppends == setup.faults \cap {"frame", "flush", "bitrot"} = {}

\* No acknowledged write is lost: whenever the shard serves, each id is at the
\* version it was last acknowledged at, or at a newer one, through any number
\* of crashes, failed flushes, failed snapshots and recoveries.
AckedDurable ==
    Lossless /\ pc # "down" =>
        \A k \in Keys : acked[k] = mem[k] \/ acked[k].hlc < mem[k].hlc

\* Reopening the shard would rebuild exactly the versions it is serving: the
\* WAL order, the snapshot's image and its byte offset agree, at every point
\* where no record is between its append and its apply.  (A power loss after a
\* kill may take frames that a snapshot covers: see SnapshotWithinStableWal.)
LiveIsReplay ==
    WholeAppends /\ setup.crashes # CrashKinds
        /\ pc \in {"idle", "snapflush", "snapwrite", "snapsync"}
        => Recovered(snap, log) = mem

\* A snapshot never claims WAL bytes that a power loss could still take: if it
\* did, frames appended later would land below its offset and be skipped.
SnapshotWithinStableWal ==
    WholeAppends /\ "kill" \notin setup.crashes =>
        \A s \in {snap, snapSafe} : s.off <= EndOffset(SubSeq(log, 1, synced))

\* While the shard is open, the version of an id never goes back and a version
\* is never exchanged for another with the same stamp, in every setup.
VersionsAdvance ==
    [][pc # "down" /\ pc' # "down" =>
          \A k \in Keys : mem'[k] = mem[k] \/ mem[k].hlc < mem'[k].hlc]_vars

\* The shard as a durable last-writer-wins map: what is durable is what open
\* would rebuild from the stable part of the WAL and the stable snapshot.  In
\* the setups that do not promise this the map is not used.
PromisesMap == Lossless /\ WholeAppends /\ "kill" \notin setup.crashes
Stable == IF PromisesMap THEN Recovered(snapSafe, SubSeq(log, 1, synced)) ELSE NoSnapshot.mem
Promised == IF PromisesMap THEN acked ELSE NoSnapshot.mem

DurableMap == INSTANCE DurableLww WITH store <- Stable, acked <- Promised

\* Every step of the shard is a step of the durable map, or leaves it alone.
ImplementsDurableMap == DurableMap!Spec
=============================================================================
