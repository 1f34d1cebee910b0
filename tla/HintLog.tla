------------------------------ MODULE HintLog ------------------------------
(***************************************************************************)
(* The durable hint log of one node: HintLog of qv-storage/src/hints.rs    *)
(* and the calls NodeState makes on it under its hint lock                 *)
(* (buffer_hint, read_all_hints, rewrite_hints), down to frames, fsyncs    *)
(* and crashes.  Module Replication treats the log as a set; this module   *)
(* looks at how the file keeps it.                                         *)
(*                                                                         *)
(* The file is a sequence of frames.  Those beyond `synced' were handed to *)
(* the writer and not yet fsynced: a crash keeps any prefix of them, and   *)
(* perhaps a piece of the next one.  The removal of the file is taken to   *)
(* be durable at once, and so is its creation with its first fsync.        *)
(***************************************************************************)
EXTENDS Naturals, Sequences, FiniteSets, SequencesExt

CONSTANTS
    Hints,        \* the hints that coordinators on this node buffer
    None,         \* no hint
    MaxFrames,    \* bound: frames in the file at once
    MaxPasses,    \* bound: replay passes
    MaxFailures   \* bound: crashes and failed appends

ASSUME HintsAssumption == None \notin Hints
ASSUME LimitsAssumption == MaxFrames \in Nat /\ MaxPasses \in Nat /\ MaxFailures \in Nat

VARIABLES
    pc,        \* who holds the hint lock: "free", "append", "rewrite", "reappend"
    cur,       \* the hint whose append waits for its fsync
    file,      \* the frames of the hint file, not yet fsynced ones included
    synced,    \* frames on stable storage
    passing,   \* is a pass of replay_hints under way
    taken,     \* what the pass read and has not tried to push yet
    keep,      \* what it could not push, then what rewrite_hints has still to append
    owed,      \* history: hints buffered successfully and not yet delivered
    late,      \* history: hints buffered while a pass was under way
    fresh,     \* history: hints whose append returned since the file was created
    passes,    \* number of passes so far
    failures   \* number of crashes and failed appends so far

vars == <<pc, cur, file, synced, passing, taken, keep, owed, late, fresh, passes, failures>>

-----------------------------------------------------------------------------
\* A frame; `intact' is what the length, CRC and decode checks find.
Frame == [hint : Hints, intact : BOOLEAN]
Encoded(h) == [hint |-> h, intact |-> TRUE]
Torn(h) == [hint |-> h, intact |-> FALSE]

\* read_all: the hints before the first frame that is torn, fails its CRC or
\* does not decode.  Unlike Wal::recover, nothing truncates the file there.
ReadAll(frames) ==
    LET good == {i \in DOMAIN frames : \A j \in 1 .. i : frames[j].intact}
    IN  [i \in 1 .. Cardinality(good) |-> frames[i].hint]

Init ==
    /\ pc = "free" /\ cur = None
    /\ file = <<>> /\ synced = 0
    /\ passing = FALSE /\ taken = <<>> /\ keep = <<>>
    /\ owed = {} /\ late = {} /\ fresh = {}
    /\ passes = 0 /\ failures = 0

-----------------------------------------------------------------------------
(* buffer_hint: open, append, fsync, under the lock.                       *)

\* Mutant: the bytes are handed to the file and never fsynced.
FlushNoSync == UNCHANGED synced

\* HintLog::flush.
Flush == synced' = Len(file)

BufferHint(h) ==
    /\ pc = "free" /\ Len(file) < MaxFrames
    /\ h \notin owed
    /\ file' = Append(file, Encoded(h))
    /\ cur' = h
    /\ pc' = "append"
    /\ UNCHANGED <<synced, passing, taken, keep, owed, late, fresh, passes, failures>>

BufferHintDone ==
    /\ pc = "append"
    /\ Flush
    /\ owed' = owed \cup {cur} /\ fresh' = fresh \cup {cur}
    /\ late' = IF passing THEN late \cup {cur} ELSE late \ {cur}
    /\ cur' = None
    /\ pc' = "free"
    /\ UNCHANGED <<file, passing, taken, keep, passes, failures>>

\* The write or the fsync of a hint fails: nothing, a piece or all of its frame
\* has reached the file and stays there, the caller gets an error.  In
\* rewrite_hints the error leaves the hints after it unwritten.
AppendFails(left) ==
    /\ pc \in {"append", "reappend"} /\ failures < MaxFailures
    /\ failures' = failures + 1
    /\ file' = Front(file) \o left
    /\ cur' = None
    /\ keep' = IF pc = "reappend" THEN <<>> ELSE keep
    /\ pc' = "free"
    /\ UNCHANGED <<synced, passing, taken, owed, late, fresh, passes>>

-----------------------------------------------------------------------------
(* A pass of replay_hints: read under the lock, push one hint after the    *)
(* other without it, rewrite under the lock.                               *)

StartPass ==
    /\ pc = "free" /\ ~passing /\ passes < MaxPasses
    /\ ReadAll(file) # <<>>
    /\ taken' = ReadAll(file)
    /\ passing' = TRUE
    /\ passes' = passes + 1
    /\ UNCHANGED <<pc, cur, file, synced, keep, owed, late, fresh, failures>>

\* The target has the hinted write.
PushHint ==
    /\ taken # <<>>
    /\ owed' = owed \ {Head(taken)}
    /\ taken' = Tail(taken)
    /\ UNCHANGED <<pc, cur, file, synced, passing, keep, late, fresh, passes, failures>>

\* Its address is unknown, or the push fails.
PushHintFails ==
    /\ taken # <<>>
    /\ keep' = Append(keep, Head(taken))
    /\ taken' = Tail(taken)
    /\ UNCHANGED <<pc, cur, file, synced, passing, owed, late, fresh, passes, failures>>

\* HintLog::clear: the file is removed.
Clear == file' = <<>> /\ synced' = 0

RewriteHints ==
    /\ pc = "free" /\ passing /\ taken = <<>>
    /\ Clear
    /\ fresh' = {}
    /\ passing' = FALSE
    /\ pc' = IF keep = <<>> THEN "free" ELSE "rewrite"
    /\ UNCHANGED <<cur, taken, keep, owed, late, passes, failures>>

\* The file cannot be removed: rewrite_hints and the pass end with the error.
ClearFails ==
    /\ pc = "free" /\ passing /\ taken = <<>> /\ failures < MaxFailures
    /\ failures' = failures + 1
    /\ passing' = FALSE /\ keep' = <<>>
    /\ UNCHANGED <<pc, cur, file, synced, taken, owed, late, fresh, passes>>

\* Mutant: the last of the kept hints is appended in place of each.
ReappendSkips ==
    /\ pc = "rewrite"
    /\ file' = Append(file, Encoded(Last(keep)))
    /\ cur' = Last(keep)
    /\ pc' = "reappend"
    /\ UNCHANGED <<synced, passing, taken, keep, owed, late, fresh, passes, failures>>

Reappend ==
    /\ pc = "rewrite"
    /\ file' = Append(file, Encoded(Head(keep)))
    /\ cur' = Head(keep)
    /\ pc' = "reappend"
    /\ UNCHANGED <<synced, passing, taken, keep, owed, late, fresh, passes, failures>>

ReappendDone ==
    /\ pc = "reappend"
    /\ Flush
    /\ fresh' = fresh \cup {cur}
    /\ cur' = None
    /\ keep' = Tail(keep)
    /\ pc' = IF keep' = <<>> THEN "free" ELSE "rewrite"
    /\ UNCHANGED <<file, passing, taken, owed, late, passes, failures>>

-----------------------------------------------------------------------------
\* The process ends and starts again.  Nothing looks at the hint file then:
\* the next call opens it for appending, as it is.
Crash(n, torn) ==
    /\ failures < MaxFailures
    /\ failures' = failures + 1
    /\ n \in synced .. Len(file) /\ (torn => n < Len(file))
    /\ file' = SubSeq(file, 1, n) \o (IF torn THEN <<Torn(file[n + 1].hint)>> ELSE <<>>)
    /\ synced' = Len(file')
    /\ pc' = "free" /\ cur' = None
    /\ passing' = FALSE /\ taken' = <<>> /\ keep' = <<>>
    /\ UNCHANGED <<owed, late, fresh, passes>>

Next == \/ \E h \in Hints : BufferHint(h)
        \/ BufferHintDone
        \/ \E left \in {<<>>, <<Torn(cur)>>, <<Encoded(cur)>>} : AppendFails(left)
        \/ StartPass \/ PushHint \/ PushHintFails \/ RewriteHints \/ ClearFails
        \/ Reappend \/ ReappendDone
        \/ \E n \in 0 .. Len(file), torn \in BOOLEAN : Crash(n, torn)

Spec == Init /\ [][Next]_vars

-----------------------------------------------------------------------------
TypeOK ==
    /\ pc \in {"free", "append", "rewrite", "reappend"}
    /\ cur \in Hints \cup {None}
    /\ file \in Seq(Frame) /\ Len(file) <= MaxFrames
    /\ synced \in 0 .. Len(file)
    /\ passing \in BOOLEAN /\ taken \in Seq(Hints) /\ keep \in Seq(Hints)
    /\ owed \subseteq Hints /\ late \subseteq Hints /\ fresh \subseteq Hints
    /\ passes \in 0 .. MaxPasses /\ failures \in 0 .. MaxFailures

\* Once append has returned, the hint's frame is in the stable part of the
\* file, whole, for as long as that file exists: through crashes at any point
\* of later appends, failed appends and re-appends of kept hints.
AckedOnDisk ==
    \A h \in fresh : \E i \in 1 .. synced : file[i] = Encoded(h)

\* Without crashes and I/O errors, reading the file yields every hint that was
\* buffered between passes and not delivered, through partial replays and the
\* rewrites that end them; only from the removal of the file to its append does a
\* rewrite alone have a kept hint.  Hints buffered during a pass are left out: the
\* rewrite wipes them (AckedOrHinted of Replication).
OwedIsReadable ==
    failures = 0 =>
        owed \ late \subseteq
            Range(ReadAll(file)) \cup (IF pc \in {"rewrite", "reappend"} THEN Range(keep) ELSE {})
=============================================================================
