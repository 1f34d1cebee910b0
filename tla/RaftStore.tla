----------------------------- MODULE RaftStore -----------------------------
(***************************************************************************)
(* The durable storage of the metadata plane on one node:                  *)
(* qv-cluster/src/raft/store.rs.  Two stores, each behind its own lock,    *)
(* each one file that atomic_write replaces: "log" (LogStore: entries,     *)
(* purge mark, vote, committed index) and "sm" (StateMachineStore: applied *)
(* index and MetaState).                                                   *)
(*                                                                         *)
(* openraft drives both, from two tasks: it is external, and reduced to    *)
(* the calls it may make.  An entry is its term, `chosen' is the log that  *)
(* the cluster commits in the end, and a MetaState is the sequence of      *)
(* entries that were applied to it.                                        *)
(***************************************************************************)
EXTENDS Naturals, Sequences

CONSTANTS
    MaxTerm,        \* bound: terms
    MaxIndex,       \* bound: log indexes
    MaxCrashes,     \* bound: crashes
    MaxErrors,      \* bound: failed writes of a temporary file
    MaxDirErrors    \* bound: failed fsyncs of the directory

ASSUME LimitsAssumption ==
    /\ MaxTerm \in Nat \ {0} /\ MaxIndex \in Nat
    /\ MaxCrashes \in Nat /\ MaxErrors \in Nat /\ MaxDirErrors \in Nat

VARIABLES
    chosen,      \* external: the log the cluster commits
    mem,         \* file -> the store's image in memory
    seen,        \* file -> the image a read of the directory finds
    stable,      \* file -> the image that survives a power loss
    busy,        \* file -> "no", "temp" or "renamed": the write in progress
    snapshot,    \* index of the snapshot in memory, 0 when there is none
    promised,    \* history: file -> the image the last call reported written
    running,     \* does the Raft core run
    budget       \* numbers of crashes, write errors and directory errors so far

vars == <<chosen, mem, seen, stable, busy, snapshot, promised, running, budget>>
diskVars == <<seen, stable, promised, budget>>

-----------------------------------------------------------------------------
Files == {"log", "sm"}
Terms == 1 .. MaxTerm

\* LogDisk: entries[i] has index purged + i.
LogImage == [vote : 0 .. MaxTerm, purged : 0 .. MaxIndex, entries : Seq(Terms), committed : 0 .. MaxIndex]
\* SmDisk.
SmImage == [applied : 0 .. MaxIndex, state : Seq(Terms)]

NoLog == [vote |-> 0, purged |-> 0, entries |-> <<>>, committed |-> 0]
NoSm == [applied |-> 0, state |-> <<>>]
Blank == [f \in Files |-> IF f = "log" THEN NoLog ELSE NoSm]

\* get_log_state: the last index, the purge mark when there are no entries.
LastIndex(l) == l.purged + Len(l.entries)

\* An image and the chosen log agree up to index i.
Agrees(l, i) == \A j \in 1 .. i : j > l.purged => l.entries[j - l.purged] = chosen[j]

Init ==
    /\ chosen \in {c \in [1 .. MaxIndex -> Terms] : \A i \in 2 .. MaxIndex : c[i - 1] <= c[i]}
    /\ mem = Blank /\ seen = Blank /\ stable = Blank /\ promised = Blank
    /\ busy = [f \in Files |-> "no"]
    /\ snapshot = 0
    /\ running = TRUE
    /\ budget = [crashes |-> 0, errors |-> 0, dir |-> 0]

-----------------------------------------------------------------------------
(* persist: the image in memory is changed first, then atomic_write writes *)
(* a temporary file and fsyncs it, renames it, and fsyncs the directory.   *)

\* A call of openraft changes the image of f and starts to write it.
Begin(f, image) ==
    /\ running /\ busy[f] = "no"
    /\ mem' = [mem EXCEPT ![f] = image]
    /\ busy' = [busy EXCEPT ![f] = "temp"]
    /\ UNCHANGED <<chosen, running, diskVars>>

Rename(f) ==
    /\ busy[f] = "temp"
    /\ seen' = [seen EXCEPT ![f] = mem[f]]
    /\ busy' = [busy EXCEPT ![f] = "renamed"]
    /\ UNCHANGED <<chosen, mem, stable, snapshot, promised, running, budget>>

\* Mutant: the call returns after the rename, without the directory's fsync.
SyncDirSkipped(f) ==
    /\ busy[f] = "renamed"
    /\ promised' = [promised EXCEPT ![f] = mem[f]]
    /\ busy' = [busy EXCEPT ![f] = "no"]
    /\ UNCHANGED <<chosen, mem, seen, stable, snapshot, running, budget>>

\* The directory holds both files: its fsync makes both renames stable.
SyncDir(f) ==
    /\ busy[f] = "renamed"
    /\ stable' = seen
    /\ promised' = [promised EXCEPT ![f] = mem[f]]
    /\ busy' = [busy EXCEPT ![f] = "no"]
    /\ UNCHANGED <<chosen, mem, seen, snapshot, running, budget>>

\* An error of that fsync is dropped.
SyncDirFails(f) ==
    /\ busy[f] = "renamed" /\ budget.dir < MaxDirErrors
    /\ budget' = [budget EXCEPT !.dir = @ + 1]
    /\ promised' = [promised EXCEPT ![f] = mem[f]]
    /\ busy' = [busy EXCEPT ![f] = "no"]
    /\ UNCHANGED <<chosen, mem, seen, stable, snapshot, running>>

\* An error before the rename is a StorageError: openraft shuts its core down.
PersistFails(f) ==
    /\ busy[f] = "temp" /\ budget.errors < MaxErrors
    /\ budget' = [budget EXCEPT !.errors = @ + 1]
    /\ busy' = [busy EXCEPT ![f] = "no"]
    /\ running' = FALSE
    /\ UNCHANGED <<chosen, mem, seen, stable, snapshot, promised>>

-----------------------------------------------------------------------------
(* RaftLogStorage, and when openraft calls it.                             *)

SaveVote(t) ==
    /\ t > mem["log"].vote
    /\ Begin("log", [mem["log"] EXCEPT !.vote = t])
    /\ UNCHANGED snapshot

AppendEntry(t) ==
    /\ LastIndex(mem["log"]) < MaxIndex /\ t <= mem["log"].vote
    /\ Begin("log", [mem["log"] EXCEPT !.entries = Append(@, t)])
    /\ UNCHANGED snapshot

\* What is left when the entries from index i on are removed.
TruncateFrom(l, i) == [l EXCEPT !.entries = SubSeq(@, 1, i - 1 - l.purged)]

\* Conflicting entries, which are never committed ones, are removed, and the
\* leader's entry at that index is appended in a call of its own.
Truncate(i) ==
    /\ i \in mem["log"].committed + 1 .. LastIndex(mem["log"]) /\ i > mem["log"].purged
    /\ Begin("log", TruncateFrom(mem["log"], i))
    /\ UNCHANGED snapshot

\* The leader says that the log is committed up to i.
SaveCommitted(i) ==
    /\ i \in mem["log"].committed + 1 .. LastIndex(mem["log"]) /\ Agrees(mem["log"], i)
    /\ Begin("log", [mem["log"] EXCEPT !.committed = i])
    /\ UNCHANGED snapshot

\* Mutant: the entry at the index is purged from memory, the mark is one ahead.
PurgeOneMore(l, i) ==
    [l EXCEPT !.purged = i + 1,
              !.entries = IF i + 1 >= LastIndex(l) THEN <<>>
                          ELSE SubSeq(@, i + 2 - l.purged, Len(@))]

\* What is left when the entries up to index i are purged.
PurgeUpTo(l, i) ==
    [l EXCEPT !.purged = i,
              !.entries = IF i >= LastIndex(l) THEN <<>> ELSE SubSeq(@, i + 1 - l.purged, Len(@))]

\* Only what a snapshot covers is purged.
Purge(i) ==
    /\ i \in mem["log"].purged + 1 .. snapshot
    /\ Begin("log", PurgeUpTo(mem["log"], i))
    /\ UNCHANGED snapshot

-----------------------------------------------------------------------------
(* RaftStateMachine.                                                       *)

\* Mutant: a batch is applied again from its first entry.
ApplyEntriesTwice(sm, es) == [applied |-> sm.applied + Len(es), state |-> sm.state \o es \o es]

ApplyEntries(sm, es) == [applied |-> sm.applied + Len(es), state |-> sm.state \o es]

\* The next committed entries up to index i, in one batch and one write.  After
\* a restart this begins where the recovered image ends.
Apply(i) ==
    /\ i \in mem["sm"].applied + 1 .. mem["log"].committed
    /\ mem["sm"].applied >= mem["log"].purged
    /\ Begin("sm", ApplyEntries(mem["sm"], SubSeq(mem["log"].entries,
                mem["sm"].applied + 1 - mem["log"].purged, i - mem["log"].purged)))
    /\ UNCHANGED snapshot

\* build_snapshot, and the end of install_snapshot: the image becomes the
\* current snapshot, which is kept in memory only.
BuildSnapshot ==
    /\ running /\ busy["sm"] = "no" /\ mem["sm"].applied > snapshot
    /\ snapshot' = mem["sm"].applied
    /\ UNCHANGED <<chosen, mem, busy, running, diskVars>>

\* A snapshot from the leader, at index i of the chosen log.
InstallSnapshot(i) ==
    /\ i \in mem["sm"].applied + 1 .. MaxIndex
    /\ Begin("sm", [applied |-> i, state |-> SubSeq(chosen, 1, i)])
    /\ UNCHANGED snapshot

-----------------------------------------------------------------------------
\* The node goes down and LogStore::open and StateMachineStore::open read what
\* is left: for each file the renamed image or the stable one.
Crash(kept) ==
    /\ budget.crashes < MaxCrashes
    /\ budget' = [budget EXCEPT !.crashes = @ + 1]
    /\ mem' = [f \in Files |-> IF f \in kept THEN seen[f] ELSE stable[f]]
    /\ seen' = mem' /\ stable' = mem' /\ promised' = mem'
    /\ busy' = [f \in Files |-> "no"]
    /\ snapshot' = mem'["sm"].applied
    /\ running' = TRUE
    /\ UNCHANGED chosen

LogCall == \/ \E t \in Terms : SaveVote(t) \/ AppendEntry(t)
           \/ \E i \in 1 .. MaxIndex : Truncate(i) \/ SaveCommitted(i) \/ Purge(i)

SmCall == \/ \E i \in 1 .. MaxIndex : Apply(i) \/ InstallSnapshot(i)
          \/ BuildSnapshot

Next == \/ LogCall \/ SmCall
        \/ \E f \in Files : Rename(f) \/ SyncDir(f) \/ SyncDirFails(f) \/ PersistFails(f)
        \/ \E kept \in SUBSET Files : Crash(kept)

Spec == Init /\ [][Next]_vars

-----------------------------------------------------------------------------
TypeOK ==
    /\ chosen \in [1 .. MaxIndex -> Terms]
    /\ \A img \in {mem, seen, stable, promised} :
        img["log"] \in LogImage /\ img["sm"] \in SmImage
    /\ busy \in [Files -> {"no", "temp", "renamed"}]
    /\ snapshot \in 0 .. MaxIndex /\ running \in BOOLEAN
    /\ budget \in [crashes : 0 .. MaxCrashes, errors : 0 .. MaxErrors, dir : 0 .. MaxDirErrors]

\* As long as no fsync of the directory has failed, a crash brings back, for each
\* file, what the last completed call wrote or what the call in progress was
\* writing, never anything older or in between: a vote that was granted, an
\* entry whose flush was signalled and an applied state are not forgotten.
CallsAreDurable ==
    budget.dir = 0 =>
        \A f \in Files : {seen[f], stable[f]} \subseteq {promised[f], mem[f]}

\* Then, whichever image of each file a crash leaves, the applied state reaches
\* at least to the purge mark of the log: the entries that have to be applied
\* again are there, and the node recovers without a peer.
NoHole ==
    budget.dir = 0 =>
        \A l \in {seen["log"], stable["log"]}, sm \in {seen["sm"], stable["sm"]} :
            sm.applied >= l.purged

\* The metadata is the committed requests in order, each applied once, in
\* memory and in every image a crash may leave: a restart between an apply
\* and the log's own writes repeats nothing and skips nothing, even when a
\* directory's fsync failed and an older file comes back.
AppliedIsChosen ==
    \A sm \in {mem["sm"], seen["sm"], stable["sm"]} :
        sm.state = SubSeq(chosen, 1, sm.applied)
=============================================================================
