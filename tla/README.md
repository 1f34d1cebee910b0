# Verification of quorvec

quorvec is a distributed vector database: a Raft metadata plane (openraft) that
decides topology and schemas, and a leaderless, Dynamo-style data plane in which
any node coordinates quorum reads and writes of points that are versioned by a
hybrid logical clock and merged by last-writer-wins. This directory holds TLA+
models of its core, TLC configurations that check them on small instances, and
proofs that TLAPS checks for every size.

Paths below are relative to `src/crates/`.

## 1. The system

| Component | State | Operations | Hard about it |
|---|---|---|---|
| HLC (`qv-storage/src/hlc.rs`) | `last` behind a mutex | `now`, `update` | wall clock moves both ways, the 16-bit counter fills up, restart forgets |
| Shard (`qv-storage/src/{shard,wal,snapshot}.rs`) | WAL file, snapshot file, versions, index | versioned upsert / delete, snapshot, flush, open | crash between any two disk steps, partial I/O errors, byte offsets tying snapshot and WAL |
| Hint log (`qv-storage/src/hints.rs`, `qv-node/src/node_state.rs`) | one append-only file behind a lock | append, read all, clear, rewrite | torn frames, non-atomic rewrite |
| Router (`qv-node/src/router.rs`) | requests in progress, hint replay pass | coordinate upsert / delete / get / search, read repair, hint replay | any interleaving at every await, timeouts whose request still lands, coordinator crashes, stamp ties |
| Placement (`qv-cluster/src/placement.rs`) | none (a function of the membership) | ring, replicas of a shard | wrap, collisions, fewer nodes than replicas |
| Metadata (`qv-cluster/src/meta.rs`, `manager.rs`) | node directory, collections, shard-state overrides; openraft's membership | requests committed through Raft; bootstrap, join, leave as scripts of awaited steps | a call cut between two steps, a new leader, overlapping calls, requests that come late, views that lag |
| Raft storage (`qv-cluster/src/raft/store.rs`) | a log file and a state machine file | vote, append, truncate, purge, commit, apply, snapshot | crash between the two files, rename versus directory fsync |
| Rebalance (`qv-node/src/rebalance.rs`) | per node: a reconcile pass | acquire (mark Syncing, pull, mark Active), release | several nodes, lagging metadata, live traffic, restarts, lost commit answers |
| ShardStore (`qv-node/src/shards.rs`) | map of open shards behind a lock, handles in threads | get or open, drop of a shard or a collection | handles that outlive the map, two of them on one WAL, files that outlive the collection |
| Indexes (`qv-hnsw`) | layered proximity graph with tombstones; exact slot table | insert, replace, delete, search | one-way edges after pruning, tombstones in the breadth, random levels |
| Search (`router.rs`) | one search over all shards | order replicas, ask one per shard, merge | failing replicas, writes between two shards |

Interaction: a client calls any node; its service calls the router, which stamps
with the HLC, asks the node's applied `MetaState` for the replicas
(placement), and calls each replica's internal service, which moves its own
clock and writes its shard. Missed replicas get a hint in the coordinator's
log, replayed by a background loop. A second loop reconciles the shards a node
holds with the ones the metadata assigns to it, by pulling records from another
replica and by committing shard-state changes through Raft.

What makes each part correct: clocks dominate what they saw and stamp above it;
an acknowledged version survives and recovery rebuilds what was served; an
acknowledged write stays at its quorum and overlapping reads see it; no path
mixes the value of one write with the stamp of another or moves a replica back;
hints reach their targets; a membership change moves few replicas and loses
nothing acknowledged; the metadata is the committed log applied once; an admin
call that fails half-way leaves nothing that misroutes, and what a call reported
stays true; a shard serves and recovers what it acknowledged whichever handle
was used; a search returns live points, truly scored, from complete replicas
where there are any.

## 2. Modules

| Module | Models | Proofs |
|---|---|---|
| `Hlc` | timestamp type and clock | `HlcProofs` |
| `DurableLww` | abstract: a durable last-writer-wins map | |
| `ShardStorage` | shard, WAL, snapshot and recovery; implements `DurableLww` | `ShardStorageProofs` |
| `Replication` | quorum writes and reads, read repair, hinted handoff over replicas that are durable LWW maps | `ReplicationProofs` |
| `HintLog` | the hint file, which `Replication` takes as a set | `HintLogProofs` |
| `Placement` | operators: the ring and its walk | `MetaPlaneProofs` |
| `Rebalance` | metadata views, reconcile passes, transfers, client traffic on one shard | `RebalanceProofs` |
| `RaftStore` | the two files of the metadata plane | `RaftStoreProofs` |
| `ShardStore` | the shard map of a node, its handles and the files they share | `MetaPlaneProofs` |
| `MetaPlane` | composes `Placement` and `ShardStore`: metadata state machine, admin calls, openraft's membership, collections | `MetaPlaneProofs` |
| `Distance`, `HnswGraph`, `BruteForceIndex` | operators: the metric and the two vector indexes as values | `VectorSearchProofs` |
| `VectorSearch` | composes them: replicas that are written, and the search over all shards | `VectorSearchProofs` |

`MC*` modules and `.cfg` files instantiate them. `TypeOK` of `Hlc`, `HintLog`,
`Rebalance` and `RaftStore` is proved for every instance; the configurations of those runs
leave it out, and that of `Replication` is checked in `requests_end` alone. Operators marked *Mutant* are
plausible bugs; replacing the definition after them by the mutant must break a
property.

**Hlc.** Variables: `last` and two histories (stamps seen, last call). The
mutex makes a call one step; the wall clock is an input of each call. The end of
the 48-bit epoch is excluded from `now`.

**ShardStorage.** The shard runs one call at a time, so the steps are the disk
steps of a call, and the interleaving is with failures. The WAL is a sequence of
frames with marks for what the OS holds and what is synced. A frame has size 1
(delete) or 2 (upsert), which is what makes byte offsets interesting. `setup`
fixes per behaviour the mode (fsync or batch) and which crashes and errors may
happen, so one run looks at several environments and each property states the
ones it holds in. Assumed: an fsync of a new file also persists its directory
entry; a rename that was never synced and is overwritten by a later rename
leaves either the synced or the newest file. A snapshot that fails at its flush or before
its rename is one step, `SnapshotFails`; what was applied stays applied.

**Replication.** One point id: conflict resolution is per id. Every await of the
router is a step boundary. A stamp is a number and `now` returns any stamp above
the clock. A write stands for its value. A batch of points is one write per
point; payload bytes, which repair and transfer drop, are not modelled. Replica
contact is in ring order, by node number. Late messages are writes whose sender
timed out. Receiving a stamp takes the clock one beyond it and itself, up to the bound
`MaxHlc`; a coordinator writes its own shard without looking at the clock again
(`WriteAck`). The nodes in `FaultyDisks` may meet an I/O error: in the coordinator's own
shard, before or after the record is applied (`LocalWriteFails`), when a hint is buffered
(`BufferHintFails`), when the rewrite of the hint log cannot remove it, which leaves it as it
was (`ClearFails`), or when it cannot write the kept hints back (`RewriteFails`): `?`
leaves `rewrite_hints` with the log gone, the node goes on, and the hints not yet written
are lost (`Lost`).

**HintLog.** Frames, the fsync mark, and the calls made under `hint_lock`. A replay
pass reads the log, pushes its hints one by one (`PushHint`, `PushHintFails`) while other
requests append, and rewrites the log with the ones that failed; `passing` is the
pass under way. Each append may fail, in `buffer_hint` and in the rewrite
(`AppendFails`), and so may the removal of the file (`ClearFails`).
The removal of the file is taken as durable.

**Placement.** XXH64 is arbitrary: TLC takes every assignment of vnodes to
positions. The ring is the vnodes by their rank in the order `Ring::new` sorts by.
`WalkFollowsFixedOrder` says that the walk is the first RF members in
an order that does not depend on who else is a member; this is why `Rebalance`
may identify a node with its place on the walk. The members are the directory of
`MetaPlane`.

**Rebalance.** One shard, one point, versions numbered in HLC order, writes one
at a time, a read and its repair in one step. A node's `view` lags behind
`meta`; a pass reads the metadata once, which is the same as acting on an older
view. `Dead` is never written by the code and is left out. `count.of` is the
scenario: whether the operator waits for a change to settle, what goes wrong, and
bounds. Two histories state a premise: `count.before` is the membership before
the last change, `count.behind` says that some write was coordinated by a node further
behind than that. `Orderly`, the premise of `AckedReachable` and `ReadsSeeAcked`, is
that changes settle, that no coordinator was further behind, and that RF is above 1 and the
level above `ONE` (section 5 says what happens otherwise).

**RaftStore.** openraft is external and is reduced to the calls it may make. A
crash leaves, per file, the renamed or the last synced image; a directory fsync
covers both files. `build_snapshot` reads the state and publishes the snapshot in one step:
the code lets go of its lock in between, so that entries may be applied, or a snapshot
installed, before the older one is published.

**ShardStore.** One shard of one node, one point, several threads. `get_or_open`
is two steps because it takes the read lock and then the write lock; the rest of
a request runs under the shard's mutex and is one step. A handle keeps its own
length of the WAL and its own snapshot mark, as `Shard` does, and the files are
shared: that is what goes wrong when the map forgets a handle in use. Two histories say
so: `forgotten`, the handles that the map forgot, and `strayed`, that a request appended
through one of them. Frames have
size 1 and are on disk when an append returns. Vectors are their dimension.

**MetaPlane.** `meta` is the leader's applied state. An admin call is a script of
awaited steps (`Script`); each may be answered, fail, or be committed with a
failing answer, and is refused when the node that runs the call leads no more.
openraft is external: `Changed` is one step of `change_membership` (joint, then
uniform; with or without learners retained), `Elect` a new leader. A transfer
appears only through the two states it commits, at any time after it began. The
storage part follows one node; the collection's drop may be served by it or by
another, and only the serving node forgets its shards. A commit whose answer is
lost is the latter case too. `told` is what the last call about a node was
answered, `marred` which kinds of things went wrong, `left` the bounds.

**HnswGraph, BruteForceIndex.** Values and operators that follow the code
function by function: greedy descent, layer search with its two heaps, the
selection heuristic, linking back and pruning, replacement in place, tombstones.
Vectors are pairs of small integers under L2, so that arithmetic is exact; the
level of a new node is an argument; the order of equal distances in a heap's
contents, which the code does not fix, is the argument `rank`. The exact index is
the oracle the repository's own recall tests use.

**VectorSearch.** Every replica holds both indexes and is written on its own
(how writes get there is `Replication`). A search reads the metadata once,
which makes any set of replicas Syncing, asks the shards in turn, and merges. A
shard has at least one replica; the check of the query's dimension is left out.

## 3. Runs

| Run | Instance | Shows |
|---|---|---|
| `clock` | 3 walls, counter width 3 | domination, strict issue, order-preserving packing |
| `shard` | 2 ids (1 in the harshest setups), 2 stamps, 2-4 frames, 5 setups | which failures acknowledged versions survive; replay equals live state; snapshots within the stable WAL; refinement of `DurableLww` |
| `quorum` | 3 replicas, 2 coordinators, one with a failing disk, 2 writes, 1 read, QUORUM | acknowledged at quorum, read-your-writes |
| `hints` | 3 nodes, 2 replicas, 2 writes, 1 crash, 1 late message, replay, disk errors | a pass drops hints only in a rewrite that fails; replicas only advance, and only to what was written |
| `requests_end` | 2 nodes, 1 write, 1 read, 1 crash, disk errors | types; requests end, hints are delivered unless a failing rewrite lost them |
| `hint_race` | as `hints`, no crash | **violation**, see below |
| `hint_log` | 3 hints, 4 frames, 2 passes, 2 failures | acknowledged hints stay on disk; without failures those not buffered during a pass stay readable |
| `rebalance` | 4 nodes, RF 3, QUORUM, 3 scenarios | no copy goes back; orderly changes keep acknowledged data reachable, and any two of the three replicas a reader knows show it |
| `rebalance_ends` | 3 nodes, RF 2, 1 change, 1 failing pull | the rebalance finishes |
| `raft_store` | 3 indexes, 2 terms, 1 crash, 1 write error, 1 directory error | durable calls, no hole, applied once |
| `search` | graphs of 4 nodes on 2 layers with M = M0 = 2; 3 ids written 5 times; 2 shards, 2 + 1 replicas, 2 failing calls | layers and degrees of the graph, both indexes hold what was stored, broad searches are exact, narrow ones sound, the merge is the top k, Syncing replicas are a last resort |
| `metadata` | 3 nodes, RF 2; every ring of 2 vnodes on 4 positions; 5 calls with 2 faults from bootstrap on; 2 overlapping calls; 4 requests of 2 threads with a release and a restart, 3 with a drop and a creation | the walk and minimal movement; what a call reported stays true; voters have addresses; no orphan overrides; acknowledged writes are served, recovered, and the shard opens |

*Why the bounds are enough to be interesting.* Two stamps and two frames for one
id are what a stale or repeated record needs; with a threshold of 3 a snapshot
falls between frames of different size. Three replicas are the smallest set in
which a majority leaves one out; two writes make ties and overtaking possible,
the second coordinator concurrency between clocks. In `metadata` six vnodes on
four positions force collisions; the home at position 2 has vnodes before and
after it, so the walk wraps and does not; the vnodes of a node are taken in
ascending order, which the walk cannot tell. Five calls let a cluster of three
grow, shrink and try again after two failures; two threads and one more handle
are what a forgotten shard and its successor need. In `search` a list of two
overflows with the fourth node, two layers give a descent and a new entry point,
and of three ids one is live while two are tombstones. In `rebalance` three replicas make a
QUORUM a part of them, four nodes let a join displace one replica and keep two, the joining
node is the shard's new home, and a second change can remove a node that has just
transferred. Its scenarios are two changes that wait, without faults (`Calm`); one change that
waits with a missed write, a lost commit or a restart (`Careful`); one change at any time with
any of these or a failing pull, a delete and a read (`Rough`). To keep the instance small only
the node that joins and the node it displaces reconcile, in `Rough` only the former; the
proofs have no such restriction. Two terms and three indexes allow a conflicting suffix to be
truncated and a purge below the last entry.

*Symmetry.* Writes are interchangeable in `quorum` and `hints`, threads in
`metadata`; nodes are ordered, so they are not.

*Deadlock* is not checked where the system may come to rest once bounded inputs
are used up (`CHECK_DEADLOCK FALSE`); the clock and shard runs check it.

*Fairness.* `requests_end`: weak fairness on the steps of requests and of replay
passes (every RPC has a timeout, the replay loop ticks for ever) and on restarts;
strong fairness on pushing a hint, since a target that is up again and again and
a push that is tried again and again eventually meet. `rebalance_ends`: weak
fairness on applying committed entries, finishing writes and replaying hints;
strong fairness on a node's reconcile step, because the bound on the lag of views
(`MaxLag`) and `PromptApply` disable a step of the model that the code could
take. `PromptApply` says that a node applies the commits before its next pass:
the loop ticks every 500 ms and commits arrive with a 250 ms heartbeat; nothing
in the code waits for it, so safety runs do not assume it.

## 4. Proofs

Each theorem holds for every value of the constants that satisfies the named `ASSUME`s
of the module it extends. An invariant that a run checks has the form "in the
environments that ..., P"; its proof has the same premises and no more. Induction over
data is written out: a set of numbers has a least element (`LeastNat`), so a
recursive function (end offsets of frames, replay, recovery, the loops of the graph) is
followed to its first exception, and `FoldExists` and `IteratedExists` show that such a
function exists.

**HlcProofs**, from `WallAssumption` and `CounterAssumption` (both widths at least
1): `LastDominatesAlways`, `NowIsAboveObserved`, `PackStaysFaithful`. The inductive
invariant is `TypeOK /\ LastDominates`. Arithmetic lemmas bound the two clock calls
(`NowIncreases`, `UpdateDominates`), and transitivity of the order carries
earlier stamps along. `PackStaysFaithful` is about the 64-bit form on disk and in
messages: it orders stamps as the clock does and unpacks to what was packed.

**ReplicationProofs**, from the named assumptions of `Replication` (finite set of
numbered nodes, at least one replica): `TypeCorrect`, `ReplicasOnlyAdvance`,
`AckedStaysAtQuorum`, `OverlapReadsWrites` and its corollary
`QuorumReadsQuorumWrites`, `VersionsStayWrites`, `PassNeverDropsHints`.

- `AckedAtQuorum` is not inductive: it says nothing about writes still under way or
  about which replicas acknowledged. `IInv` adds: every acknowledging replica stores the
  stamp or a newer one (`AcksStored`, kept because replicas only advance); success means
  enough acknowledgements (`OkHasQuorum`); what a read must see was successful
  (`SeenAreOk`); and answers gathered from acknowledging replicas are fresh
  (`AnswersFresh`). When a read ends with `W + R > N`, the acknowledging and the
  answering replicas intersect (`QuorumsIntersect`, from the cardinality theorems),
  and the winner is at least as new as the answer of a common one. One lemma per
  request kind says what any step does to it (`WriteEffect`, `ReadEffect`), so the
  invariance argument is made once per effect.
- `VersionsAreWrites` (no path pairs one write's value with another's stamp) leaves out
  places a version passes through. `VInv` adds them: the hints a replay pass has still to
  push and each answer a read has gathered. It is kept because the stamp of a write
  never changes once given (`StampsFinal`).
- `PassKeepsHints` says that, on a node that stays up, no step but `RewriteFails` drops a
  hint the pass took before its target has it: not failing pushes, nor a log that cannot be
  removed, nor the hints buffered meanwhile. It needs `HInv`: while a pass pushes, it does not
  rely on the log but holds each hint it took, or the target is at its stamp; only after its
  rewrite began does the new log count too (`PassHolds`). The code does lose hints at `RewriteFails`, see section 5.

**ShardStorageProofs**, from the assumptions on bounds, setups and payloads:
`TypeCorrect`, `VersionsNeverGoBack`, `SnapshotsStayWithinStableWal`, `LiveStaysReplay`,
`AckedStaysDurable`, and `ShardImplementsDurableMap`, the refinement of `DurableLww`.
The invariant has one part per environment, each under a premise that the property's
premise implies. All speak of every image a crash may leave: each prefix of the frames
from the safe mark on (`Keeps`) with each snapshot (`Snaps`). `LogSteady`: only a crash
tears a frame, and only the last; the end offset is right; what is not dirty is safe; no
snapshot claims bytes beyond such a prefix. `AckSteady`: replaying any image covers what
was acknowledged, what is served and the record about to be stored. `LiveSteady`: when
every append goes through, replaying gives exactly what is served. `MapSteady`: when the
shard promises a map, only the frame of the call in progress is not synced, and without
it the log replays to what is served. The last one makes the refinement a case analysis:
every disk step is a step of `DurableLww` or a stutter.

**HintLogProofs**: `TypeCorrect`, `AckedStaysOnDisk`, `OwedStaysReadable`. The invariant is
type correctness with what the holder of the lock may rely on (`LockSteady`), `AckedOnDisk`
and `Unharmed`: without failures every frame is whole, a pass has taken all the hints that
were in the file when it began, and between passes the file has them. `OwedIsReadable` leaves
out the hints buffered during a pass (`late`), the ones of `hint_race`, and, between the
removal of the file and the append, those the rewrite has yet to write back.

**RebalanceProofs**, from the assumptions on nodes (a finite set of numbers), RF, level and
bounds: `TypeCorrect`; `DiskNeverGoesBack`: no transfer, write, repair or hint moves a copy to
an older version, whatever the views of the nodes are; `AckedStaysReachable` and
`QuorumReadsSeeAcked`, for any number of nodes, replicas and changes. Neither of the last two
is inductive. `RInv` adds that the members before the last change and the present ones are one
node apart (`MembersSteady`), that a member knows the collection or is about to (`ViewSteady`,
`KnownBefore`), that a write under way goes to the replicas of one of the two memberships and is
stored where it was acknowledged (`WriteSteady`), and, without faults, that a replica of both
memberships misses no write (`StayersSteady`). One change displaces at most one replica
(`JoinedWalk`, `WalksOverlap`), so with RF above 1 and a level above `ONE` enough of either set
of replicas meets the other (`EnoughMeets`, `EnoughMeetsOther`, by cardinalities), and what is
acknowledged at one membership is seen at the other; the next change waits until every replica
has it. `ReadsSeeAcked` is about every coordinator that knows the directory of now or of before
the last change, and every set of the replicas it computes that is enough for a read.

**RaftStoreProofs**: `TypeCorrect`, `AppliedStaysChosen`, `CallsStayDurable`, `NeverAHole`.
`SInv` says of the image in memory, the renamed and the synced one that a log's committed
prefix and a state machine's applied state are what the cluster chose. `DInv`, as long as
no directory fsync failed, says per file that the images differ at most by the call in
progress (`FileSteady`), and across files that the snapshot separates the purge marks of all log
images from the applied indexes of all state machine images (`SnapshotBetween`): whatever
pair a crash leaves, the log starts no later than where the state machine ends.

**MetaPlaneProofs** (with the shard map of `ShardStore`): `TypeCorrect`, `AnswersStayTrue`,
`VotersStayRoutable`, `NoOverrideOrphaned`, `AckedStaysServed`, `AlwaysReopens`,
`AckedStaysRecoverable`, and of the ring `PlacementFollowsFixedOrder`. The variables fall into two halves that share only the
collection's state.

- `AdminInv`: as long as no two calls overlapped, what a call may rely on at each step of
  its script (`JoinSteady`: a joining node is in the directory from the second step on and
  in the goal it read; `LeaveSteady`: a leaving node is not in the goal, and is gone from
  the membership before the last step; `GoalSteady`: the goal still has every node that
  was told it is in), together with `AnswersHold` and `VotersRoutable`, which need each
  other. A failing answer is what makes this longer than the happy path: the step may or
  may not have been committed, and the next call starts from either.
- `StoreInv`: each request holds the handle in the map or a forgotten one, and until one
  appends through the latter (`strayed`) the handle in the map has every acknowledged write
  and none in use is ahead of it (`Served`); a new handle gets there because what is
  acknowledged, and what any handle has, can be recovered; each version that was acknowledged, or that a handle
  would acknowledge, is backed by the snapshot or by a frame after its offset
  (`AllBacked`); and as long as the dimension was never changed, all files, handles and
  requests have the same one (`OneDim`). Recovery is a recursive function over the
  frames; `RecoveredIs` and `RecoveredCovers` say what it returns. That a thread finds an
  unused handle number is a pigeonhole argument (`UnusedIsFree`).
- `PlacementFollowsFixedOrder` needs no strengthening of the state (position and home never
  change) but facts about the algorithm: the ranks of a finite strict total order are a
  bijection (`RankOrders`, `RankOnto`), so the ring is sorted (`RingIs`); the start is where
  `partition_point` puts it (`StartIs`), and from there the ring is met by
  distance from the home (`WalkIsClockwise`), wrap and collisions included; a walk that stops
  when it has enough keeps, at each step, the first nodes of the fixed order among those met
  (`WalkOK`, kept by `VisitKeeps`). From `NodesAssumption`: node ids are finitely many
  numbers (`u64` in the code).

**VectorSearchProofs**, from `ParamsAssumption` (M >= 2, M0 >= M, a breadth of at least
1), `SetupsAssumption` (an id belongs to one shard, as `shard_for_id` makes it) and
`RanksAssumption` (an order among equal distances tells the nodes apart). Vectors are
points of the plane, as in the model; which vectors and levels are drawn, and the order in
which a search meets equals, are arbitrary. The loops of the graph are `Iterated`;
`IteratedStays` carries an invariant through them.

- `SyncingStaysLastResort` (`SearchInv`): of the shard being asked, every replica before
  the next one to ask has failed; the order, as sorted (`OrderedIs`), has the Active ones first.
- `IndexesHoldWhatWasStored` (`StoreInv`): each id that was ever stored has one node, live
  or a tombstone (`GraphHolds`); at most one slot, every other slot is on the free list
  once, and the counts are those of the stored points (`TableHolds`).
- `GraphStaysLayered` (`LayerInv`): there are levels `lev` such that node n has exactly the
  lists 0 .. lev[n], each within its bound and leading to other nodes of that layer, and
  the entry point has the highest (`Layered`). A layer search meets only nodes of its layer
  if it starts at one (`SearchLayerStays`), which the descent from the entry
  point provides (`DescendStays`); so the selection, and the lists it
  is written to, stay within the layer (`SelectStays`, `ConnectLayerStays`, `WireStays`).
- `SearchesAreSound` and `BroadSearchesAreExact` (`ThreadInv`): while no edge was lost,
  every node but the first has an earlier one to which it is linked both ways (`Threaded`).
  That is kept because selection never returns an empty list, and `insert_new` links back.
  From it every set closed under the lists of layer 0 is the whole graph (`ThreadedJoins`).
  A layer search that stops with room left has expanded all it visited (`Explores`), hence
  visited everything (`SearchLayerFills`). `SearchIs` puts this
  together with the sort, the tombstones and the cut; `BruteSearchIs` says the oracle sorts
  the same points.
- `MergeGivesTheBest` (`GatherInv`): during the search, each hit left out of the answers so
  far has k others in them that are as good (`Covers`). The answer of one shard has this
  (`AnswerOfShard`), two shards that have it have it together (`CoversBoth`; their hits are disjoint because
  their ids are), and it is enough for the k best scores of the part to be those of the
  whole (`TopOfPart`). Writes between the shards do not touch what was gathered.

**Only model-checked.**

- All liveness (`requests_end`, `rebalance_ends`): out of the prover's reach.
- `hint_race` is a counterexample.

## 5. Statements of the repository that the code does not keep

One is a run:

- `hint_race`: `replay_hints` (`qv-node/src/router.rs:799`) reads the log, pushes
  without the lock, then rewrites the log from that copy (`:840`). A hint
  buffered in between is wiped although the write was acknowledged.
  `docs/consistency.md:45`: "A hint is durable before the write is acked, so an
  acked write at the chosen W is never silently lost".

Others show up as the premises of the properties; removing a premise, or adding
the environment to a `.cfg`, gives TLC's counterexample:

- `AckedDurable` needs `Lossless`. *Kill, then power loss*: `Shard::open` serves
  frames that a killed process left unsynced, and a re-sent write is acknowledged
  on them as stale. *Partial frame* (`wal.rs:176`): frames acknowledged after a
  half-written one are truncated with it at the next open. *Bit rot*: recovery
  may truncate the WAL below the snapshot's offset, and later appends below it
  are skipped by replay (`shard.rs:130`). *Batch mode*: `append` returns with the
  frame still in the process's buffer, so a mere kill loses it (`wal.rs:34` says
  "after the OS write"), and no timer syncs an idle log (the `maybe_flush` named
  at `wal.rs:131` does not exist).
- `SnapshotWithinStableWal` excludes kills: after one, a snapshot flushes nothing
  because the log is not dirty, and covers unsynced bytes. For the same reason
  `LiveIsReplay` excludes kills and power losses in one behaviour: after kill, open,
  snapshot and power loss the snapshot covers more than is left of the WAL, and
  appends below its offset are skipped by the next replay.
- `PassKeepsHints` and `HintsGetDelivered` except a rewrite that fails half-way. An error of
  the open or of an append after the clear leaves `rewrite_hints` through `?`
  (`node_state.rs:85-88`, then `router.rs:840`): the old log is gone, the hints not yet
  written back are in no file, and the node stays up. `docs/consistency.md:45` ("never
  silently lost") fails without any crash. Without the exception TLC shows it in `hints`.
- `OwedIsReadable` needs the absence of failures: a torn frame is never truncated
  (`hints.rs:59`), so hints after it cannot be read; and `rewrite_hints` removes
  the file before it writes the new one (`node_state.rs:81`), so that a crash or an error in
  between loses the kept hints.
- `AckedReachable` and `ReadsSeeAcked` need changes that wait for *data*, not just
  for every replica to be `Active`: two joins in a row can displace all holders,
  and with RF 3 a missed write followed by a join lets a quorum without the
  write answer. They also need `Orderly`: a coordinator that left the
  cluster, or lags by two changes, keeps an old view and writes to nodes that are
  replicas no more, and nothing in the code refuses that write; with RF 1, or level `ONE`,
  the one replica that acknowledged is the one the next join displaces.
- *Reads and search route to `Active` replicas only*, so that a replica in transfer "is never
  read from" (`docs/consistency.md:66-67`; the comment at `router.rs:129-134` says so of reads
  and search). `coordinate_get` asks the full replica set, Syncing ones included
  (`router.rs:403-409`), and `coordinate_search` falls back to Syncing replicas when no Active
  one answers (`router.rs:611-618`, whose own comment says why). `ReadsSeeAcked` therefore
  takes its read sets from all replicas, and `SyncingIsLastResort` is the weaker rule the
  search does keep.
- "An `Active` replica with the data is always available" (`docs/consistency.md:69-70`).
  Replicas that hold no live record mark themselves `Syncing` on each pass
  (`rebalance.rs:66-84`): all replicas of an empty shard may be `Syncing` at once, and a
  QUORUM write acknowledged then is on `Syncing` replicas only; holders that restarted have
  an empty map and mark themselves `Syncing` again. `AckedReachable` is about a current
  replica in whatever state whose disk has the version, which is what survives.
- `RebalanceFinishes` fails when a source restarts: it has not opened the shard,
  streams nothing, and `rebalance.rs:145` takes that for a finished transfer
  (`router.rs:889` says "the caller tries the next source"). Replicas of an empty
  shard go through `Syncing` on every pass.
- With replication 1 `RebalanceFinishes` fails as well: a join makes the new node
  the only replica. It is `Active` by default (`meta.rs:224`) and has no source;
  the old holder sees all replicas `Active` and drops its copy
  (`rebalance.rs:88`, although `:20` says "the data is safely re-homed"). TLC
  shows it with `RF = 1`, two nodes and `Founders = {2}` in `MCRebalanceLive.cfg`
  and no failing pull.
- `AnswersHold` needs calls that do not overlap: each replaces the
  whole voter set by what it read before an await (`manager.rs:183`), so a join and
  a leave at the same time can bring back a node that left, or drop one that
  joined, while both answer OK. The seed of a restarted cluster calls `join_node`
  again for every `--join` target (`main.rs:85`), which re-admits a node that has
  left.
- A cut call is not always repaired by a retry. After a `leave_node` that failed at
  `DeregisterNode` the node is no voter, so a second `leave_node` refuses it
  (`manager.rs:196`) and it stays in the directory and on the ring; the same
  holds for a node whose join stopped after `RegisterNode`, until it joins again. A leader
  that removes itself has stepped down when it comes to `DeregisterNode`. A seed
  that stops between `initialize` and `RegisterNode` is initialized and never
  registers (`manager.rs:137`), which is why `VotersRoutable` excludes a failed
  bootstrap.
- `NoOrphanOverride` excludes requests that come late: `SetShardState` does not
  look at the directory or the collections (`meta.rs:191`), so a transfer can set
  `Syncing` for a node that has gone, or for a collection that is then created
  anew with a replica that nobody reads from until its next pass.
- `AckedServed`, and with snapshots `AckedRecoverable`, hold until a request appends through a
  handle that the map has forgotten. `drop_shard` (`shards.rs:157`) leaves a thread with such a
  second handle on the files: its write is acknowledged and not served by the new handle, and a
  snapshot by either handle takes its own count of the WAL for the offset it
  covers, so frames of the other are skipped at the next open.
- `Reopens` needs a dimension that stays. `shards.rs:241` says of a dropped
  collection that the files "are overwritten if the collection is recreated"; they
  are replayed: the old points are back, and if the new collection has another
  dimension the replay of an old frame fails and the shard cannot be opened, or,
  with a snapshot, it opens with the old index, which refuses each write after
  appending it.
- `ExactWhenBroad` excludes graphs that lost an edge: with more than M0 vectors of
  one place, pruning keeps the first ones and a node can be left without incoming
  edges, so that no search finds it. A search may return fewer than k live points
  because tombstones use up its breadth (`hnsw.rs:649`); `SearchSound` bounds by
  how many.
- `CallsAreDurable` and `NoHole` need directory fsyncs that do not fail:
  `store.rs:68` drops the error.
- Two coordinators can issue equal stamps (there is no node-id tiebreak), and a
  replica keeps the first it sees: replicas may differ for ever with the same
  stamp, against `docs/consistency.md:98` ("with no split"). `ReplicasAdvance`
  ("ties never flap") is what does hold. `HlcClock::update` saturates a full
  counter and then does not return a greater stamp (`hlc.rs:103`), and the local
  branches of a write and of read repair do not move the clock.

## 6. Not modelled

openraft itself (external; each module says what it reduces it to) and the
transport that carries its messages, which keeps no state; Cosine, f32 rounding,
SIMD and the level generator of the index, whose recall is a statistical claim;
gRPC parsing, defaults and error codes, start-up, configuration, the client and
generated code; `Noop` and `shard_map` of the metadata, which change nothing;
payload bytes; a batch as one call, whose result no later step reads.

## 7. Plan

Done, in the order of importance: clock, shard, replication, hint log,
rebalance, Raft storage, metadata plane with placement and the shard map, vector
search; proofs of the clock, of replication, of the shard and its refinement, of the
hint log, of Raft storage, of the metadata plane with the shard map and the placement walk,
of rebalance, and of the indexes and the search over them. Every safety property that a
passing run checks is the subject of a theorem.

Left for later: the recall of a search after edges were lost and the transport of
openraft's messages (both outside what the models abstract to), and replicas that take
part in a search while `Replication` writes to them, as one composed model.
