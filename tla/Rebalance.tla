----------------------------- MODULE Rebalance -----------------------------
(***************************************************************************)
(* Membership changes and the transfer of one shard: the committed         *)
(* metadata (qv-cluster/src/meta.rs), each node's lagging copy of it, the  *)
(* reconcile loop (qv-node/src/rebalance.rs), stream_records (router.rs)   *)
(* and the part of ShardStore that decides what a node can serve           *)
(* (shards.rs).                                                            *)
(*                                                                         *)
(* One shard of a collection that exists throughout, one point in it.  Its *)
(* versions are numbered in the order of their HLCs, 0 is "never written"; *)
(* writes run one after another (module Replication interleaves them).     *)
(* Clockwise from the shard's home position every node has a fixed place,  *)
(* whoever else is a member (module Placement), so a node is its place.    *)
(***************************************************************************)
EXTENDS Naturals, Sequences, FiniteSets, FiniteSetsExt

CONSTANTS
    Nodes,        \* node places on the shard's ring walk, numbers
    Founders,     \* the members when the collection is created
    RF,           \* the collection's replication_n
    Level,        \* the consistency level of writes and reads
    PromptApply,  \* does a node apply what was committed before its next pass
    MaxWrites,    \* bound: writes
    MaxLag,       \* bound: commits a node's metadata may lag behind
    Scenarios     \* environments to consider: see Scenario

ASSUME NodesAssumption == /\ Nodes \subseteq Nat /\ IsFiniteSet(Nodes)
                          /\ Founders \subseteq Nodes /\ Founders # {}
ASSUME RFAssumption == RF \in Nat \ {0}
ASSUME LevelAssumption == Level \in {"ONE", "QUORUM", "ALL"} /\ PromptApply \in BOOLEAN
ASSUME LimitsAssumption == MaxWrites \in Nat /\ MaxLag \in Nat \ {0}

\* Does the operator wait for a change to settle before the next one; what goes
\* wrong; may a write be a delete; and the bounds: the nodes whose reconcile
\* loop gets to run, and the numbers of reads, changes and faults.
Scenario == [settled : BOOLEAN, kinds : SUBSET {"miss", "commit", "pull", "restart"},
             deletes : SUBSET BOOLEAN, reconcilers : SUBSET Nodes,
             reads : Nat, changes : Nat, faults : Nat]

ASSUME ScenariosAssumption == Scenarios \subseteq Scenario

VARIABLES
    meta,      \* the metadata after the last committed request
    unseen,    \* node -> committed metadata it has still to apply, oldest first
    view,      \* node -> the metadata it has applied
    disk,      \* node -> version of the point in the node's shard directory
    open,      \* nodes with the shard in their ShardStore map
    pass,      \* node -> its reconcile pass
    dead,      \* versions that are tombstones
    write,     \* the write in progress
    hints,     \* buffered hints: <<target, version>>
    acked,     \* history: newest version a client was told is written
    count      \* the scenario and how many writes, reads, changes and faults it had; the
               \* members before the last change; was a coordinator further behind

vars == <<meta, unseen, view, disk, open, pass, dead, write, hints, acked, count>>
clientVars == <<dead, write, hints, acked>>
dataVars == <<disk, open>>
metaVars == <<meta, unseen, view>>

-----------------------------------------------------------------------------
(* Metadata.  shard_states holds overrides only: absent is Active, and the *)
(* code never writes Dead.                                                 *)

Metadata == [nodes : SUBSET Nodes, syncing : SUBSET Nodes]
NoMetadata == [nodes |-> {}, syncing |-> {}]

Place(n, members) == Cardinality({k \in members : k < n})

\* Mutant: the walk ends at the home node.
ReplicasHomeOnly(m) == {n \in m.nodes : Place(n, m.nodes) < 1}

\* MetaState::replicas_for_shard.
Replicas(m) == {n \in m.nodes : Place(n, m.nodes) < RF}

\* MetaState::shard_state.
Active(m, n) == n \notin m.syncing

\* MetaState::apply, by kind of request.
Register(m, n) == [m EXCEPT !.nodes = @ \cup {n}]
Deregister(m, n) == [nodes |-> m.nodes \ {n}, syncing |-> m.syncing \ {n}]
SetShardState(m, n, active) ==
    [m EXCEPT !.syncing = IF active THEN @ \ {n} ELSE @ \cup {n}]

\* A request commits: every member learns of it later, in commit order.
Commit(m, members) ==
    /\ \A n \in members : Len(unseen[n]) < MaxLag
    /\ meta' = m
    /\ unseen' = [n \in Nodes |-> IF n \in members THEN Append(unseen[n], m) ELSE unseen[n]]

\* Mutant: half of the replicas make a quorum.
NeededHalf(total) == Max({1, total \div 2})

\* Consistency::count.
Needed(total) == CASE Level = "ONE"    -> 1
                   [] Level = "QUORUM" -> (total \div 2) + 1
                   [] Level = "ALL"    -> total

-----------------------------------------------------------------------------
PassStates == {"idle", "mark", "pull", "store", "activate"}
Idle == [at |-> "idle", sources |-> {}, got |-> 0]
NoWrite == [version |-> 0, targets |-> {}, acks |-> {}, todo |-> {}]

Init ==
    /\ meta = [nodes |-> Founders, syncing |-> {}]
    /\ unseen = [n \in Nodes |-> <<>>]
    /\ view = [n \in Nodes |-> IF n \in Founders THEN meta ELSE NoMetadata]
    /\ disk = [n \in Nodes |-> 0] /\ open = {}
    /\ pass = [n \in Nodes |-> Idle]
    /\ dead = {} /\ write = NoWrite /\ hints = {} /\ acked = 0
    /\ count \in {[of |-> s, writes |-> 0, reads |-> 0, changes |-> 0, faults |-> 0,
                   before |-> Founders, behind |-> FALSE] : s \in Scenarios}

\* A fault of this kind happens, while the bound lasts.
Fault(kind) ==
    /\ kind \in count.of.kinds /\ count.faults < count.of.faults
    /\ count' = [count EXCEPT !.faults = @ + 1]

\* Mutant: a record is stored whatever version the shard has.
StoreBlindly(n, v) == disk' = [disk EXCEPT ![n] = v]

\* ShardStore::upsert / delete: open the shard if need be, keep the newer.
Store(n, v) == disk' = [disk EXCEPT ![n] = Max({@, v})]

-----------------------------------------------------------------------------
(* Membership: join_node and leave_node, as far as the directory goes.     *)

Quiet == \A n \in meta.nodes : unseen[n] = <<>> /\ pass[n].at = "idle"

\* Every replica serves the newest acknowledged version and nothing is under way.
Settled ==
    /\ Quiet /\ hints = {} /\ write = NoWrite
    /\ \A n \in Replicas(meta) : Active(meta, n) /\ disk[n] >= acked

Change(m, members) ==
    /\ count.changes < count.of.changes /\ (count.of.settled => Settled)
    /\ count' = [count EXCEPT !.changes = @ + 1, !.before = meta.nodes]
    /\ Commit(m, members)
    /\ UNCHANGED <<view, pass, dataVars, clientVars>>

\* RegisterNode commits first; the node then gets the log as a learner.
JoinNode(n) == n \notin meta.nodes /\ Change(Register(meta, n), meta.nodes \cup {n})

\* The node is out of the voters when DeregisterNode commits: it does not hear of it.
LeaveNode(n) == /\ n \in meta.nodes /\ meta.nodes # {n}
                /\ Change(Deregister(meta, n), meta.nodes \ {n})

\* The state machine of n applies the next committed request.
Apply(n) ==
    /\ unseen[n] # <<>>
    /\ view' = [view EXCEPT ![n] = Head(unseen[n])]
    /\ unseen' = [unseen EXCEPT ![n] = Tail(@)]
    /\ UNCHANGED <<meta, pass, count, dataVars, clientVars>>

-----------------------------------------------------------------------------
(* reconcile_once on node n.  A pass reads the metadata once and works on  *)
(* that copy; view[n] may lag, so deciding on view[n] stands for deciding  *)
(* on a copy read earlier.  A pass that finds nothing to do is a stutter.  *)

Goto(n, p) == pass' = [pass EXCEPT ![n] = p]
Return(n) == Goto(n, Idle)

\* The loop ticks every 500 ms: time enough to apply the last commits when they
\* arrive with the leader's 250 ms heartbeat, but nothing waits for them.
Tick(n) == pass[n].at = "idle" /\ (PromptApply => unseen[n] = <<>>)

\* materialized_nonempty: shard_len counts live points only.
HoldsLive(n) == n \in open /\ disk[n] # 0 /\ disk[n] \notin dead

\* Mutant: an Active replica is taken to have its data.
ServesByState(n) == Active(view[n], n)

Serves(n) == Active(view[n], n) /\ HoldsLive(n)

Desired(n) == n \in Replicas(view[n])

\* acquire_shard takes its sources from the replicas of the same metadata.
Sources(n) == {s \in Replicas(view[n]) \ {n} : Active(view[n], s)}

\* A pass that finds the shard to acquire: with a source, mark ourselves Syncing next.
AcquireShard(n) ==
    /\ Tick(n)
    /\ Desired(n) /\ ~Serves(n) /\ Sources(n) # {}
    /\ Goto(n, [Idle EXCEPT !.at = "mark", !.sources = Sources(n)])
    /\ UNCHANGED <<count, metaVars, dataVars, clientVars>>

\* Without a source: open the shard, which recovers it from disk.
AcquireNew(n) ==
    /\ Tick(n)
    /\ Desired(n) /\ ~Serves(n) /\ Sources(n) = {}
    /\ open' = open \cup {n}
    /\ Goto(n, [Idle EXCEPT !.at = "activate"])
    /\ UNCHANGED <<disk, count, metaVars, clientVars>>

\* desired_all_active: drop_shard takes it out of the map; the directory stays.
ReleaseShard(n) ==
    /\ Tick(n)
    /\ ~Desired(n) /\ n \in open /\ Replicas(view[n]) # {}
    /\ \A r \in Replicas(view[n]) : Active(view[n], r)
    /\ open' = open \ {n}
    /\ UNCHANGED <<disk, pass, count, metaVars, clientVars>>

MarkSyncing(n) ==
    /\ pass[n].at = "mark"
    /\ Commit(SetShardState(meta, n, FALSE), meta.nodes)
    /\ Goto(n, [pass[n] EXCEPT !.at = "pull"])
    /\ UNCHANGED <<view, count, dataVars, clientVars>>

MarkActive(n) ==
    /\ pass[n].at = "activate"
    /\ Commit(SetShardState(meta, n, TRUE), meta.nodes)
    /\ Return(n)
    /\ UNCHANGED <<view, count, dataVars, clientVars>>

\* set_state gives up: no leader, or the answer was lost after the commit.
MarkFails(n) ==
    /\ pass[n].at \in {"mark", "activate"} /\ Fault("commit")
    /\ \/ UNCHANGED <<meta, unseen>>
       \/ Commit(SetShardState(meta, n, pass[n].at = "activate"), meta.nodes)
    /\ Return(n)
    /\ UNCHANGED <<view, dataVars, clientVars>>

\* stream_shard answers: nothing unless the source has the shard in its map.
PullShard(n) ==
    LET s == Min(pass[n].sources)
    IN  /\ pass[n].at = "pull"
        /\ view[s] # NoMetadata
        /\ Goto(n, [Idle EXCEPT !.at = "store",
                                   !.got = IF s \in open THEN disk[s] ELSE 0])
        /\ UNCHANGED <<count, metaVars, dataVars, clientVars>>

\* The source is unreachable, or does not know the collection yet: the next one.
PullFails(n) ==
    LET s == Min(pass[n].sources)
    IN  /\ pass[n].at = "pull"
        /\ IF view[s] = NoMetadata THEN UNCHANGED count ELSE Fault("pull")
        /\ IF pass[n].sources = {s}
             THEN Return(n)
             ELSE Goto(n, [pass[n] EXCEPT !.sources = @ \ {s}])
        /\ UNCHANGED <<metaVars, dataVars, clientVars>>

\* What was streamed is stored under LWW; without records nothing is opened.
StorePulled(n) ==
    /\ pass[n].at = "store"
    /\ Store(n, pass[n].got)
    /\ open' = IF pass[n].got # 0 THEN open \cup {n} ELSE open
    /\ Goto(n, [Idle EXCEPT !.at = "activate"])
    /\ UNCHANGED <<count, metaVars, clientVars>>

-----------------------------------------------------------------------------
(* Client traffic and the other background paths, as they touch the shard. *)

\* replicate_write, on the metadata of the coordinator c.
BeginWrite(c, tombstone) ==
    /\ write = NoWrite /\ count.writes < MaxWrites
    /\ Replicas(view[c]) # {}
    /\ count' = [count EXCEPT !.writes = @ + 1,
                              !.behind = @ \/ view[c].nodes \notin {meta.nodes, count.before}]
    /\ write' = [NoWrite EXCEPT !.version = count.writes + 1,
                                !.targets = Replicas(view[c]), !.todo = Replicas(view[c])]
    /\ dead' = IF tombstone THEN dead \cup {count.writes + 1} ELSE dead
    /\ UNCHANGED <<pass, hints, acked, metaVars, dataVars>>

\* A replica that knows the collection stores the write and acknowledges it.
WriteAck(n) ==
    /\ n \in write.todo /\ view[n] # NoMetadata
    /\ Store(n, write.version)
    /\ open' = open \cup {n}
    /\ write' = [write EXCEPT !.todo = @ \ {n}, !.acks = @ \cup {n}]
    /\ UNCHANGED <<pass, dead, hints, acked, count, metaVars>>

WriteMiss(n) ==
    /\ n \in write.todo
    /\ IF view[n] = NoMetadata THEN UNCHANGED count ELSE Fault("miss")
    /\ hints' = hints \cup {<<n, write.version>>}
    /\ write' = [write EXCEPT !.todo = @ \ {n}]
    /\ UNCHANGED <<pass, dead, acked, metaVars, dataVars>>

FinishWrite ==
    /\ write # NoWrite /\ write.todo = {}
    /\ acked' = IF Cardinality(write.acks) >= Needed(Cardinality(write.targets))
                  THEN write.version ELSE acked
    /\ write' = NoWrite
    /\ UNCHANGED <<pass, dead, hints, count, metaVars, dataVars>>

\* replay_hints pushes one hint; the target need not be a replica any more.
ReplayHint(n, v) ==
    /\ <<n, v>> \in hints /\ n \in meta.nodes /\ view[n] # NoMetadata
    /\ Store(n, v)
    /\ open' = open \cup {n}
    /\ hints' = hints \ {<<n, v>>}
    /\ UNCHANGED <<pass, dead, write, acked, count, metaVars>>

\* coordinate_get on the metadata of c: the nodes of A answer, which opens the
\* shard there, and read repair reaches those in R.
Read(c, A, R) ==
    LET newest == Max({disk[n] : n \in A})
    IN  /\ count.reads < count.of.reads
        /\ A # {} /\ A \subseteq {n \in Replicas(view[c]) : view[n] # NoMetadata}
        /\ Cardinality(A) >= Needed(Cardinality(Replicas(view[c])))
        /\ R \subseteq {n \in A : disk[n] < newest}
        /\ count' = [count EXCEPT !.reads = @ + 1]
        /\ open' = open \cup A
        /\ disk' = [n \in Nodes |-> IF n \in R THEN newest ELSE disk[n]]
        /\ UNCHANGED <<pass, clientVars, metaVars>>

\* The process of n ends and comes back: ShardStore starts with an empty map.
Restart(n) ==
    /\ Fault("restart")
    /\ open' = open \ {n}
    /\ Return(n)
    /\ UNCHANGED <<disk, metaVars, clientVars>>

-----------------------------------------------------------------------------
Reconcile(n) ==
    \/ AcquireShard(n) \/ AcquireNew(n) \/ ReleaseShard(n)
    \/ MarkSyncing(n) \/ PullShard(n) \/ StorePulled(n) \/ MarkActive(n)

Client == \/ \E c \in Nodes, t \in count.of.deletes : BeginWrite(c, t)
          \/ \E c \in Nodes : \E A \in SUBSET Replicas(view[c]) : \E R \in SUBSET A : Read(c, A, R)

Next ==
    \/ Client
    \/ FinishWrite
    \/ \E h \in hints : ReplayHint(h[1], h[2])
    \/ \E n \in Nodes :
        \/ JoinNode(n) \/ LeaveNode(n) \/ Apply(n) \/ Restart(n)
        \/ n \in count.of.reconcilers /\ Reconcile(n)
        \/ MarkFails(n) \/ PullFails(n)
        \/ WriteAck(n) \/ WriteMiss(n)

Spec == Init /\ [][Next]_vars

\* Every node's Raft applies what was committed, its reconcile loop ticks for
\* ever, requests reach nodes that are up, and a tick replays hints.  In the
\* code a tick and a commit wait for nothing; here MaxLag and PromptApply hold
\* them up while others commit, and strong fairness takes that back.
Fairness ==
    /\ WF_vars(FinishWrite)
    /\ WF_vars(\E h \in hints : ReplayHint(h[1], h[2]))
    /\ \A n \in Nodes :
        /\ WF_vars(Apply(n))
        /\ WF_vars(WriteAck(n)) /\ WF_vars(WriteMiss(n) /\ count' = count)
    /\ \A n \in Nodes :
        SF_vars(n \in count.of.reconcilers /\ Reconcile(n)) /\ WF_vars(PullFails(n) /\ count' = count)

FairSpec == Spec /\ Fairness

-----------------------------------------------------------------------------
TypeOK ==
    /\ meta \in Metadata /\ view \in [Nodes -> Metadata]
    /\ unseen \in [Nodes -> Seq(Metadata)] /\ \A n \in Nodes : Len(unseen[n]) <= MaxLag
    /\ disk \in [Nodes -> 0 .. count.writes] /\ open \subseteq Nodes
    /\ pass \in [Nodes -> [at : PassStates, sources : SUBSET Nodes,
                           got : 0 .. count.writes]]
    /\ \A n \in Nodes : pass[n].at = "pull" => pass[n].sources # {}
    /\ dead \subseteq 1 .. count.writes /\ acked \in 0 .. count.writes
    /\ write \in [version : 0 .. count.writes, targets : SUBSET Nodes,
                  acks : SUBSET Nodes, todo : SUBSET Nodes]
    /\ hints \subseteq Nodes \X (1 .. count.writes)
    /\ count.of \in Scenarios /\ count.writes \in 0 .. MaxWrites
    /\ count.reads \in 0 .. count.of.reads
    /\ count.changes \in 0 .. count.of.changes /\ count.faults \in 0 .. count.of.faults
    /\ count.before \subseteq Nodes /\ count.behind \in BOOLEAN

\* Whatever is streamed, replayed, repaired or written while a shard moves, no
\* node's copy of the point goes back: a record streamed before a live write
\* and stored after it does not clobber it, and dropping a shard loses nothing
\* of what a later open recovers.
DiskAdvances == [][\A n \in Nodes : disk'[n] >= disk[n]]_vars

\* Changes wait for each other; a write goes by the directory of the last change or
\* by the one before it; and two sets of replicas that are one change apart have
\* one in common whatever quorum of either is taken.  Without the second, a node
\* that left long ago coordinates a write to replicas that are none any more;
\* without the third, the one replica that acknowledged is the one displaced.
Orderly == count.of.settled /\ ~count.behind /\ RF > 1 /\ Level # "ONE"

\* A membership change that waited for the one before it to settle leaves the
\* newest acknowledged version on the disk of a current replica, through the faults
\* of the scenario too.  That replica need not be Active: where both replicas of an
\* empty shard, or every holder after a restart, take the others for the source,
\* all are Syncing while writes are acknowledged (see the README).
AckedReachable == Orderly => \E n \in Replicas(meta) : disk[n] >= acked

\* Then, as long as nothing went wrong, whichever node coordinates a read by the
\* directory as it is or as it was before the last change, and whichever replicas
\* answer, as long as the level takes them for enough, one of them has the newest
\* acknowledged version: a replica in transfer "just contributes an older/absent
\* version that LWW discards".
ReadsSeeAcked ==
    Orderly /\ count.faults = 0 =>
        \A c \in Nodes : view[c].nodes \in {meta.nodes, count.before} =>
            \A A \in SUBSET Replicas(view[c]) :
                Cardinality(A) >= Needed(Cardinality(Replicas(view[c])))
                    => \E n \in A : disk[n] >= acked

\* Once the membership stands still, every replica ends up Active with the
\* newest acknowledged version: a drop happens when "the data is safely
\* re-homed", and a join or leave is made good by the transfer.
RebalanceFinishes ==
    <>[](acked # 0 => \A n \in Replicas(meta) : Active(meta, n) /\ disk[n] >= acked)
=============================================================================
