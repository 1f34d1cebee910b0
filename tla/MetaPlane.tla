----------------------------- MODULE MetaPlane -----------------------------
(***************************************************************************)
(* The metadata plane: MetaState::apply (qv-cluster/src/meta.rs), the      *)
(* admin calls of ClusterManager step by step (manager.rs), the ring that  *)
(* is derived from the directory (module Placement), and create and drop   *)
(* of a collection (qv-node/src/service.rs) down to the shard map of one   *)
(* node (module ShardStore).                                               *)
(*                                                                         *)
(* The state is the leader's: committed and applied.  openraft is external *)
(* and is its membership, who leads, and what a call of it can answer.     *)
(***************************************************************************)
EXTENDS Placement, ShardStore

CONSTANTS
    Seed,      \* the node started with --bootstrap
    MaxStamp,  \* bound: stamps of writes
    Calls,     \* admin calls that run at the same time
    Setups     \* environments to consider: see Setup

ASSUME CallsAssumption == Calls \subseteq Nat /\ Seed \in Nodes /\ MaxStamp \in Nat

\* What the operator and the clients do: may admin calls overlap, is every
\* placement on the ring considered; and bounds: the nodes at the start, and
\* how many times each kind of thing happens.
Setup == [founders : SUBSET Nodes, overlap : BOOLEAN, rings : BOOLEAN, calls : Nat, faults : Nat,
          acquires : Nat, drops : Nat, creates : Nat, releases : Nat, requests : Nat, restarts : Nat]

ASSUME SetupsAssumption == Setups \subseteq Setup

VARIABLES
    meta,      \* MetaState: directory, dimension of the collection (0: absent), Syncing replicas
    raft,      \* openraft's membership: voter configs (two when joint), known nodes; the leader
    call,      \* call -> the admin call in progress
    mark,      \* node -> its shard transfer, as far as it commits shard states
    dropping,  \* DropCollection committed, the local shards are still in the map
    told,      \* history: node -> what its last join or leave was told
    marred,    \* history: kinds of calls that failed, "overlap", "stray", "redim"
    left       \* how much of the setup is left

adminVars == <<raft, call, told>>
ringVars == <<pos, home>>
vars == <<pos, home, storeVars, meta, raft, call, mark, dropping, told, marred, left>>

\* The dimension the collection has at the start.
FirstDim == Min(Dims)

-----------------------------------------------------------------------------
(* MetaState::apply, by kind of request.                                   *)

RegisterNode(n) == [meta EXCEPT !.nodes = @ \cup {n}]

\* Mutant: the overrides of the node stay.
DeregisterOnly(n) == [meta EXCEPT !.nodes = @ \ {n}]

DeregisterNode(n) == [meta EXCEPT !.nodes = @ \ {n}, !.syncing = @ \ {n}]

\* An existing collection stays as it is.
CreateCollection(d) == [meta EXCEPT !.dim = IF @ = 0 THEN d ELSE @]
DropCollection == [meta EXCEPT !.dim = 0, !.syncing = {}]
SetShardState(n, active) == [meta EXCEPT !.syncing = IF active THEN @ \ {n} ELSE @ \cup {n}]

-----------------------------------------------------------------------------
(* openraft.                                                               *)

\* current_voters: a node of either config is a voter.
Voters == UNION Range(raft.configs)

\* One step of change_membership: to the goal if it is one of the configs, else
\* to the joint config.  Without retain, old voters that are none now are gone.
\* A leader that is no voter any more steps down.
Changed(goal, retain) ==
    LET configs == IF Contains(raft.configs, goal) THEN <<goal>>
                   ELSE <<Last(raft.configs), goal>>
        voters == UNION Range(configs)
    IN  [configs |-> configs,
         nodes |-> IF retain THEN raft.nodes ELSE raft.nodes \ (Voters \ voters),
         leader |-> IF raft.leader \in voters THEN raft.leader ELSE 0]

\* Another voter is elected, because there is no leader or in spite of it.
Elect(n) ==
    /\ n \in Voters /\ n # raft.leader
    /\ \/ raft.leader = 0 /\ UNCHANGED left
       \/ raft.leader # 0 /\ left.faults > 0 /\ left' = [left EXCEPT !.faults = @ - 1]
    /\ raft' = [raft EXCEPT !.leader = n]
    /\ UNCHANGED <<meta, call, mark, dropping, told, marred, ringVars, storeVars>>

NoCall == [kind |-> "none", node |-> 0, on |-> 0, step |-> 0, goal |-> {}]

Init ==
    \E s \in Setups :
        /\ left = s
        /\ RingInit
        /\ ~s.rings => /\ pos = [v \in Nodes \X Indexes |-> Min({v[1] + v[2], Points - 1})]
                       /\ home = Min(Homes)
        /\ StoreInit
        /\ s.requests = 0 => threshold = Min(Thresholds)
        /\ meta = [nodes |-> s.founders, dim |-> FirstDim, syncing |-> {}]
        /\ raft = [configs |-> IF s.founders = {} THEN <<>> ELSE <<s.founders>>,
                   nodes |-> s.founders,
                   leader |-> IF s.founders = {} THEN 0 ELSE Min(s.founders)]
        /\ call = [c \in Calls |-> NoCall]
        /\ mark = [n \in Nodes |-> "none"]
        /\ dropping = FALSE
        /\ told = [n \in Nodes |-> IF n \in s.founders THEN "in" ELSE "unsure"]
        /\ marred = {}

-----------------------------------------------------------------------------
(* Admin calls: each is a script of awaited steps on the node that led     *)
(* when it came in, and each step may be the last.                         *)

\* Mutant: a leave takes the node out of the directory first.
ScriptDeregisterFirst(kind) ==
    CASE kind = "bootstrap" -> <<"register">>
      [] kind = "join"      -> <<"register", "learner", "voters", "change", "settle">>
      [] kind = "leave"     -> <<"deregister", "voters", "change", "settle">>

Script(kind) ==
    CASE kind = "bootstrap" -> <<"register">>
      [] kind = "join"      -> <<"register", "learner", "voters", "change", "settle">>
      [] kind = "leave"     -> <<"voters", "change", "settle", "deregister">>

At(c) == IF call[c] = NoCall THEN "none" ELSE Script(call[c].kind)[call[c].step]

BeginCall(c, kind, n, leader) ==
    /\ call[c] = NoCall /\ left.calls > 0
    /\ \A d \in Calls : d < c => call[d] # NoCall    \* the names of calls mean nothing
    /\ left.overlap \/ \A d \in Calls : call[d] = NoCall
    /\ call' = [call EXCEPT ![c] = [kind |-> kind, node |-> n, on |-> leader, step |-> 1,
                                     goal |-> {}]]
    /\ told' = [told EXCEPT ![n] = "unsure"]
    /\ marred' = marred \cup IF \E d \in Calls : call[d] # NoCall THEN {"overlap"} ELSE {}
    /\ left' = [left EXCEPT !.calls = @ - 1]
    /\ UNCHANGED <<meta, mark, dropping, ringVars, storeVars>>

\* bootstrap: initialize, then the call registers the seed.  A seed that is
\* initialized does nothing more, registered or not.
Bootstrap(c) ==
    /\ raft.configs = <<>>
    /\ raft' = [configs |-> <<{Seed}>>, nodes |-> {Seed}, leader |-> Seed]
    /\ BeginCall(c, "bootstrap", Seed, Seed)

Join(c, n) == raft.leader # 0 /\ BeginCall(c, "join", n, raft.leader) /\ UNCHANGED raft
Leave(c, n) == raft.leader # 0 /\ BeginCall(c, "leave", n, raft.leader) /\ UNCHANGED raft

\* The call goes on by `steps', or answers OK at the end of its script.
Advance(c, steps) ==
    LET r == call[c]
        on == [r EXCEPT !.step = @ + steps]
    IN  IF on.step <= Len(Script(r.kind))
          THEN call' = [call EXCEPT ![c] = on] /\ UNCHANGED told
          ELSE /\ call' = [call EXCEPT ![c] = NoCall]
               /\ told' = [told EXCEPT ![r.node] = IF r.kind = "leave" THEN "out" ELSE "in"]

Fail(c) == call' = [call EXCEPT ![c] = NoCall] /\ UNCHANGED told

\* A request to Raft: answered; committed, but the answer is an error; or not
\* committed, always so when this node leads no more.
Submit(c, m, r, steps) ==
    /\ \/ /\ raft.leader = call[c].on
          /\ meta' = m /\ raft' = r
          /\ Advance(c, steps)
          /\ UNCHANGED <<left, marred>>
       \/ /\ raft.leader = call[c].on /\ left.faults > 0
          /\ meta' = m /\ raft' = r
          /\ Fail(c)
          /\ left' = [left EXCEPT !.faults = @ - 1]
          /\ marred' = marred \cup {call[c].kind}
       \/ /\ UNCHANGED <<meta, raft>>
          /\ Fail(c)
          /\ marred' = marred \cup {call[c].kind}
          /\ \/ raft.leader # call[c].on /\ UNCHANGED left
             \/ /\ raft.leader = call[c].on /\ left.faults > 0
                /\ left' = [left EXCEPT !.faults = @ - 1]
    /\ UNCHANGED <<mark, dropping, ringVars, storeVars>>

Register(c) == At(c) = "register" /\ Submit(c, RegisterNode(call[c].node), raft, 1)
Deregister(c) == At(c) = "deregister" /\ Submit(c, DeregisterNode(call[c].node), raft, 1)

AddLearner(c) ==
    At(c) = "learner" /\ Submit(c, meta, [raft EXCEPT !.nodes = @ \cup {call[c].node}], 1)

\* Mutant: the new voter set is the new voter.
GoalAlone(kind, n) == IF kind = "join" THEN {n} ELSE Voters \ {n}

Goal(kind, n) == IF kind = "join" THEN Voters \cup {n} ELSE Voters \ {n}

\* Mutant: the last voter may leave.
RefusesStranger(n) == n \notin Voters

\* leave_node refuses a node that is no voter, and to remove the last one.
Refuses(n) == n \notin Voters \/ Voters = {n}

\* The voters are read from the metrics.
ReadVoters(c) ==
    LET r == call[c]
    IN  /\ At(c) = "voters"
        /\ IF r.kind = "leave" /\ Refuses(r.node)
             THEN Fail(c)
             ELSE /\ call' = [call EXCEPT ![c].goal = Goal(r.kind, r.node), ![c].step = @ + 1]
                  /\ UNCHANGED told
        /\ UNCHANGED <<meta, raft, mark, dropping, marred, left, ringVars, storeVars>>

\* A join keeps other nodes as learners, a leave removes the node altogether.
Retain(kind) == kind = "join"

\* change_membership commits the joint config, then the uniform one; nothing is
\* left for the second step when the first found the goal in force.
ChangeMembership(c) ==
    LET new == Changed(call[c].goal, Retain(call[c].kind))
    IN  /\ At(c) \in {"change", "settle"} /\ call[c].goal \subseteq raft.nodes
        /\ Submit(c, meta, new, IF At(c) = "change" /\ Len(new.configs) = 1 THEN 2 ELSE 1)

\* LearnerNotFound.
ChangeRefused(c) ==
    /\ At(c) \in {"change", "settle"} /\ ~(call[c].goal \subseteq raft.nodes)
    /\ Fail(c)
    /\ marred' = marred \cup {call[c].kind}
    /\ UNCHANGED <<meta, raft, mark, dropping, left, ringVars, storeVars>>

-----------------------------------------------------------------------------
(* Shard states, which rebalance.rs commits around a transfer.             *)

BeginAcquire(n) ==
    /\ mark[n] = "none" /\ n \in meta.nodes /\ meta.dim # 0
    /\ left.acquires > 0 /\ left' = [left EXCEPT !.acquires = @ - 1]
    /\ mark' = [mark EXCEPT ![n] = "begun"]
    /\ UNCHANGED <<meta, dropping, marred, adminVars, ringVars, storeVars>>

\* Nothing checks that the node and the collection are still there.
MarkSyncing(n) ==
    /\ mark[n] = "begun"
    /\ meta' = SetShardState(n, FALSE)
    /\ marred' = marred \cup IF n \in meta.nodes /\ meta.dim # 0 THEN {} ELSE {"stray"}
    /\ mark' = [mark EXCEPT ![n] = "syncing"]
    /\ UNCHANGED <<dropping, left, adminVars, ringVars, storeVars>>

MarkActive(n) ==
    /\ mark[n] = "syncing"
    /\ meta' = SetShardState(n, TRUE)
    /\ mark' = [mark EXCEPT ![n] = "none"]
    /\ UNCHANGED <<dropping, marred, left, adminVars, ringVars, storeVars>>

-----------------------------------------------------------------------------
(* A collection and its shard on one node.                                 *)

Create(d) ==
    /\ left.creates > 0 /\ left' = [left EXCEPT !.creates = @ - 1]
    /\ meta' = CreateCollection(d)
    /\ marred' = marred \cup IF meta'.dim = FirstDim THEN {} ELSE {"redim"}
    /\ UNCHANGED <<mark, dropping, adminVars, ringVars, storeVars>>

\* drop_collection commits; the node that serves the call (here or not) then
\* forgets its shards of the collection, and only that node does.
Drop(here) ==
    /\ left.drops > 0 /\ left' = [left EXCEPT !.drops = @ - 1]
    /\ meta' = DropCollection
    /\ dropping' = (dropping \/ here)
    /\ acked' = 0
    /\ UNCHANGED <<mark, marred, adminVars, ringVars, fileVars, handles, slot, thread,
                   forgotten, strayed>>

DropLocal ==
    /\ dropping /\ dropping' = FALSE
    /\ Forget /\ UNCHANGED acked
    /\ UNCHANGED <<meta, mark, marred, left, adminVars, ringVars>>

\* drop_shard, by the reconcile loop.
Release ==
    /\ slot # 0 /\ left.releases > 0 /\ left' = [left EXCEPT !.releases = @ - 1]
    /\ Forget /\ UNCHANGED acked
    /\ UNCHANGED <<meta, mark, dropping, marred, adminVars, ringVars>>

\* A write (of any dimension), a delete (dimension 0) or a read (stamp 0)
\* looks up the schema.
Request(t, stamp, d) ==
    /\ meta.dim # 0 /\ left.requests > 0 /\ left' = [left EXCEPT !.requests = @ - 1]
    /\ BeginRequest(t, stamp, d, meta.dim)
    /\ UNCHANGED <<meta, mark, dropping, marred, adminVars, ringVars>>

Restart ==
    /\ left.restarts > 0 /\ left' = [left EXCEPT !.restarts = @ - 1]
    /\ RestartStore /\ dropping' = FALSE
    /\ UNCHANGED <<meta, mark, marred, adminVars, ringVars>>

\* A step of a request that stays within ShardStore.
Unchanging(step) ==
    step /\ UNCHANGED <<meta, mark, dropping, marred, left, adminVars, ringVars>>

-----------------------------------------------------------------------------
AdminStep(c) ==
    \/ Register(c) \/ AddLearner(c) \/ ReadVoters(c)
    \/ ChangeMembership(c) \/ ChangeRefused(c) \/ Deregister(c)

Next ==
    \/ \E c \in Calls : Bootstrap(c) \/ AdminStep(c) \/ \E n \in Nodes : Join(c, n) \/ Leave(c, n)
    \/ \E n \in Nodes : Elect(n) \/ BeginAcquire(n) \/ MarkSyncing(n) \/ MarkActive(n)
    \/ \E d \in Dims : Create(d)
    \/ \E here \in BOOLEAN : Drop(here)
    \/ DropLocal \/ Release \/ Restart
    \/ \E t \in Threads :
        \/ \E stamp \in 1 .. MaxStamp, d \in Dims \cup {0} : Request(t, stamp, d)
        \/ Request(t, 0, 0)
        \/ Unchanging(Lookup(t)) \/ Unchanging(Open(t))
        \/ Unchanging(Apply(t)) \/ Unchanging(Refuse(t))

Spec == Init /\ [][Next]_vars

-----------------------------------------------------------------------------
TypeOK ==
    /\ meta.nodes \subseteq Nodes /\ meta.dim \in Dims \cup {0} /\ meta.syncing \subseteq Nodes
    /\ raft.configs \in Seq((SUBSET Nodes) \ {{}}) /\ raft.nodes \subseteq Nodes
    /\ raft.leader \in Voters \cup {0} /\ Voters \subseteq raft.nodes
    /\ \A c \in Calls : call[c] = NoCall \/ At(c) \in Range(Script(call[c].kind))
    /\ mark \in [Nodes -> {"none", "begun", "syncing"}]
    /\ told \in [Nodes -> {"unsure", "in", "out"}]
    /\ dropping \in BOOLEAN /\ left \in Setup
    /\ marred \subseteq {"bootstrap", "join", "leave", "overlap", "stray", "redim"}
    /\ StoreTypeOK

\* The walk yields the first RF members in an order of the nodes that does not
\* depend on the membership, home node first, whatever collides or wraps.  So a
\* node that joins replaces at most one replica, by itself, one that leaves brings
\* in at most one, and the others keep their order: "only affected shards relocate".
WalkFollowsFixedOrder ==
    LET walk == ReplicasForShard(meta.nodes)
    IN  /\ Len(walk) = Min({RF, Cardinality(meta.nodes)})
        /\ \A i \in DOMAIN walk : Cardinality({n \in meta.nodes : Before(n, walk[i])}) = i - 1

\* As long as admin calls come one after another, what a call answered stays true
\* until the next call about that node, whichever calls about others failed
\* half-way and whoever led them: a node that is in votes and is in the directory,
\* one that is out is neither voter nor learner and no shard is placed on it.
\* (A call replaces the whole voter set by what it read: two that overlap undo
\* each other.)
AnswersHold ==
    "overlap" \notin marred =>
        \A n \in Nodes : /\ told[n] = "in" => n \in Voters /\ n \in meta.nodes
                         /\ told[n] = "out" => n \notin raft.nodes \cup meta.nodes

\* A voter, which may come to lead, has an address in the directory, through
\* which writes are forwarded to it: join_node registers before it promotes and
\* leave_node deregisters last, so that a call cut short leaves a node too many
\* in the directory and never one too few.  Only bootstrap promotes first.
VotersRoutable ==
    "overlap" \notin marred /\ "bootstrap" \notin marred =>
        \A n \in Voters : n \in meta.nodes \/ \E c \in Calls : call[c].kind = "bootstrap"

\* No override outlives its node or its collection, unless a transfer that began
\* before they went commits its state after.
NoOrphanOverride ==
    "stray" \notin marred =>
        meta.syncing \subseteq meta.nodes /\ (meta.dim = 0 => meta.syncing = {})

\* What a node serves from its map includes every write it acknowledged, however
\* requests race to open the shard, and also when the map forgot a shard in use,
\* until a request appends through the forgotten handle (get_or_open, drop_shard).
AckedServed ==
    slot # 0 /\ ~strayed => handles[slot].version >= acked

\* What the next open of the shard recovers does too, and without snapshots also
\* when two handles have appended to one WAL; a snapshot by one of them would
\* hide the other's frames (Shard::open, maybe_snapshot).
AckedRecoverable ==
    "redim" \notin marred /\ (~strayed \/ threshold = 0) =>
        Recovered(FirstDim).shard.version >= acked

\* A shard can be opened again: whatever clients send, no vector of another
\* dimension gets into its files as long as the collection keeps its dimension.
Reopens ==
    "redim" \notin marred => Recovered(FirstDim).ok
=============================================================================
