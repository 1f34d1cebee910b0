-------------------------- MODULE RebalanceProofs --------------------------
(***************************************************************************)
(* Theorems about the transfer of a shard, for any ring walk, replication  *)
(* factor, level, lag and number of writes, and any of the scenarios.      *)
(***************************************************************************)
EXTENDS Rebalance, WellFoundedInduction, FiniteSetTheorems, SequenceTheorems, TLAPS

-----------------------------------------------------------------------------
(* Least and greatest members of a set of numbers.                         *)

\* A set of numbers has a least member.
LEMMA LeastNat ==
    ASSUME NEW T \in SUBSET Nat, T # {}
    PROVE  \E x \in T : \A y \in T : x <= y
<1>1. PICK x \in T : \A y \in T : ~(<<y, x>> \in OpToRel(<, Nat))
  BY NatLessThanWellFounded, WFMin, Zenon
<1>2. \A y \in T : y < x => <<y, x>> \in OpToRel(<, Nat)
  BY DEF OpToRel
<1>3. \A y \in T : ~(y < x)
  BY <1>1, <1>2, Zenon
<1> QED
  BY <1>3

\* A bounded set of numbers has a greatest member.
LEMMA GreatestNat ==
    ASSUME NEW b \in Nat, NEW T \in SUBSET (0 .. b), T # {}
    PROVE  \E x \in T : \A y \in T : x >= y
<1> DEFINE U == {u \in Nat : \E x \in T : u = b - x}
<1>0. \A x \in T : b - x \in U
  OBVIOUS
<1>1. U \in SUBSET Nat /\ U # {}
  BY <1>0
<1>2. PICK u \in U : \A y \in U : u <= y
  BY <1>1, LeastNat
<1>3. PICK x \in T : u = b - x
  OBVIOUS
<1>4. ASSUME NEW y \in T
      PROVE  x >= y
  <2>1. b - y \in U
    BY <1>0
  <2> QED
    BY <1>2, <1>3, <2>1
<1> QED
  BY <1>4

\* Max picks a member that no other exceeds.
LEMMA MaxIsGreatest ==
    ASSUME NEW b \in Nat, NEW T \in SUBSET (0 .. b), T # {}
    PROVE  Max(T) \in T /\ \A y \in T : Max(T) >= y
<1>1. \E x \in T : \A y \in T : x >= y
  BY GreatestNat
<1> QED
  BY <1>1 DEF Max

LEMMA MinIsMember ==
    ASSUME NEW T \in SUBSET Nat, T # {}
    PROVE  Min(T) \in T
<1>1. \E x \in T : \A y \in T : x <= y
  BY LeastNat
<1> QED
  BY <1>1 DEF Min

-----------------------------------------------------------------------------
(* The inductive invariant: the types, group by group.  A pass that marks  *)
(* itself Syncing or pulls has a source left.                              *)

Versions == 0 .. count.writes

MetaOK ==
    /\ meta \in Metadata /\ view \in [Nodes -> Metadata]
    /\ unseen \in [Nodes -> Seq(Metadata)] /\ \A n \in Nodes : Len(unseen[n]) <= MaxLag

DataOK == disk \in [Nodes -> Versions] /\ open \subseteq Nodes

PassRecord == [at : PassStates, sources : SUBSET Nodes, got : Versions]

PassOK ==
    /\ pass \in [Nodes -> PassRecord]
    /\ \A n \in Nodes : pass[n].at \in {"mark", "pull"} => pass[n].sources # {}

WriteRecord == [version : Versions, targets : SUBSET Nodes, acks : SUBSET Nodes,
                todo : SUBSET Nodes]

\* A write that has replicas to reach has a version.
ClientOK ==
    /\ dead \subseteq 1 .. count.writes /\ acked \in Versions
    /\ write \in WriteRecord /\ (write.todo # {} => write.version # 0)
    /\ hints \subseteq Nodes \X (1 .. count.writes)

CountRecord == [of : Scenarios, writes : Nat, reads : Nat, changes : Nat, faults : Nat,
                before : SUBSET Nodes, behind : BOOLEAN]

CountOK ==
    /\ count \in CountRecord
    /\ count.writes <= MaxWrites
    /\ count.reads <= count.of.reads /\ count.changes <= count.of.changes
    /\ count.faults <= count.of.faults

Typed == MetaOK /\ DataOK /\ PassOK /\ ClientOK /\ CountOK

LEMMA TypedIsTypeOK == Typed => TypeOK
<1> SUFFICES ASSUME Typed
             PROVE  TypeOK
  OBVIOUS
<1>1. count.of \in Scenario /\ count.writes \in Nat /\ count.of \in Scenarios
  BY ScenariosAssumption DEF Typed, CountOK, CountRecord
<1>a. count.before \subseteq Nodes /\ count.behind \in BOOLEAN
  BY DEF Typed, CountOK, CountRecord
<1>2. /\ count.writes \in 0 .. MaxWrites /\ count.reads \in 0 .. count.of.reads
      /\ count.changes \in 0 .. count.of.changes /\ count.faults \in 0 .. count.of.faults
  BY <1>1, LimitsAssumption DEF Typed, CountOK, CountRecord, Scenario
<1> QED
  BY <1>1, <1>a, <1>2 DEF Typed, TypeOK, MetaOK, DataOK, PassOK, PassRecord, ClientOK, WriteRecord,
                    Versions

-----------------------------------------------------------------------------
(* What a step does to each group.                                         *)

LEMMA MetaKept == MetaOK /\ UNCHANGED metaVars => MetaOK'
  BY DEF MetaOK, metaVars

LEMMA DataKept == DataOK /\ UNCHANGED dataVars /\ count'.writes = count.writes => DataOK'
  BY DEF DataOK, dataVars, Versions

LEMMA PassKept == PassOK /\ UNCHANGED pass /\ count'.writes = count.writes => PassOK'
  BY DEF PassOK, PassRecord, Versions

LEMMA ClientKept ==
    ClientOK /\ UNCHANGED clientVars /\ count'.writes = count.writes => ClientOK'
  BY DEF ClientOK, clientVars, WriteRecord, Versions

LEMMA CountKept == CountOK /\ UNCHANGED count => CountOK' /\ count'.writes = count.writes
  BY DEF CountOK

\* What a change counts.
LEMMA CountingChange ==
    ASSUME NEW r \in CountRecord, NEW S \in SUBSET Nodes
    PROVE  LET x == [r EXCEPT !.changes = @ + 1, !.before = S]
           IN  /\ x \in CountRecord /\ x.of = r.of /\ x.writes = r.writes /\ x.reads = r.reads
               /\ x.changes = r.changes + 1 /\ x.faults = r.faults /\ x.before = S
               /\ x.behind = r.behind
<1> DEFINE u == [r EXCEPT !.changes = @ + 1]
<1>1. /\ u \in CountRecord /\ u.of = r.of /\ u.writes = r.writes /\ u.reads = r.reads
      /\ u.changes = r.changes + 1 /\ u.faults = r.faults /\ u.behind = r.behind
  BY DEF CountRecord
<1>2. [r EXCEPT !.changes = @ + 1, !.before = S] = [u EXCEPT !.before = S]
  BY DEF CountRecord
<1> HIDE DEF u
<1>3. LET x == [u EXCEPT !.before = S]
      IN  /\ x \in CountRecord /\ x.of = u.of /\ x.writes = u.writes /\ x.reads = u.reads
          /\ x.changes = u.changes /\ x.faults = u.faults /\ x.before = S /\ x.behind = u.behind
  BY <1>1 DEF CountRecord
<1> QED
  BY <1>1, <1>2, <1>3

\* What a write counts.
LEMMA CountingWrite ==
    ASSUME NEW r \in CountRecord, NEW b \in BOOLEAN
    PROVE  LET y == [r EXCEPT !.writes = @ + 1, !.behind = b]
           IN  /\ y \in CountRecord /\ y.of = r.of /\ y.writes = r.writes + 1
               /\ y.reads = r.reads /\ y.changes = r.changes /\ y.faults = r.faults
               /\ y.before = r.before /\ y.behind = b /\ r.writes \in Nat
<1> DEFINE v == [r EXCEPT !.writes = @ + 1]
<1>1. /\ v \in CountRecord /\ v.of = r.of /\ v.writes = r.writes + 1 /\ v.reads = r.reads
      /\ v.changes = r.changes /\ v.faults = r.faults /\ v.before = r.before /\ r.writes \in Nat
  BY DEF CountRecord
<1>2. [r EXCEPT !.writes = @ + 1, !.behind = b] = [v EXCEPT !.behind = b]
  BY DEF CountRecord
<1> HIDE DEF v
<1>3. LET y == [v EXCEPT !.behind = b]
      IN  /\ y \in CountRecord /\ y.of = v.of /\ y.writes = v.writes /\ y.reads = v.reads
          /\ y.changes = v.changes /\ y.faults = v.faults /\ y.before = v.before /\ y.behind = b
  BY <1>1 DEF CountRecord
<1> QED
  BY <1>1, <1>2, <1>3

LEMMA FaultCounts ==
    ASSUME CountOK, NEW kind, Fault(kind)
    PROVE  /\ CountOK' /\ count'.writes = count.writes
           /\ count'.of = count.of /\ count'.before = count.before
           /\ count'.behind = count.behind /\ count'.faults = count.faults + 1
           /\ count.faults \in Nat
<1>1. /\ count' = [count EXCEPT !.faults = @ + 1] /\ count.faults < count.of.faults
      /\ count \in CountRecord
      /\ count.of \in Scenario
  BY ScenariosAssumption DEF Fault, CountOK, CountRecord
<1>2. /\ count' \in CountRecord
      /\ count'.of = count.of /\ count'.writes = count.writes /\ count'.reads = count.reads
      /\ count'.changes = count.changes /\ count'.faults = count.faults + 1
      /\ count'.before = count.before /\ count'.behind = count.behind
  BY <1>1 DEF CountRecord
<1>3. count.faults \in Nat /\ count.of.faults \in Nat
  BY <1>1 DEF Scenario, CountRecord
<1> QED
  BY <1>1, <1>2, <1>3 DEF CountOK

LEMMA CommitTyped ==
    ASSUME MetaOK, NEW m \in Metadata, NEW members \in SUBSET Nodes, Commit(m, members),
           UNCHANGED view
    PROVE  MetaOK'
<1>1. /\ meta' = m /\ \A n \in members : Len(unseen[n]) < MaxLag
      /\ unseen' = [n \in Nodes |-> IF n \in members THEN Append(unseen[n], m) ELSE unseen[n]]
  BY DEF Commit
<1>2. ASSUME NEW n \in Nodes
      PROVE  unseen'[n] \in Seq(Metadata) /\ Len(unseen'[n]) <= MaxLag
  <2>1. unseen[n] \in Seq(Metadata) /\ Len(unseen[n]) \in Nat /\ Len(unseen[n]) <= MaxLag
    BY LenProperties DEF MetaOK
  <2>2. CASE n \in members
    <3>1. /\ Append(unseen[n], m) \in Seq(Metadata)
          /\ Len(Append(unseen[n], m)) = Len(unseen[n]) + 1
      BY <2>1, AppendProperties
    <3> QED
      BY <1>1, <2>1, <2>2, <3>1, LimitsAssumption
  <2>3. CASE n \notin members
    BY <1>1, <2>1, <2>3
  <2> QED
    BY <2>2, <2>3
<1> QED
  BY <1>1, <1>2 DEF MetaOK

LEMMA RequestsTyped ==
    ASSUME NEW m \in Metadata, NEW n \in Nodes, NEW b \in BOOLEAN
    PROVE  /\ Register(m, n) \in Metadata /\ Deregister(m, n) \in Metadata
           /\ SetShardState(m, n, b) \in Metadata
  BY DEF Register, Deregister, SetShardState, Metadata

LEMMA ReplicasAreNodes ==
    ASSUME NEW m \in Metadata
    PROVE  Replicas(m) \in SUBSET Nodes
  BY DEF Replicas, Metadata

LEMMA GotoTyped ==
    ASSUME PassOK, NEW n \in Nodes, NEW p \in PassRecord,
           p.at \in {"mark", "pull"} => p.sources # {},
           Goto(n, p), count'.writes = count.writes
    PROVE  PassOK'
<1>1. /\ pass' = [pass EXCEPT ![n] = p] /\ PassRecord' = PassRecord
      /\ pass \in [Nodes -> PassRecord]
  BY DEF Goto, PassOK, PassRecord, Versions
<1>2. \A k \in Nodes : pass'[k] = IF k = n THEN p ELSE pass[k]
  BY <1>1
<1> QED
  BY <1>1, <1>2 DEF PassOK

\* An idle record, wherever the pass stands, and with what it has got.
LEMMA IdleTyped ==
    ASSUME CountOK, NEW at \in PassStates, NEW S \in SUBSET Nodes, NEW v \in Versions
    PROVE  /\ Idle \in PassRecord /\ Idle.at = "idle"
           /\ [Idle EXCEPT !.at = at] \in PassRecord /\ [Idle EXCEPT !.at = at].at = at
           /\ [Idle EXCEPT !.at = at, !.sources = S] \in PassRecord
           /\ [Idle EXCEPT !.at = at, !.sources = S].sources = S
           /\ [Idle EXCEPT !.at = at, !.got = v] \in PassRecord
           /\ [Idle EXCEPT !.at = at, !.got = v].at = at
<1>1. 0 \in Versions
  BY DEF CountOK, CountRecord, Versions
<1>2. "idle" \in PassStates /\ {} \in SUBSET Nodes
  BY DEF PassStates
<1>3. Idle \in PassRecord /\ Idle.at = "idle"
  BY <1>1, <1>2 DEF Idle, PassRecord
<1>4. [Idle EXCEPT !.at = at] \in PassRecord /\ [Idle EXCEPT !.at = at].at = at
  BY <1>3 DEF PassRecord
<1>5. /\ [Idle EXCEPT !.at = at, !.sources = S] \in PassRecord
      /\ [Idle EXCEPT !.at = at, !.sources = S].sources = S
  BY <1>3 DEF PassRecord
<1>6. /\ [Idle EXCEPT !.at = at, !.got = v] \in PassRecord
      /\ [Idle EXCEPT !.at = at, !.got = v].at = at
  BY <1>3 DEF PassRecord
<1> QED
  BY <1>3, <1>4, <1>5, <1>6

\* A store keeps the newer version.
LEMMA StoreAdvances ==
    ASSUME DataOK, CountOK, NEW n \in Nodes, NEW v \in Versions, Store(n, v),
           count'.writes = count.writes
    PROVE  disk' \in [Nodes -> Versions'] /\ \A k \in Nodes : disk'[k] >= disk[k]
<1>1. /\ disk' = [disk EXCEPT ![n] = Max({disk[n], v})] /\ Versions' = Versions
      /\ disk \in [Nodes -> 0 .. count.writes] /\ count.writes \in Nat
      /\ Versions = 0 .. count.writes
  BY DEF Store, DataOK, CountOK, CountRecord, Versions
<1>2. {disk[n], v} \in SUBSET (0 .. count.writes) /\ {disk[n], v} # {}
  BY <1>1
<1>3. Max({disk[n], v}) \in {disk[n], v} /\ Max({disk[n], v}) >= disk[n]
  BY <1>1, <1>2, MaxIsGreatest
<1> QED
  BY <1>1, <1>2, <1>3

Advances == \A n \in Nodes : disk'[n] >= disk[n]

LEMMA DiskKept ==
    ASSUME DataOK, CountOK, UNCHANGED disk
    PROVE  Advances
<1>1. \A n \in Nodes : disk[n] \in Nat
  BY DEF DataOK, CountOK, CountRecord, Versions
<1> QED
  BY <1>1 DEF Advances

LEMMA DataStored ==
    ASSUME DataOK, CountOK, NEW n \in Nodes, NEW v \in Versions, Store(n, v),
           count'.writes = count.writes, open' \subseteq open \cup {n}
    PROVE  DataOK' /\ Advances
<1>1. disk' \in [Nodes -> Versions'] /\ \A k \in Nodes : disk'[k] >= disk[k]
  BY StoreAdvances
<1>2. open' \subseteq Nodes
  BY DEF DataOK
<1> QED
  BY <1>1, <1>2 DEF DataOK, Advances

\* The nodes of a hint, its version, and those of the write under way.
LEMMA WriteTyped ==
    ASSUME ClientOK, CountOK
    PROVE  /\ write.version \in Versions /\ write.todo \subseteq Nodes
           /\ write.acks \subseteq Nodes /\ write.targets \subseteq Nodes
           /\ \A h \in hints : h[1] \in Nodes /\ h[2] \in Versions
           /\ NoWrite \in WriteRecord /\ NoWrite.todo = {}
<1>1. 0 \in Versions /\ \A v \in 1 .. count.writes : v \in Versions
  BY DEF CountOK, CountRecord, Versions
<1>2. NoWrite \in WriteRecord /\ NoWrite.todo = {}
  BY <1>1 DEF NoWrite, WriteRecord
<1>3. \A h \in hints : h[1] \in Nodes /\ h[2] \in Versions
  BY <1>1 DEF ClientOK
<1> QED
  BY <1>2, <1>3 DEF ClientOK, WriteRecord

-----------------------------------------------------------------------------
LEMMA TypedInit == Init => Typed
<1> SUFFICES ASSUME Init
             PROVE  Typed
  OBVIOUS
<1>1. PICK s \in Scenarios :
        count = [of |-> s, writes |-> 0, reads |-> 0, changes |-> 0, faults |-> 0,
                 before |-> Founders, behind |-> FALSE]
  BY DEF Init
<1>2. s \in Scenario /\ s.reads \in Nat /\ s.changes \in Nat /\ s.faults \in Nat
  BY ScenariosAssumption DEF Scenario
<1>3. CountOK
  BY <1>1, <1>2, LimitsAssumption, NodesAssumption DEF CountOK, CountRecord
<1>4. 0 \in Versions /\ Versions = 0 .. 0 /\ count.writes = 0
  BY <1>1 DEF Versions
<1>5. MetaOK
  <2>1. meta \in Metadata /\ NoMetadata \in Metadata
    BY NodesAssumption DEF Init, Metadata, NoMetadata
  <2>2. <<>> \in Seq(Metadata) /\ Len(<<>>) = 0
    BY EmptySeq
  <2>3. view \in [Nodes -> Metadata]
    BY <2>1 DEF Init
  <2>4. \A n \in Nodes : unseen[n] = <<>>
    BY DEF Init
  <2>5. unseen \in [Nodes -> Seq(Metadata)]
    BY <2>2 DEF Init
  <2>6. \A n \in Nodes : Len(unseen[n]) <= MaxLag
    BY <2>2, <2>4, LimitsAssumption
  <2> QED
    BY <2>1, <2>3, <2>5, <2>6 DEF MetaOK
<1>6. DataOK
  BY <1>4 DEF Init, DataOK
<1>7. PassOK
  <2>1. Idle \in PassRecord /\ Idle.at = "idle"
    BY <1>4 DEF Idle, PassRecord, PassStates
  <2> QED
    BY <2>1 DEF Init, PassOK
<1>8. ClientOK
  <2>1. NoWrite \in WriteRecord /\ NoWrite.todo = {}
    BY <1>4 DEF NoWrite, WriteRecord
  <2> QED
    BY <1>4, <2>1 DEF Init, ClientOK
<1> QED
  BY <1>3, <1>5, <1>6, <1>7, <1>8 DEF Typed

-----------------------------------------------------------------------------
(* Membership and the reconcile loop.                                      *)

LEMMA ChangeTyped ==
    ASSUME Typed, NEW m \in Metadata, NEW members \in SUBSET Nodes, Change(m, members)
    PROVE  Typed' /\ Advances
<1>0. MetaOK /\ DataOK /\ PassOK /\ ClientOK /\ CountOK
  BY DEF Typed
<1>1. /\ count.changes < count.of.changes /\ count' = [count EXCEPT !.changes = @ + 1, !.before = meta.nodes]
      /\ Commit(m, members) /\ UNCHANGED <<view, pass, dataVars, clientVars>>
  BY DEF Change
<1>2. CountOK' /\ count'.writes = count.writes
  <2>1. /\ count \in CountRecord
        /\ count.of \in Scenario
    BY <1>0, ScenariosAssumption DEF CountOK, CountRecord
  <2>2. /\ count' \in CountRecord
        /\ count'.of = count.of /\ count'.writes = count.writes /\ count'.reads = count.reads
        /\ count'.changes = count.changes + 1 /\ count'.faults = count.faults
    <3>1. meta.nodes \in SUBSET Nodes
      BY <1>0 DEF MetaOK, Metadata
    <3> QED
      BY <1>1, <2>1, <3>1, CountingChange
  <2>3. count.changes \in Nat /\ count.of.changes \in Nat
    BY <2>1 DEF Scenario, CountRecord
  <2> QED
    BY <1>0, <1>1, <2>2, <2>3 DEF CountOK
<1>3. MetaOK'
  BY <1>0, <1>1, CommitTyped
<1>4. DataOK' /\ PassOK' /\ ClientOK'
  BY <1>0, <1>1, <1>2, DataKept, PassKept, ClientKept
<1>5. Advances
  BY <1>0, <1>1, DiskKept DEF dataVars
<1> QED
  BY <1>2, <1>3, <1>4, <1>5 DEF Typed

LEMMA ApplyTyped ==
    ASSUME Typed, NEW n \in Nodes, Apply(n)
    PROVE  Typed' /\ Advances
<1>0. MetaOK /\ DataOK /\ PassOK /\ ClientOK /\ CountOK
  BY DEF Typed
<1>1. /\ unseen[n] # <<>> /\ view' = [view EXCEPT ![n] = Head(unseen[n])]
      /\ unseen' = [unseen EXCEPT ![n] = Tail(@)]
      /\ UNCHANGED <<meta, pass, count, dataVars, clientVars>>
  BY DEF Apply
<1>2. /\ Head(unseen[n]) \in Metadata /\ Tail(unseen[n]) \in Seq(Metadata)
      /\ Len(Tail(unseen[n])) <= MaxLag
  <2>1. unseen[n] \in Seq(Metadata) /\ Len(unseen[n]) <= MaxLag
    BY <1>0 DEF MetaOK
  <2>2. /\ Head(unseen[n]) \in Metadata /\ Tail(unseen[n]) \in Seq(Metadata)
        /\ Len(Tail(unseen[n])) = Len(unseen[n]) - 1 /\ Len(unseen[n]) \in Nat
    BY <1>1, <2>1, HeadTailProperties, LenProperties
  <2> QED
    BY <2>1, <2>2, LimitsAssumption
<1>3. MetaOK'
  BY <1>0, <1>1, <1>2 DEF MetaOK
<1>4. DataOK' /\ PassOK' /\ ClientOK' /\ CountOK'
  BY <1>0, <1>1, DataKept, PassKept, ClientKept, CountKept
<1>5. Advances
  BY <1>0, <1>1, DiskKept DEF dataVars
<1> QED
  BY <1>3, <1>4, <1>5 DEF Typed

LEMMA ReconcileTyped ==
    ASSUME Typed, NEW n \in Nodes, Reconcile(n)
    PROVE  Typed' /\ Advances
<1>0. /\ MetaOK /\ DataOK /\ PassOK /\ ClientOK /\ CountOK
      /\ meta \in Metadata /\ view[n] \in Metadata /\ pass[n] \in PassRecord
      /\ meta.nodes \in SUBSET Nodes
  BY DEF Typed, MetaOK, PassOK, Metadata
<1>a. PassStates = {"idle", "mark", "pull", "store", "activate"} /\ 0 \in Versions
  BY <1>0 DEF PassStates, CountOK, CountRecord, Versions
<1>1. CASE AcquireShard(n)
  <2>1. /\ Sources(n) # {} /\ Goto(n, [Idle EXCEPT !.at = "mark", !.sources = Sources(n)])
        /\ UNCHANGED <<count, metaVars, dataVars, clientVars>>
    BY <1>1 DEF AcquireShard
  <2>2. Sources(n) \in SUBSET Nodes
    BY <1>0, ReplicasAreNodes DEF Sources
  <2>3. /\ [Idle EXCEPT !.at = "mark", !.sources = Sources(n)] \in PassRecord
        /\ [Idle EXCEPT !.at = "mark", !.sources = Sources(n)].sources = Sources(n)
    BY <1>0, <1>a, <2>2, IdleTyped
  <2>4. CountOK' /\ count'.writes = count.writes
    BY <1>0, <2>1, CountKept
  <2>5. PassOK'
    BY <1>0, <2>1, <2>3, <2>4, GotoTyped
  <2>6. MetaOK' /\ DataOK' /\ ClientOK'
    BY <1>0, <2>1, <2>4, MetaKept, DataKept, ClientKept
  <2>7. Advances
    BY <1>0, <2>1, DiskKept DEF dataVars
  <2> QED
    BY <2>4, <2>5, <2>6, <2>7 DEF Typed
<1>2. CASE AcquireNew(n)
  <2>1. /\ open' = open \cup {n} /\ Goto(n, [Idle EXCEPT !.at = "activate"])
        /\ UNCHANGED <<disk, count, metaVars, clientVars>>
    BY <1>2 DEF AcquireNew
  <2>2. /\ [Idle EXCEPT !.at = "activate"] \in PassRecord
        /\ [Idle EXCEPT !.at = "activate"].at = "activate"
    BY <1>0, <1>a, IdleTyped
  <2>3. CountOK' /\ count'.writes = count.writes
    BY <1>0, <2>1, CountKept
  <2>4. PassOK'
    BY <1>0, <2>1, <2>2, <2>3, GotoTyped
  <2>5. MetaOK' /\ ClientOK'
    BY <1>0, <2>1, <2>3, MetaKept, ClientKept
  <2>6. DataOK'
    BY <1>0, <2>1, <2>3 DEF DataOK, Versions
  <2>7. Advances
    BY <1>0, <2>1, DiskKept
  <2> QED
    BY <2>3, <2>4, <2>5, <2>6, <2>7 DEF Typed
<1>3. CASE ReleaseShard(n)
  <2>1. open' = open \ {n} /\ UNCHANGED <<disk, pass, count, metaVars, clientVars>>
    BY <1>3 DEF ReleaseShard
  <2>2. CountOK' /\ count'.writes = count.writes
    BY <1>0, <2>1, CountKept
  <2>3. MetaOK' /\ PassOK' /\ ClientOK'
    BY <1>0, <2>1, <2>2, MetaKept, PassKept, ClientKept
  <2>4. DataOK'
    BY <1>0, <2>1, <2>2 DEF DataOK, Versions
  <2>5. Advances
    BY <1>0, <2>1, DiskKept
  <2> QED
    BY <2>2, <2>3, <2>4, <2>5 DEF Typed
<1>4. CASE MarkSyncing(n)
  <2>1. /\ pass[n].at = "mark" /\ Commit(SetShardState(meta, n, FALSE), meta.nodes)
        /\ Goto(n, [pass[n] EXCEPT !.at = "pull"])
        /\ UNCHANGED <<view, count, dataVars, clientVars>>
    BY <1>4 DEF MarkSyncing
  <2>2. /\ [pass[n] EXCEPT !.at = "pull"] \in PassRecord
        /\ [pass[n] EXCEPT !.at = "pull"].sources = pass[n].sources
    BY <1>0, <1>a DEF PassRecord
  <2>3. pass[n].sources # {}
    BY <1>0, <2>1 DEF PassOK
  <2>4. CountOK' /\ count'.writes = count.writes
    BY <1>0, <2>1, CountKept
  <2>5. PassOK'
    BY <1>0, <2>1, <2>2, <2>3, <2>4, GotoTyped
  <2>6. MetaOK'
    BY <1>0, <2>1, RequestsTyped, CommitTyped
  <2>7. DataOK' /\ ClientOK'
    BY <1>0, <2>1, <2>4, DataKept, ClientKept
  <2>8. Advances
    BY <1>0, <2>1, DiskKept DEF dataVars
  <2> QED
    BY <2>4, <2>5, <2>6, <2>7, <2>8 DEF Typed
<1>5. CASE PullShard(n)
  <2> DEFINE s == Min(pass[n].sources)
  <2> DEFINE v == IF s \in open THEN disk[s] ELSE 0
  <2>1. /\ pass[n].at = "pull" /\ Goto(n, [Idle EXCEPT !.at = "store", !.got = v])
        /\ UNCHANGED <<count, metaVars, dataVars, clientVars>>
    BY <1>5 DEF PullShard
  <2>2. v \in Versions
    <3>1. pass[n].sources # {} /\ pass[n].sources \in SUBSET Nodes
      BY <1>0, <2>1 DEF PassOK, PassRecord
    <3>2. pass[n].sources \in SUBSET Nat
      BY <3>1, NodesAssumption
    <3>3. s \in Nodes
      BY <3>1, <3>2, MinIsMember
    <3> HIDE DEF s
    <3>4. disk[s] \in Versions
      BY <1>0, <3>3 DEF DataOK
    <3> QED
      BY <1>a, <3>4
  <2> HIDE DEF s, v
  <2>3. /\ [Idle EXCEPT !.at = "store", !.got = v] \in PassRecord
        /\ [Idle EXCEPT !.at = "store", !.got = v].at = "store"
    <3>1. "store" \in PassStates /\ {} \in SUBSET Nodes
      BY <1>a
    <3> QED
      BY <1>0, <2>2, <3>1, IdleTyped
  <2>4. CountOK' /\ count'.writes = count.writes
    BY <1>0, <2>1, CountKept
  <2>5. PassOK'
    BY <1>0, <2>1, <2>3, <2>4, GotoTyped
  <2>6. MetaOK' /\ DataOK' /\ ClientOK'
    BY <1>0, <2>1, <2>4, MetaKept, DataKept, ClientKept
  <2>7. Advances
    BY <1>0, <2>1, DiskKept DEF dataVars
  <2> QED
    BY <2>4, <2>5, <2>6, <2>7 DEF Typed
<1>6. CASE StorePulled(n)
  <2>1. /\ Store(n, pass[n].got) /\ open' = IF pass[n].got # 0 THEN open \cup {n} ELSE open
        /\ Goto(n, [Idle EXCEPT !.at = "activate"]) /\ UNCHANGED <<count, metaVars, clientVars>>
    BY <1>6 DEF StorePulled
  <2>2. /\ [Idle EXCEPT !.at = "activate"] \in PassRecord
        /\ [Idle EXCEPT !.at = "activate"].at = "activate"
    BY <1>0, <1>a, IdleTyped
  <2>3. CountOK' /\ count'.writes = count.writes
    BY <1>0, <2>1, CountKept
  <2>4. PassOK'
    BY <1>0, <2>1, <2>2, <2>3, GotoTyped
  <2>5. MetaOK' /\ ClientOK'
    BY <1>0, <2>1, <2>3, MetaKept, ClientKept
  <2>6. pass[n].got \in Versions /\ open' \subseteq open \cup {n}
    BY <1>0, <2>1 DEF PassRecord
  <2>7. DataOK' /\ Advances
    BY <1>0, <2>1, <2>3, <2>6, DataStored
  <2> QED
    BY <2>3, <2>4, <2>5, <2>7 DEF Typed
<1>7. CASE MarkActive(n)
  <2>1. /\ Commit(SetShardState(meta, n, TRUE), meta.nodes) /\ Goto(n, Idle)
        /\ UNCHANGED <<view, count, dataVars, clientVars>>
    BY <1>7 DEF MarkActive, Return
  <2>2. Idle \in PassRecord /\ Idle.at = "idle"
    BY <1>0, <1>a, IdleTyped
  <2>3. CountOK' /\ count'.writes = count.writes
    BY <1>0, <2>1, CountKept
  <2>4. PassOK'
    BY <1>0, <2>1, <2>2, <2>3, GotoTyped
  <2>5. MetaOK'
    BY <1>0, <2>1, RequestsTyped, CommitTyped
  <2>6. DataOK' /\ ClientOK'
    BY <1>0, <2>1, <2>3, DataKept, ClientKept
  <2>7. Advances
    BY <1>0, <2>1, DiskKept DEF dataVars
  <2> QED
    BY <2>3, <2>4, <2>5, <2>6, <2>7 DEF Typed
<1> QED
  BY <1>1, <1>2, <1>3, <1>4, <1>5, <1>6, <1>7 DEF Reconcile

\* A fault of the reconcile loop: a commit or a pull that fails, a restart.
LEMMA LoopFaultTyped ==
    ASSUME Typed, NEW n \in Nodes, MarkFails(n) \/ PullFails(n) \/ Restart(n)
    PROVE  Typed' /\ Advances
<1>0. /\ MetaOK /\ DataOK /\ PassOK /\ ClientOK /\ CountOK
      /\ meta \in Metadata /\ pass[n] \in PassRecord /\ meta.nodes \in SUBSET Nodes
  BY DEF Typed, MetaOK, PassOK, Metadata
<1>a. Idle \in PassRecord /\ Idle.at = "idle"
  <2>1. "idle" \in PassStates /\ {} \in SUBSET Nodes /\ 0 \in Versions
    BY <1>0 DEF PassStates, CountOK, CountRecord, Versions
  <2> QED
    BY <1>0, <2>1, IdleTyped
<1>1. CASE MarkFails(n)
  <2>1. /\ Fault("commit") /\ Goto(n, Idle) /\ UNCHANGED <<view, dataVars, clientVars>>
        /\ \/ UNCHANGED <<meta, unseen>>
           \/ Commit(SetShardState(meta, n, pass[n].at = "activate"), meta.nodes)
    BY <1>1 DEF MarkFails, Return
  <2>2. CountOK' /\ count'.writes = count.writes
    BY <1>0, <2>1, FaultCounts
  <2>3. PassOK'
    BY <1>0, <1>a, <2>1, <2>2, GotoTyped
  <2>4. MetaOK'
    <3>1. CASE UNCHANGED <<meta, unseen>>
      BY <1>0, <2>1, <3>1, MetaKept DEF metaVars
    <3>2. CASE Commit(SetShardState(meta, n, pass[n].at = "activate"), meta.nodes)
      <4>1. (pass[n].at = "activate") \in BOOLEAN
        OBVIOUS
      <4>2. SetShardState(meta, n, pass[n].at = "activate") \in Metadata
        BY <1>0, <4>1, RequestsTyped
      <4> QED
        BY <1>0, <2>1, <3>2, <4>2, CommitTyped
    <3> QED
      BY <2>1, <3>1, <3>2
  <2>5. DataOK' /\ ClientOK'
    BY <1>0, <2>1, <2>2, DataKept, ClientKept
  <2>6. Advances
    BY <1>0, <2>1, DiskKept DEF dataVars
  <2> QED
    BY <2>2, <2>3, <2>4, <2>5, <2>6 DEF Typed
<1>2. CASE PullFails(n)
  <2> DEFINE s == Min(pass[n].sources)
  <2>1. /\ UNCHANGED count \/ Fault("pull")
        /\ IF pass[n].sources = {s}
             THEN Goto(n, Idle)
             ELSE Goto(n, [pass[n] EXCEPT !.sources = @ \ {s}])
        /\ pass[n].at = "pull" /\ UNCHANGED <<metaVars, dataVars, clientVars>>
    BY <1>2 DEF PullFails, Return
  <2> HIDE DEF s
  <2>2. CountOK' /\ count'.writes = count.writes
    BY <1>0, <2>1, CountKept, FaultCounts
  <2>3. PassOK'
    <3>1. CASE pass[n].sources = {s}
      BY <1>0, <1>a, <2>1, <2>2, <3>1, GotoTyped
    <3>2. CASE pass[n].sources # {s}
      <4>1. /\ [pass[n] EXCEPT !.sources = @ \ {s}] \in PassRecord
            /\ [pass[n] EXCEPT !.sources = @ \ {s}].sources = pass[n].sources \ {s}
        BY <1>0 DEF PassRecord
      <4>2. pass[n].sources \ {s} # {}
        BY <1>0, <2>1, <3>2 DEF PassOK
      <4> QED
        BY <1>0, <2>1, <2>2, <3>2, <4>1, <4>2, GotoTyped
    <3> QED
      BY <3>1, <3>2
  <2>4. MetaOK' /\ DataOK' /\ ClientOK'
    BY <1>0, <2>1, <2>2, MetaKept, DataKept, ClientKept
  <2>5. Advances
    BY <1>0, <2>1, DiskKept DEF dataVars
  <2> QED
    BY <2>2, <2>3, <2>4, <2>5 DEF Typed
<1>3. CASE Restart(n)
  <2>1. /\ Fault("restart") /\ open' = open \ {n} /\ Goto(n, Idle)
        /\ UNCHANGED <<disk, metaVars, clientVars>>
    BY <1>3 DEF Restart, Return
  <2>2. CountOK' /\ count'.writes = count.writes
    BY <1>0, <2>1, FaultCounts
  <2>3. PassOK'
    BY <1>0, <1>a, <2>1, <2>2, GotoTyped
  <2>4. MetaOK' /\ ClientOK'
    BY <1>0, <2>1, <2>2, MetaKept, ClientKept
  <2>5. DataOK'
    BY <1>0, <2>1, <2>2 DEF DataOK, Versions
  <2>6. Advances
    BY <1>0, <2>1, DiskKept
  <2> QED
    BY <2>2, <2>3, <2>4, <2>5, <2>6 DEF Typed
<1> QED
  BY <1>1, <1>2, <1>3

-----------------------------------------------------------------------------
(* Client traffic.                                                         *)

LEMMA BeginWriteTyped ==
    ASSUME Typed, NEW c \in Nodes, NEW t, BeginWrite(c, t)
    PROVE  Typed' /\ Advances
<1> DEFINE b == count.behind \/ view[c].nodes \notin {meta.nodes, count.before}
<1>0. /\ MetaOK /\ DataOK /\ PassOK /\ ClientOK /\ CountOK /\ view[c] \in Metadata
      /\ count \in CountRecord
      /\ Replicas(view[c]) \in SUBSET Nodes
  BY ReplicasAreNodes DEF Typed, MetaOK, CountOK
<1>1. /\ count.writes < MaxWrites /\ count' = [count EXCEPT !.writes = @ + 1, !.behind = b]
      /\ write' = [NoWrite EXCEPT !.version = count.writes + 1,
                                  !.targets = Replicas(view[c]), !.todo = Replicas(view[c])]
      /\ dead' = IF t THEN dead \cup {count.writes + 1} ELSE dead
      /\ UNCHANGED <<pass, hints, acked, metaVars, dataVars>>
  BY DEF BeginWrite
<1>2. /\ count' \in CountRecord
      /\ count'.of = count.of /\ count'.writes = count.writes + 1
      /\ count'.reads = count.reads /\ count'.changes = count.changes
      /\ count'.faults = count.faults /\ count.writes \in Nat
  <2>1. b \in BOOLEAN
    OBVIOUS
  <2> HIDE DEF b
  <2> QED
    BY <1>0, <1>1, <2>1, CountingWrite
<1>3. CountOK'
  BY <1>0, <1>1, <1>2, LimitsAssumption DEF CountOK
<1>4. /\ Versions' = 0 .. count.writes + 1 /\ Versions \subseteq Versions'
      /\ (1 .. count.writes)' = 1 .. count.writes + 1
      /\ 1 .. count.writes \subseteq 1 .. count.writes + 1
      /\ count.writes + 1 \in Versions' /\ count.writes + 1 # 0
      /\ count.writes + 1 \in 1 .. count.writes + 1 /\ 0 \in Versions'
  BY <1>2 DEF Versions
<1>5. MetaOK'
  BY <1>0, <1>1, MetaKept
<1>6. DataOK'
  BY <1>0, <1>1, <1>4 DEF DataOK, dataVars
<1>7. PassOK'
  <2>1. PassRecord \subseteq PassRecord'
    BY <1>4 DEF PassRecord
  <2> QED
    BY <1>0, <1>1, <2>1 DEF PassOK
<1>8. ClientOK'
  <2>1. write' \in WriteRecord' /\ write'.version = count.writes + 1
    <3>1. /\ NoWrite \in [version : Versions', targets : SUBSET Nodes, acks : SUBSET Nodes,
                          todo : SUBSET Nodes]
      BY <1>4 DEF NoWrite
    <3> QED
      BY <1>0, <1>1, <1>4, <3>1 DEF WriteRecord
  <2>2. dead' \subseteq 1 .. count.writes + 1
    BY <1>0, <1>1, <1>4 DEF ClientOK
  <2>3. acked' \in Versions'
    BY <1>0, <1>1, <1>4 DEF ClientOK
  <2>4. hints' \subseteq Nodes \X (1 .. count.writes + 1)
    BY <1>0, <1>1, <1>4 DEF ClientOK
  <2> QED
    BY <1>4, <2>1, <2>2, <2>3, <2>4 DEF ClientOK
<1>9. Advances
  BY <1>0, <1>1, DiskKept DEF dataVars
<1> QED
  BY <1>3, <1>5, <1>6, <1>7, <1>8, <1>9 DEF Typed

LEMMA WriteStepsTyped ==
    ASSUME Typed, NEW n \in Nodes, WriteAck(n) \/ WriteMiss(n)
    PROVE  Typed' /\ Advances
<1>0. /\ MetaOK /\ DataOK /\ PassOK /\ ClientOK /\ CountOK /\ write \in WriteRecord
      /\ write.version \in Versions
  BY WriteTyped DEF Typed, ClientOK
<1>1. CASE WriteAck(n)
  <2>1. /\ n \in write.todo /\ Store(n, write.version) /\ open' = open \cup {n}
        /\ write' = [write EXCEPT !.todo = @ \ {n}, !.acks = @ \cup {n}]
        /\ UNCHANGED <<pass, dead, hints, acked, count, metaVars>>
    BY <1>1 DEF WriteAck
  <2>2. CountOK' /\ count'.writes = count.writes
    BY <1>0, <2>1, CountKept
  <2>3. DataOK' /\ Advances
    BY <1>0, <2>1, <2>2, DataStored
  <2>4. MetaOK' /\ PassOK'
    BY <1>0, <2>1, <2>2, MetaKept, PassKept
  <2>5. write' \in WriteRecord /\ write'.version = write.version
    BY <1>0, <2>1 DEF WriteRecord
  <2>6. write.version # 0
    BY <1>0, <2>1 DEF ClientOK
  <2>7. ClientOK'
    BY <1>0, <2>1, <2>2, <2>5, <2>6 DEF ClientOK, WriteRecord, Versions
  <2> QED
    BY <2>2, <2>3, <2>4, <2>7 DEF Typed
<1>2. CASE WriteMiss(n)
  <2>1. /\ n \in write.todo /\ (UNCHANGED count \/ Fault("miss"))
        /\ hints' = hints \cup {<<n, write.version>>}
        /\ write' = [write EXCEPT !.todo = @ \ {n}]
        /\ UNCHANGED <<pass, dead, acked, metaVars, dataVars>>
    BY <1>2 DEF WriteMiss
  <2>2. CountOK' /\ count'.writes = count.writes
    BY <1>0, <2>1, CountKept, FaultCounts
  <2>3. DataOK' /\ MetaOK' /\ PassOK'
    BY <1>0, <2>1, <2>2, DataKept, MetaKept, PassKept
  <2>4. write' \in WriteRecord /\ write'.version = write.version
    BY <1>0, <2>1 DEF WriteRecord
  <2>5. write.version # 0
    BY <1>0, <2>1 DEF ClientOK
  <2>6. write.version \in 1 .. count.writes
    BY <1>0, <2>5 DEF CountOK, CountRecord, Versions
  <2>7. hints' \subseteq Nodes \X (1 .. count.writes)
    BY <1>0, <2>1, <2>6 DEF ClientOK
  <2>8. ClientOK'
    BY <1>0, <2>1, <2>2, <2>4, <2>5, <2>7 DEF ClientOK, WriteRecord, Versions
  <2>9. Advances
    BY <1>0, <2>1, DiskKept DEF dataVars
  <2> QED
    BY <2>2, <2>3, <2>8, <2>9 DEF Typed
<1> QED
  BY <1>1, <1>2

LEMMA FinishWriteTyped ==
    ASSUME Typed, FinishWrite
    PROVE  Typed' /\ Advances
<1>0. MetaOK /\ DataOK /\ PassOK /\ ClientOK /\ CountOK
  BY DEF Typed
<1>1. /\ acked' \in {write.version, acked} /\ write' = NoWrite
      /\ UNCHANGED <<pass, dead, hints, count, metaVars, dataVars>>
  BY DEF FinishWrite
<1>2. CountOK' /\ count'.writes = count.writes
  BY <1>0, <1>1, CountKept
<1>3. DataOK' /\ MetaOK' /\ PassOK'
  BY <1>0, <1>1, <1>2, DataKept, MetaKept, PassKept
<1>4. write.version \in Versions /\ NoWrite \in WriteRecord /\ NoWrite.todo = {}
  BY <1>0, WriteTyped
<1>5. Versions' = Versions /\ WriteRecord' = WriteRecord
  BY <1>2 DEF Versions, WriteRecord
<1>6. acked' \in Versions
  BY <1>0, <1>1, <1>4 DEF ClientOK
<1>7. ClientOK'
  BY <1>0, <1>1, <1>2, <1>4, <1>5, <1>6 DEF ClientOK
<1>8. Advances
  BY <1>0, <1>1, DiskKept DEF dataVars
<1> QED
  BY <1>2, <1>3, <1>7, <1>8 DEF Typed

LEMMA ReplayHintTyped ==
    ASSUME Typed, NEW h \in hints, ReplayHint(h[1], h[2])
    PROVE  Typed' /\ Advances
<1>0. MetaOK /\ DataOK /\ PassOK /\ ClientOK /\ CountOK
  BY DEF Typed
<1>1. h[1] \in Nodes /\ h[2] \in Versions
  BY <1>0, WriteTyped
<1>2. /\ Store(h[1], h[2]) /\ open' = open \cup {h[1]} /\ hints' = hints \ {<<h[1], h[2]>>}
      /\ UNCHANGED <<pass, dead, write, acked, count, metaVars>>
  BY DEF ReplayHint
<1>3. CountOK' /\ count'.writes = count.writes
  BY <1>0, <1>2, CountKept
<1>4. DataOK' /\ Advances
  BY <1>0, <1>1, <1>2, <1>3, DataStored
<1>5. MetaOK' /\ PassOK'
  BY <1>0, <1>2, <1>3, MetaKept, PassKept
<1>6. ClientOK'
  BY <1>0, <1>2, <1>3 DEF ClientOK, WriteRecord, Versions
<1> QED
  BY <1>3, <1>4, <1>5, <1>6 DEF Typed

\* Read repair raises the copies it reaches to the newest one that answered.
LEMMA ReadTyped ==
    ASSUME Typed, NEW c \in Nodes, NEW A \in SUBSET Replicas(view[c]), NEW R \in SUBSET A,
           Read(c, A, R)
    PROVE  Typed' /\ Advances
<1> DEFINE newest == Max({disk[n] : n \in A})
<1>0. /\ MetaOK /\ DataOK /\ PassOK /\ ClientOK /\ CountOK /\ view[c] \in Metadata
      /\ count \in CountRecord
      /\ Replicas(view[c]) \in SUBSET Nodes /\ count.of \in Scenario
  BY ReplicasAreNodes, ScenariosAssumption DEF Typed, MetaOK, CountOK, CountRecord
<1>1. /\ count.reads < count.of.reads /\ A # {} /\ R \subseteq {n \in A : disk[n] < newest}
      /\ count' = [count EXCEPT !.reads = @ + 1] /\ open' = open \cup A
      /\ disk' = [n \in Nodes |-> IF n \in R THEN newest ELSE disk[n]]
      /\ UNCHANGED <<pass, clientVars, metaVars>>
  BY DEF Read
<1>2. /\ count' \in CountRecord
      /\ count'.of = count.of /\ count'.writes = count.writes
      /\ count'.reads = count.reads + 1 /\ count'.changes = count.changes
      /\ count'.faults = count.faults
  BY <1>0, <1>1 DEF CountRecord
<1>3. count.reads \in Nat /\ count.of.reads \in Nat /\ count.writes \in Nat
  BY <1>0 DEF Scenario, CountRecord
<1>4. CountOK'
  BY <1>0, <1>1, <1>2, <1>3 DEF CountOK
<1>5. MetaOK' /\ PassOK' /\ ClientOK'
  BY <1>0, <1>1, <1>2, MetaKept, PassKept, ClientKept
<1>6. newest \in Versions /\ \A n \in A : newest >= disk[n]
  <2>1. {disk[n] : n \in A} \in SUBSET (0 .. count.writes)
    BY <1>0 DEF DataOK, Versions
  <2>2. {disk[n] : n \in A} # {}
    BY <1>1
  <2>3. newest \in {disk[n] : n \in A} /\ \A y \in {disk[n] : n \in A} : newest >= y
    BY <1>3, <2>1, <2>2, MaxIsGreatest
  <2> HIDE DEF newest
  <2> QED
    BY <2>1, <2>3 DEF Versions
<1> HIDE DEF newest
<1>7. \A n \in Nodes : disk[n] \in Versions /\ disk[n] \in Nat
  BY <1>0, <1>3 DEF DataOK, Versions
<1>8. Versions' = Versions
  BY <1>2 DEF Versions
<1>9. DataOK'
  BY <1>0, <1>1, <1>6, <1>7, <1>8 DEF DataOK
<1>10. Advances
  BY <1>0, <1>1, <1>6, <1>7 DEF Advances
<1> QED
  BY <1>4, <1>5, <1>9, <1>10 DEF Typed

-----------------------------------------------------------------------------
LEMMA TypedNext ==
    ASSUME Typed, [Next]_vars
    PROVE  Typed' /\ (Advances \/ UNCHANGED vars)
<1>0. meta \in Metadata /\ meta.nodes \in SUBSET Nodes
  BY DEF Typed, MetaOK, Metadata
<1>1. CASE Client
  BY <1>1, BeginWriteTyped, ReadTyped DEF Client
<1>2. CASE FinishWrite
  BY <1>2, FinishWriteTyped
<1>3. CASE \E h \in hints : ReplayHint(h[1], h[2])
  BY <1>3, ReplayHintTyped
<1>4. ASSUME NEW n \in Nodes, JoinNode(n) \/ LeaveNode(n)
      PROVE  Typed' /\ Advances
  <2>1. /\ Register(meta, n) \in Metadata /\ Deregister(meta, n) \in Metadata
        /\ meta.nodes \cup {n} \in SUBSET Nodes /\ meta.nodes \ {n} \in SUBSET Nodes
    BY <1>0, RequestsTyped
  <2> QED
    BY <1>4, <2>1, ChangeTyped DEF JoinNode, LeaveNode
<1>5. ASSUME NEW n \in Nodes,
             \/ Apply(n) \/ Restart(n) \/ Reconcile(n) \/ MarkFails(n) \/ PullFails(n)
             \/ WriteAck(n) \/ WriteMiss(n)
      PROVE  Typed' /\ Advances
  BY <1>5, ApplyTyped, LoopFaultTyped, ReconcileTyped, WriteStepsTyped
<1>6. CASE UNCHANGED vars
  BY <1>6 DEF Typed, MetaOK, DataOK, PassOK, PassRecord, ClientOK, WriteRecord, CountOK,
              Versions, vars, clientVars, dataVars, metaVars
<1> QED
  BY <1>1, <1>2, <1>3, <1>4, <1>5, <1>6 DEF Next

\* Whatever the nodes' metadata lags behind and whichever faults happen, every
\* variable keeps its type: in particular no copy, streamed record, hint or
\* acknowledgement has a version beyond the writes begun, the lag stays within
\* its bound, and a pass that pulls a shard always has a source left to ask.
THEOREM TypeCorrect == Spec => []TypeOK
<1>1. Typed /\ [Next]_vars => Typed'
  BY TypedNext
<1> QED
  BY <1>1, TypedInit, TypedIsTypeOK, PTL DEF Spec

\* Streaming, hint replay, read repair, live writes, releases of the shard and
\* restarts, in any order and on any membership: no node's copy ever goes back.
THEOREM DiskNeverGoesBack == Spec => DiskAdvances
<1>1. Typed /\ [Next]_vars => Typed'
  BY TypedNext
<1>2. Typed /\ [Next]_vars => [\A n \in Nodes : disk'[n] >= disk[n]]_vars
  BY TypedNext DEF Advances
<1> QED
  BY <1>1, <1>2, TypedInit, PTL DEF Spec, DiskAdvances

-----------------------------------------------------------------------------
(* Membership changes.  The replicas are the first RF members; one change  *)
(* displaces at most one of them and brings in at most one.                *)

Walk(S) == {n \in S : Place(n, S) < RF}

\* The members b are one change away from a.
OneApart(a, b) == \E n \in Nodes : b = a \cup {n} \/ b = a \ {n}

LEMMA ReplicasAreWalk == \A m : Replicas(m) = Walk(m.nodes)
  BY DEF Replicas, Walk

LEMMA PlaceType ==
    ASSUME NEW S \in SUBSET Nodes, NEW n \in Nodes
    PROVE  IsFiniteSet({k \in S : k < n}) /\ Place(n, S) \in Nat
<1>1. IsFiniteSet({k \in S : k < n})
  BY NodesAssumption, FS_Subset
<1> QED
  BY <1>1, FS_CardinalityType DEF Place

LEMMA PlaceGrows ==
    ASSUME NEW S \in SUBSET Nodes, NEW z \in Nodes, NEW n \in Nodes
    PROVE  Place(n, S) <= Place(n, S \cup {z}) /\ Place(n, S \cup {z}) <= Place(n, S) + 1
<1> DEFINE L == {k \in S : k < n}  K == {k \in S \cup {z} : k < n}
<1>1. /\ IsFiniteSet(L) /\ IsFiniteSet(K) /\ Place(n, S) = Cardinality(L)
      /\ Place(n, S \cup {z}) = Cardinality(K)
  <2>1. S \cup {z} \in SUBSET Nodes
    OBVIOUS
  <2> QED
    BY <2>1, PlaceType DEF Place
<1>2. L \subseteq K /\ K \subseteq L \cup {z}
  OBVIOUS
<1> HIDE DEF L, K
<1>3. Cardinality(L) <= Cardinality(K) /\ Cardinality(L) \in Nat /\ Cardinality(K) \in Nat
  BY <1>1, <1>2, FS_Subset, FS_CardinalityType
<1>4. /\ IsFiniteSet(L \cup {z})
      /\ Cardinality(L \cup {z}) = IF z \in L THEN Cardinality(L) ELSE Cardinality(L) + 1
  BY <1>1, FS_AddElement
<1>5. Cardinality(K) <= Cardinality(L \cup {z})
  BY <1>2, <1>4, FS_Subset
<1> QED
  BY <1>1, <1>3, <1>4, <1>5

LEMMA PlaceOrders ==
    ASSUME NEW S \in SUBSET Nodes, NEW x \in S, NEW y \in S, x < y
    PROVE  Place(x, S) < Place(y, S)
<1> DEFINE L == {k \in S : k < x}  K == {k \in S : k < y}
<1>0. x \in Nat /\ y \in Nat /\ \A k \in S : k \in Nat
  BY NodesAssumption
<1>1. IsFiniteSet(L) /\ IsFiniteSet(K) /\ Place(x, S) = Cardinality(L) /\ Place(y, S) = Cardinality(K)
  BY PlaceType DEF Place
<1>a. ~(x < x) /\ \A k \in S : k < x => k < y
  BY <1>0
<1>2. x \notin L /\ L \cup {x} \subseteq K
  BY <1>a, Zenon
<1> HIDE DEF L, K
<1>3. IsFiniteSet(L \cup {x}) /\ Cardinality(L \cup {x}) = Cardinality(L) + 1
  BY <1>1, <1>2, FS_AddElement
<1>4. Cardinality(L \cup {x}) <= Cardinality(K)
  BY <1>1, <1>2, <1>3, FS_Subset
<1>5. Cardinality(L) \in Nat /\ Cardinality(K) \in Nat
  BY <1>1, FS_CardinalityType
<1> QED
  BY <1>1, <1>3, <1>4, <1>5

\* The home node.
LEMMA HomeIsFirst ==
    ASSUME NEW S \in SUBSET Nodes, S # {}
    PROVE  \E n \in S : Place(n, S) = 0
<1>0. S \in SUBSET Nat /\ \A k \in S : k \in Nat
  BY NodesAssumption
<1>1. PICK n \in S : \A k \in S : n <= k
  BY <1>0, LeastNat
<1>2. \A k \in S : ~(k < n)
  BY <1>0, <1>1
<1>a. {k \in S : k < n} = {}
  BY <1>2, Zenon
<1>3. Place(n, S) = 0
  BY <1>a, FS_EmptySet DEF Place
<1> QED
  BY <1>3

LEMMA JoinedWalk ==
    ASSUME NEW a \in SUBSET Nodes, NEW z \in Nodes, a # {}, RF > 1
    PROVE  /\ \A x, y \in Walk(a \cup {z}) \ Walk(a) : x = y
           /\ \A x, y \in Walk(a) \ Walk(a \cup {z}) : x = y
           /\ Walk(a) \cap Walk(a \cup {z}) # {}
<1> DEFINE b == a \cup {z}
<1>0. RF \in Nat /\ Nodes \subseteq Nat /\ b \in SUBSET Nodes
  BY RFAssumption, NodesAssumption
<1>1. \A n \in a : /\ Place(n, a) \in Nat /\ Place(n, b) \in Nat
                   /\ Place(n, a) <= Place(n, b) /\ Place(n, b) <= Place(n, a) + 1
  BY <1>0, PlaceType, PlaceGrows
<1>2. \A x \in Walk(b) \ Walk(a) : x = z
  <2>1. SUFFICES ASSUME NEW x \in Walk(b) \ Walk(a), x # z
                 PROVE  FALSE
    OBVIOUS
  <2>2. x \in a /\ Place(x, b) < RF /\ ~(Place(x, a) < RF)
    BY <2>1 DEF Walk
  <2> HIDE DEF b
  <2> QED
    BY <1>0, <1>1, <2>2
<1> HIDE DEF b
<1>3. \A x, y \in Walk(a) \ Walk(b) : ~(x < y)
  <2>1. SUFFICES ASSUME NEW x \in Walk(a) \ Walk(b), NEW y \in Walk(a) \ Walk(b), x < y
                 PROVE  FALSE
    OBVIOUS
  <2>2. /\ x \in a /\ y \in a /\ Place(y, a) < RF /\ (x \notin b \/ ~(Place(x, b) < RF))
    BY <2>1 DEF Walk
  <2>3. x \in b
    BY <2>2 DEF b
  <2>4. Place(x, a) < Place(y, a)
    BY <2>1, <2>2, PlaceOrders
  <2> QED
    BY <1>0, <1>1, <2>2, <2>3, <2>4
<1>4. \A x, y \in Walk(a) \ Walk(b) : x = y
  <2>1. Walk(a) \subseteq Nat
    BY <1>0 DEF Walk
  <2> QED
    BY <1>3, <2>1
<1>5. PICK n \in a : Place(n, a) = 0
  BY HomeIsFirst
<1>6. n \in Walk(a) /\ n \in Walk(b)
  <2>1. n \in b
    BY DEF b
  <2> QED
    BY <1>0, <1>1, <1>5, <2>1 DEF Walk
<1> QED
  BY <1>2, <1>4, <1>6 DEF b

LEMMA WalksOverlap ==
    ASSUME NEW a \in SUBSET Nodes, NEW b \in SUBSET Nodes, a # {}, b # {}, OneApart(a, b), RF > 1
    PROVE  /\ \A x, y \in Walk(a) \ Walk(b) : x = y
           /\ \A x, y \in Walk(b) \ Walk(a) : x = y
           /\ Walk(a) \cap Walk(b) # {}
<1>1. PICK n \in Nodes : b = a \cup {n} \/ b = a \ {n}
  BY DEF OneApart
<1>2. CASE b = a \cup {n}
  BY <1>2, JoinedWalk
<1>3. CASE b = a \ {n} /\ n \in a
  <2>1. a = b \cup {n}
    BY <1>3
  <2>2. /\ \A x, y \in Walk(b \cup {n}) \ Walk(b) : x = y
        /\ \A x, y \in Walk(b) \ Walk(b \cup {n}) : x = y
        /\ Walk(b) \cap Walk(b \cup {n}) # {}
    BY JoinedWalk
  <2> QED
    BY <2>1, <2>2
<1>4. CASE b = a \ {n} /\ n \notin a
  <2>1. b = a
    BY <1>4
  <2>2. PICK z \in a : TRUE
    OBVIOUS
  <2>3. a = a \cup {z} /\ z \in Nodes
    OBVIOUS
  <2> QED
    BY <2>1, <2>3, JoinedWalk
<1> QED
  BY <1>1, <1>2, <1>3, <1>4

\* Enough of S cannot avoid a T that lacks one of S at most.
LEMMA EnoughMeets ==
    ASSUME NEW S, NEW T, NEW A \in SUBSET S, IsFiniteSet(S), S \cap T # {},
           \A x, y \in S \ T : x = y, Level # "ONE", Cardinality(A) >= Needed(Cardinality(S))
    PROVE  A \cap T # {}
<1>1. SUFFICES ASSUME A \cap T = {}
               PROVE  FALSE
  OBVIOUS
<1>2. PICK p \in S : p \in T
  OBVIOUS
<1>3. IsFiniteSet(A) /\ Cardinality(A) \in Nat /\ Cardinality(S) \in Nat
  BY FS_Subset, FS_CardinalityType
<1>4. Level \in {"QUORUM", "ALL"}
  BY LevelAssumption
<1>5. CASE A = {}
  <2>1. Cardinality(A) = 0
    BY <1>5, FS_EmptySet
  <2>2. Cardinality(S) # 0
    BY <1>2, FS_EmptySet
  <2> QED
    BY <1>3, <1>4, <2>1, <2>2 DEF Needed
<1>6. CASE A # {}
  <2>1. PICK x \in A : TRUE
    BY <1>6
  <2>2. A = {x} /\ x # p
    BY <1>1, <1>2
  <2>3. Cardinality(A) = 1
    BY <2>2, FS_Singleton
  <2>4. {x, p} \subseteq S /\ IsFiniteSet({x}) /\ Cardinality({x}) = 1
    BY <2>1, FS_Singleton
  <2>5. {x} \cup {p} = {x, p} /\ p \notin {x}
    BY <2>2
  <2>6. Cardinality({x, p}) = 2
    <3>1. Cardinality({x} \cup {p}) = Cardinality({x}) + 1
      BY <2>4, <2>5, FS_AddElement
    <3> QED
      BY <2>4, <2>5, <3>1
  <2>7. Cardinality(S) >= 2
    BY <1>3, <2>4, <2>6, FS_Subset
  <2>8. Needed(Cardinality(S)) >= 2
    BY <1>3, <1>4, <2>7 DEF Needed
  <2> QED
    BY <1>3, <2>3, <2>8, <1>4 DEF Needed
<1> QED
  BY <1>5, <1>6

-----------------------------------------------------------------------------
(* The inductive invariant of acknowledged data.                           *)

\* The members now and before the last change.
MembersSteady ==
    count.before # {} /\ meta.nodes # {} /\ OneApart(count.before, meta.nodes)

\* A write goes to the replicas of either, and who acknowledged it has it.
WriteSteady ==
    write # NoWrite =>
        /\ write.targets \in {Walk(meta.nodes), Walk(count.before)}
        /\ write.acks \subseteq write.targets /\ write.todo \subseteq write.targets
        /\ \A n \in write.acks : disk[n] >= write.version

Reached == \E n \in Walk(meta.nodes) : disk[n] >= acked

\* A node with metadata knows the collection.  What is committed has members, so
\* a node that knows the collection goes on knowing it, and a member knows it
\* or has still to apply it.
Known(n) == view[n].nodes # {}

ViewSteady ==
    /\ \A n \in Nodes : \A i \in 1 .. Len(unseen[n]) : unseen[n][i].nodes # {}
    /\ \A n \in meta.nodes : Known(n) \/ unseen[n] # <<>>

\* Without faults the replicas that stayed through the last change miss no write.
StayersSteady ==
    \A n \in Walk(count.before) :
        /\ write # NoWrite /\ n \in write.targets => n \in write.todo \cup write.acks
        /\ n \in Walk(meta.nodes) => disk[n] >= acked

KnownBefore == count.of.settled => \A n \in count.before : Known(n)

Steady ==
    /\ MembersSteady
    /\ Orderly => WriteSteady /\ Reached
    /\ Orderly /\ count.faults = 0 => StayersSteady

RInv == Typed /\ ViewSteady /\ KnownBefore /\ Steady

\* Steps that change neither the members nor the write, and only advance copies.
Background ==
    /\ meta'.nodes = meta.nodes /\ UNCHANGED <<write, acked>>
    /\ count'.of = count.of /\ count'.before = count.before /\ count'.behind = count.behind
    /\ count'.faults >= count.faults

LEMMA SetStateKeepsMembers ==
    ASSUME NEW m \in Metadata, NEW n \in Nodes, NEW b \in BOOLEAN
    PROVE  SetShardState(m, n, b).nodes = m.nodes
  BY DEF SetShardState, Metadata

LEMMA CountStays ==
    ASSUME CountOK, UNCHANGED count \/ \E kind : Fault(kind)
    PROVE  /\ count'.of = count.of /\ count'.before = count.before
           /\ count'.behind = count.behind /\ count'.faults >= count.faults
<1>1. count.faults \in Nat
  BY DEF CountOK, CountRecord
<1> QED
  BY <1>1, FaultCounts

LEMMA LoopIsBackground ==
    ASSUME Typed, NEW n \in Nodes,
           Apply(n) \/ Reconcile(n) \/ MarkFails(n) \/ PullFails(n) \/ Restart(n)
    PROVE  Background
<1>0. CountOK /\ meta \in Metadata
  BY DEF Typed, MetaOK
<1>1. UNCHANGED count \/ \E kind : Fault(kind)
  BY DEF Apply, Reconcile, AcquireShard, AcquireNew, ReleaseShard, MarkSyncing, PullShard,
         StorePulled, MarkActive, MarkFails, PullFails, Restart
<1>2. UNCHANGED <<write, acked>>
  BY DEF Apply, Reconcile, AcquireShard, AcquireNew, ReleaseShard, MarkSyncing, PullShard,
         StorePulled, MarkActive, MarkFails, PullFails, Restart, clientVars
<1>3. meta'.nodes = meta.nodes
  <2>1. \/ UNCHANGED meta \/ meta' = SetShardState(meta, n, TRUE)
        \/ meta' = SetShardState(meta, n, FALSE)
        \/ meta' = SetShardState(meta, n, pass[n].at = "activate")
    BY DEF Apply, Reconcile, AcquireShard, AcquireNew, ReleaseShard, MarkSyncing, PullShard,
           StorePulled, MarkActive, MarkFails, PullFails, Restart, Commit, metaVars
  <2>2. (pass[n].at = "activate") \in BOOLEAN
    OBVIOUS
  <2> QED
    BY <1>0, <2>1, <2>2, SetStateKeepsMembers
<1> QED
  BY <1>0, <1>1, <1>2, <1>3, CountStays DEF Background

LEMMA TrafficIsBackground ==
    ASSUME Typed,
           \/ \E h \in hints : ReplayHint(h[1], h[2])
           \/ \E c \in Nodes : \E A \in SUBSET Replicas(view[c]) : \E R \in SUBSET A : Read(c, A, R)
    PROVE  Background
<1>0. CountOK /\ count \in CountRecord
  BY DEF Typed, CountOK
<1>1. CASE \E h \in hints : ReplayHint(h[1], h[2])
  BY <1>0, <1>1, CountStays DEF ReplayHint, Background, metaVars
<1>2. CASE \E c \in Nodes : \E A \in SUBSET Replicas(view[c]) : \E R \in SUBSET A : Read(c, A, R)
  <2>1. count' = [count EXCEPT !.reads = @ + 1] /\ UNCHANGED <<clientVars, metaVars>>
    BY <1>2 DEF Read
  <2>2. /\ count'.of = count.of /\ count'.before = count.before
        /\ count'.behind = count.behind /\ count'.faults = count.faults /\ count.faults \in Nat
    BY <1>0, <2>1 DEF CountRecord
  <2> QED
    BY <2>1, <2>2 DEF Background, clientVars, metaVars
<1> QED
  BY <1>1, <1>2

-----------------------------------------------------------------------------
(* What the nodes know.                                                    *)

LEMMA CommitKeepsViews ==
    ASSUME Typed, ViewSteady, NEW m \in Metadata, NEW members \in SUBSET Nodes, m.nodes # {},
           m.nodes \subseteq members, Commit(m, members), UNCHANGED view
    PROVE  ViewSteady' /\ \A n \in Nodes : Known(n) => Known(n)'
<1>1. /\ meta' = m
      /\ unseen' = [n \in Nodes |-> IF n \in members THEN Append(unseen[n], m) ELSE unseen[n]]
  BY DEF Commit
<1>2. ASSUME NEW n \in Nodes
      PROVE  /\ \A i \in 1 .. Len(unseen'[n]) : unseen'[n][i].nodes # {}
             /\ n \in members => unseen'[n] # <<>>
  <2>1. unseen[n] \in Seq(Metadata) /\ \A i \in 1 .. Len(unseen[n]) : unseen[n][i].nodes # {}
    BY DEF Typed, MetaOK, ViewSteady
  <2>2. CASE n \in members
    <3>1. unseen'[n] = Append(unseen[n], m)
      BY <1>1, <2>2
    <3>2. /\ Len(Append(unseen[n], m)) = Len(unseen[n]) + 1 /\ Append(unseen[n], m) # <<>>
          /\ Append(unseen[n], m)[Len(unseen[n]) + 1] = m /\ Len(unseen[n]) \in Nat
          /\ \A i \in 1 .. Len(unseen[n]) : Append(unseen[n], m)[i] = unseen[n][i]
      BY <2>1, AppendProperties, LenProperties
    <3>3. \A i \in 1 .. Len(unseen[n]) + 1 : i \in 1 .. Len(unseen[n]) \/ i = Len(unseen[n]) + 1
      BY <3>2
    <3> QED
      BY <2>1, <3>1, <3>2, <3>3
  <2>3. CASE n \notin members
    BY <1>1, <2>1, <2>3
  <2> QED
    BY <2>2, <2>3
<1>3. meta'.nodes \subseteq Nodes /\ \A n \in meta'.nodes : unseen'[n] # <<>>
  BY <1>1, <1>2
<1> QED
  BY <1>2, <1>3 DEF ViewSteady, Known

LEMMA ApplyKeepsViews ==
    ASSUME Typed, ViewSteady, NEW n \in Nodes, Apply(n)
    PROVE  ViewSteady' /\ \A k \in Nodes : Known(k) => Known(k)'
<1>1. /\ unseen[n] # <<>> /\ view' = [view EXCEPT ![n] = Head(unseen[n])]
      /\ unseen' = [unseen EXCEPT ![n] = Tail(@)] /\ UNCHANGED meta
      /\ unseen \in [Nodes -> Seq(Metadata)] /\ view \in [Nodes -> Metadata]
      /\ meta.nodes \subseteq Nodes
  BY DEF Apply, Typed, MetaOK, Metadata
<1>2. unseen[n] \in Seq(Metadata) /\ Len(unseen[n]) \in Nat /\ Len(unseen[n]) # 0
  BY <1>1, LenProperties, EmptySeq
<1>3. Head(unseen[n]) = unseen[n][1] /\ 1 \in 1 .. Len(unseen[n])
  BY <1>2
<1>4. Head(unseen[n]).nodes # {}
  BY <1>3 DEF ViewSteady
<1>5. \A i \in 1 .. Len(Tail(unseen[n])) : Tail(unseen[n])[i].nodes # {}
  <2>1. /\ Len(Tail(unseen[n])) = Len(unseen[n]) - 1
        /\ \A i \in 1 .. Len(Tail(unseen[n])) : Tail(unseen[n])[i] = unseen[n][i + 1]
    BY <1>1, <1>2, HeadTailProperties
  <2>2. \A i \in 1 .. Len(unseen[n]) - 1 : i + 1 \in 1 .. Len(unseen[n])
    BY <1>2
  <2> QED
    BY <2>1, <2>2 DEF ViewSteady
<1>6. /\ view'[n] = Head(unseen[n]) /\ unseen'[n] = Tail(unseen[n])
      /\ \A k \in Nodes : k # n => view'[k] = view[k] /\ unseen'[k] = unseen[k]
  BY <1>1
<1> QED
  BY <1>1, <1>4, <1>5, <1>6 DEF ViewSteady, Known

LEMMA ViewsNext ==
    ASSUME Typed, MembersSteady, ViewSteady, [Next]_vars
    PROVE  ViewSteady' /\ \A n \in Nodes : Known(n) => Known(n)'
<1>0. /\ meta \in Metadata /\ meta.nodes \in SUBSET Nodes /\ meta.nodes # {}
  BY DEF Typed, MetaOK, Metadata, MembersSteady
<1>1. ASSUME UNCHANGED metaVars
      PROVE  ViewSteady' /\ \A n \in Nodes : Known(n) => Known(n)'
  BY <1>1 DEF ViewSteady, Known, metaVars
<1>2. CASE Client \/ FinishWrite \/ \E h \in hints : ReplayHint(h[1], h[2])
  BY <1>1, <1>2 DEF Client, BeginWrite, Read, FinishWrite, ReplayHint
<1>3. ASSUME NEW n \in Nodes, JoinNode(n) \/ LeaveNode(n)
      PROVE  ViewSteady' /\ \A k \in Nodes : Known(k) => Known(k)'
  <2>1. /\ Register(meta, n) \in Metadata /\ Deregister(meta, n) \in Metadata
        /\ Register(meta, n).nodes = meta.nodes \cup {n}
        /\ Deregister(meta, n).nodes = meta.nodes \ {n}
    BY <1>0 DEF Register, Deregister, Metadata
  <2>2. CASE JoinNode(n)
    <3>1. Commit(Register(meta, n), meta.nodes \cup {n}) /\ UNCHANGED view
      BY <2>2 DEF JoinNode, Change
    <3> QED
      BY <1>0, <2>1, <3>1, CommitKeepsViews
  <2>3. CASE LeaveNode(n)
    <3>1. /\ Commit(Deregister(meta, n), meta.nodes \ {n}) /\ UNCHANGED view
          /\ meta.nodes \ {n} # {}
      BY <1>0, <2>3 DEF LeaveNode, Change
    <3> QED
      BY <1>0, <2>1, <3>1, CommitKeepsViews
  <2> QED
    BY <1>3, <2>2, <2>3
<1>4. ASSUME NEW n \in Nodes, Reconcile(n) \/ MarkFails(n)
      PROVE  ViewSteady' /\ \A k \in Nodes : Known(k) => Known(k)'
  <2>1. \/ UNCHANGED metaVars
        \/ /\ UNCHANGED view
           /\ \E b \in BOOLEAN : Commit(SetShardState(meta, n, b), meta.nodes)
    <3>1. (pass[n].at = "activate") \in BOOLEAN
      OBVIOUS
    <3> QED
      BY <1>4, <3>1 DEF Reconcile, AcquireShard, AcquireNew, ReleaseShard, MarkSyncing,
         PullShard, StorePulled, MarkActive, MarkFails, metaVars
  <2>2. \A b \in BOOLEAN : /\ SetShardState(meta, n, b) \in Metadata
                           /\ SetShardState(meta, n, b).nodes = meta.nodes
    BY <1>0, RequestsTyped, SetStateKeepsMembers
  <2> QED
    BY <1>0, <1>1, <2>1, <2>2, CommitKeepsViews
<1>5. ASSUME NEW n \in Nodes, PullFails(n) \/ Restart(n) \/ WriteAck(n) \/ WriteMiss(n)
      PROVE  ViewSteady' /\ \A k \in Nodes : Known(k) => Known(k)'
  BY <1>1, <1>5 DEF PullFails, Restart, WriteAck, WriteMiss
<1>6. CASE UNCHANGED vars
  BY <1>1, <1>6 DEF vars, metaVars
<1> QED
  BY <1>2, <1>3, <1>4, <1>5, <1>6, ApplyKeepsViews DEF Next

-----------------------------------------------------------------------------
(* Every step keeps acknowledged data within reach.                        *)

LEMMA VersionsAreNumbers ==
    ASSUME Typed
    PROVE  /\ \A n \in Nodes : disk[n] \in Nat
           /\ acked \in Nat /\ write.version \in Nat /\ count.faults \in Nat
           /\ meta.nodes \in SUBSET Nodes /\ count.before \in SUBSET Nodes
           /\ meta \in Metadata /\ count \in CountRecord
  BY DEF Typed, MetaOK, Metadata, DataOK, ClientOK, WriteRecord, CountOK, CountRecord, Versions

LEMMA WalkWithin ==
    ASSUME NEW S \in SUBSET Nodes
    PROVE  Walk(S) \subseteq S /\ Walk(S) \subseteq Nodes /\ IsFiniteSet(Walk(S))
<1>1. Walk(S) \subseteq S /\ Walk(S) \subseteq Nodes
  BY DEF Walk
<1> QED
  BY <1>1, NodesAssumption, FS_Subset

LEMMA BackgroundSteady ==
    ASSUME Typed, Typed', Steady, Background, Advances
    PROVE  Steady'
<1>1. /\ \A n \in Nodes : disk[n] \in Nat /\ disk'[n] \in Nat /\ disk'[n] >= disk[n]
      /\ acked \in Nat /\ write.version \in Nat /\ acked' = acked /\ write' = write
      /\ count.faults \in Nat /\ count'.faults \in Nat /\ count'.faults >= count.faults
  BY VersionsAreNumbers DEF Advances, Background, Typed, DataOK, CountOK, CountRecord, Versions
<1>2. /\ Walk(meta'.nodes) = Walk(meta.nodes) /\ Walk(count'.before) = Walk(count.before)
      /\ Walk(meta.nodes) \subseteq Nodes /\ Walk(count.before) \subseteq Nodes
  BY VersionsAreNumbers, WalkWithin DEF Background
<1>3. MembersSteady'
  BY DEF Steady, MembersSteady, Background
<1>4. Orderly' => Orderly
  BY DEF Orderly, Background
<1>5. ASSUME Orderly'
      PROVE  WriteSteady' /\ Reached'
  <2>1. WriteSteady /\ Reached
    BY <1>4, <1>5 DEF Steady
  <2>2. WriteSteady'
    <3>1. SUFFICES ASSUME write # NoWrite
                   PROVE  \A n \in write.acks : disk'[n] >= write.version
      BY <1>1, <1>2, <2>1 DEF WriteSteady
    <3>2. write.acks \subseteq Nodes /\ \A n \in write.acks : disk[n] >= write.version
      BY <1>2, <2>1, <3>1 DEF WriteSteady
    <3> QED
      BY <1>1, <3>2
  <2> QED
    BY <1>1, <1>2, <2>1, <2>2 DEF Reached
<1>6. ASSUME Orderly', count'.faults = 0
      PROVE  StayersSteady'
  <2>1. StayersSteady
    BY <1>1, <1>4, <1>6 DEF Steady
  <2> QED
    BY <1>1, <1>2, <2>1 DEF StayersSteady
<1> QED
  BY <1>3, <1>5, <1>6 DEF Steady

\* The settled state before a change has every replica up to date.
LEMMA ChangeSteady ==
    ASSUME Typed, Typed', Steady, NEW m \in Metadata, NEW members \in SUBSET Nodes,
           Change(m, members), m.nodes # {}, OneApart(meta.nodes, m.nodes)
    PROVE  Steady'
<1>0. /\ \A n \in Nodes : disk[n] \in Nat
      /\ meta.nodes \in SUBSET Nodes /\ meta.nodes # {} /\ count \in CountRecord
      /\ m.nodes \in SUBSET Nodes
  BY VersionsAreNumbers DEF Steady, MembersSteady, Metadata
<1>1. /\ meta' = m /\ count' = [count EXCEPT !.changes = @ + 1, !.before = meta.nodes]
      /\ disk' = disk /\ write' = write /\ acked' = acked
      /\ count.of.settled => Settled
  BY DEF Change, Commit, dataVars, clientVars
<1>2. count'.of = count.of /\ count'.before = meta.nodes
  BY <1>0, <1>1, CountingChange
<1>3. MembersSteady'
  BY <1>0, <1>1, <1>2 DEF MembersSteady
<1>4. ASSUME Orderly'
      PROVE  WriteSteady' /\ Reached' /\ StayersSteady'
  <2>1. RF > 1 /\ Settled
    BY <1>1, <1>2, <1>4 DEF Orderly
  <2>2. write = NoWrite /\ \A n \in Walk(meta.nodes) : disk[n] >= acked
    BY <2>1, ReplicasAreWalk DEF Settled
  <2>3. Walk(meta.nodes) \cap Walk(m.nodes) # {}
    BY <1>0, <2>1, WalksOverlap
  <2> QED
    BY <1>1, <1>2, <2>2, <2>3 DEF WriteSteady, Reached, StayersSteady
<1> QED
  BY <1>3, <1>4 DEF Steady

LEMMA BeginWriteSteady ==
    ASSUME Typed, Steady, NEW c \in Nodes, NEW t, BeginWrite(c, t)
    PROVE  Steady'
<1> DEFINE b == count.behind \/ view[c].nodes \notin {meta.nodes, count.before}
           T == Walk(view[c].nodes)
<1>0. count \in CountRecord /\ count.behind \in BOOLEAN
  BY VersionsAreNumbers DEF CountRecord
<1>1. /\ count' = [count EXCEPT !.writes = @ + 1, !.behind = b]
      /\ write' = [NoWrite EXCEPT !.version = count.writes + 1, !.targets = T, !.todo = T]
      /\ disk' = disk /\ acked' = acked /\ meta' = meta
  BY ReplicasAreWalk DEF BeginWrite, dataVars, metaVars
<1>2. /\ count'.of = count.of /\ count'.before = count.before /\ count'.behind = b
      /\ count'.faults = count.faults
  <2>1. b \in BOOLEAN
    BY <1>0
  <2> HIDE DEF b
  <2> QED
    BY <1>0, <1>1, <2>1, CountingWrite
<1>3. write'.targets = T /\ write'.todo = T /\ write'.acks = {}
  BY <1>1 DEF NoWrite
<1> HIDE DEF T
<1>4. MembersSteady'
  BY <1>1, <1>2 DEF Steady, MembersSteady
<1>5. ASSUME Orderly'
      PROVE  Orderly /\ T \in {Walk(meta.nodes), Walk(count.before)}
  BY <1>0, <1>2, <1>5 DEF Orderly, T
<1>6. Orderly' => WriteSteady' /\ Reached'
  BY <1>1, <1>2, <1>3, <1>5 DEF Steady, WriteSteady, Reached
<1>7. Orderly' /\ count'.faults = 0 => StayersSteady'
  BY <1>1, <1>2, <1>3, <1>5 DEF Steady, StayersSteady
<1> QED
  BY <1>4, <1>6, <1>7 DEF Steady

LEMMA StoredIsThere ==
    ASSUME Typed, NEW n \in Nodes, NEW v \in Versions, Store(n, v)
    PROVE  disk'[n] >= v
<1>1. /\ disk' = [disk EXCEPT ![n] = Max({disk[n], v})] /\ Versions = 0 .. count.writes
      /\ disk \in [Nodes -> 0 .. count.writes] /\ count.writes \in Nat
  BY DEF Store, Typed, DataOK, CountOK, CountRecord, Versions
<1>2. {disk[n], v} \in SUBSET (0 .. count.writes) /\ {disk[n], v} # {}
  BY <1>1
<1>3. Max({disk[n], v}) >= v
  BY <1>1, <1>2, MaxIsGreatest
<1> QED
  BY <1>1, <1>3

LEMMA WriteAckSteady ==
    ASSUME Typed, Typed', Steady, Advances, NEW n \in Nodes, WriteAck(n)
    PROVE  Steady'
<1>1. /\ n \in write.todo /\ Store(n, write.version)
      /\ write' = [write EXCEPT !.todo = @ \ {n}, !.acks = @ \cup {n}]
      /\ count' = count /\ meta' = meta /\ acked' = acked
      /\ write \in WriteRecord /\ write.version \in Versions
  BY WriteTyped DEF WriteAck, metaVars, Typed, ClientOK
<1>2. /\ write'.targets = write.targets /\ write'.todo = write.todo \ {n}
      /\ write'.acks = write.acks \cup {n} /\ write'.version = write.version
  BY <1>1 DEF WriteRecord
<1>3. disk'[n] >= write.version
  BY <1>1, StoredIsThere
<1>4. /\ \A k \in Nodes : disk[k] \in Nat /\ disk'[k] \in Nat /\ disk'[k] >= disk[k]
      /\ acked \in Nat /\ write.version \in Nat
      /\ Walk(meta.nodes) \subseteq Nodes /\ Walk(count.before) \subseteq Nodes
  BY VersionsAreNumbers, WalkWithin DEF Advances, Typed, DataOK, CountOK, CountRecord, Versions
<1>5. write # NoWrite
  BY <1>1 DEF NoWrite
<1>6. MembersSteady' /\ (Orderly' <=> Orderly)
  BY <1>1 DEF Steady, MembersSteady, Orderly
<1>7. ASSUME Orderly
      PROVE  WriteSteady' /\ Reached'
  <2>1. /\ write.targets \in {Walk(meta.nodes), Walk(count.before)}
        /\ write.acks \subseteq write.targets /\ write.todo \subseteq write.targets
        /\ \A k \in write.acks : disk[k] >= write.version
    BY <1>5, <1>7 DEF Steady, WriteSteady
  <2>2. write.acks \subseteq Nodes
    BY <1>4, <2>1
  <2>3. \A k \in write.acks : disk'[k] >= write.version
    BY <1>4, <2>1, <2>2
  <2>4. WriteSteady'
    BY <1>1, <1>2, <1>3, <2>1, <2>3 DEF WriteSteady
  <2>5. Reached'
    BY <1>1, <1>4, <1>7 DEF Steady, Reached
  <2> QED
    BY <2>4, <2>5
<1>8. ASSUME Orderly, count.faults = 0
      PROVE  StayersSteady'
  <2>1. StayersSteady
    BY <1>8 DEF Steady
  <2> QED
    BY <1>1, <1>2, <1>4, <1>5, <2>1 DEF StayersSteady
<1> QED
  BY <1>1, <1>6, <1>7, <1>8 DEF Steady

\* A replica from before the last change knows the collection: it misses a write
\* by a fault only.
LEMMA WriteMissSteady ==
    ASSUME Typed, Typed', Steady, KnownBefore, NEW n \in Nodes, WriteMiss(n)
    PROVE  Steady'
<1>1. /\ n \in write.todo /\ (IF view[n] = NoMetadata THEN UNCHANGED count ELSE Fault("miss"))
      /\ write' = [write EXCEPT !.todo = @ \ {n}]
      /\ meta' = meta /\ acked' = acked /\ disk' = disk
      /\ write \in WriteRecord /\ CountOK
  BY DEF WriteMiss, metaVars, dataVars, Typed, ClientOK
<1>2. /\ write'.targets = write.targets /\ write'.todo = write.todo \ {n}
      /\ write'.acks = write.acks /\ write'.version = write.version
  BY <1>1 DEF WriteRecord
<1>3. /\ count'.of = count.of /\ count'.before = count.before /\ count'.behind = count.behind
      /\ count'.faults >= count.faults /\ count.faults \in Nat /\ count'.faults \in Nat
  BY <1>1, CountStays, VersionsAreNumbers DEF Typed, CountOK, CountRecord
<1>4. ASSUME Orderly', count'.faults = 0, n \in Walk(count.before)
      PROVE  FALSE
  <2>1. n \in count.before /\ count.of.settled
    BY <1>3, <1>4 DEF Walk, Orderly
  <2>2. view[n] # NoMetadata
    BY <2>1 DEF KnownBefore, Known, NoMetadata
  <2>3. count'.faults = count.faults + 1
    BY <1>1, <2>2, FaultCounts
  <2> QED
    BY <1>3, <1>4, <2>3
<1>5. write # NoWrite
  BY <1>1 DEF NoWrite
<1>6. MembersSteady' /\ (Orderly' <=> Orderly)
  BY <1>1, <1>3 DEF Steady, MembersSteady, Orderly
<1>7. Orderly => WriteSteady' /\ Reached'
  BY <1>1, <1>2, <1>3, <1>5 DEF Steady, WriteSteady, Reached
<1>8. ASSUME Orderly', count'.faults = 0
      PROVE  StayersSteady'
  <2>1. StayersSteady /\ n \notin Walk(count.before)
    BY <1>3, <1>4, <1>6, <1>8 DEF Steady
  <2> QED
    BY <1>1, <1>2, <1>3, <1>5, <2>1 DEF StayersSteady
<1> QED
  BY <1>6, <1>7, <1>8 DEF Steady

\* Enough acknowledgements on either set of replicas include one of the current set.
LEMMA FinishWriteSteady ==
    ASSUME Typed, Steady, FinishWrite
    PROVE  Steady'
<1>1. /\ write # NoWrite /\ write.todo = {} /\ write' = NoWrite
      /\ \/ acked' = acked
         \/ /\ acked' = write.version
            /\ Cardinality(write.acks) >= Needed(Cardinality(write.targets))
      /\ count' = count /\ meta' = meta /\ disk' = disk
  BY DEF FinishWrite, metaVars, dataVars
<1>2. MembersSteady' /\ (Orderly' <=> Orderly)
  BY <1>1 DEF Steady, MembersSteady, Orderly
<1>3. WriteSteady'
  BY <1>1 DEF WriteSteady
<1>4. ASSUME Orderly
      PROVE  /\ write.targets \in {Walk(meta.nodes), Walk(count.before)}
             /\ write.acks \subseteq write.targets
             /\ \A k \in write.acks : disk[k] >= write.version
  BY <1>1, <1>4 DEF Steady, WriteSteady
<1>5. ASSUME Orderly
      PROVE  Reached'
  <2>1. CASE acked' = acked
    BY <1>1, <1>5, <2>1 DEF Steady, Reached
  <2>2. CASE /\ acked' = write.version
             /\ Cardinality(write.acks) >= Needed(Cardinality(write.targets))
    <3> DEFINE S == write.targets
               T == Walk(meta.nodes)
    <3>1. /\ meta.nodes \in SUBSET Nodes /\ count.before \in SUBSET Nodes
          /\ meta.nodes # {} /\ count.before # {} /\ OneApart(count.before, meta.nodes)
          /\ RF > 1 /\ Level # "ONE"
      BY <1>5, VersionsAreNumbers DEF Steady, MembersSteady, Orderly
    <3>2. /\ \A x, y \in Walk(count.before) \ T : x = y
          /\ Walk(count.before) \cap T # {}
      BY <3>1, WalksOverlap
    <3>3. IsFiniteSet(S) /\ S \cap T # {} /\ \A x, y \in S \ T : x = y
      BY <1>4, <1>5, <3>1, <3>2, WalkWithin
    <3> HIDE DEF S, T
    <3>4. write.acks \in SUBSET S /\ Cardinality(write.acks) >= Needed(Cardinality(S))
      BY <1>4, <1>5, <2>2 DEF S
    <3>5. write.acks \cap T # {}
      BY <3>1, <3>3, <3>4, EnoughMeets
    <3> QED
      BY <1>1, <1>4, <1>5, <2>2, <3>5 DEF Reached, T
  <2> QED
    BY <1>1, <2>1, <2>2
<1>6. ASSUME Orderly, count.faults = 0
      PROVE  StayersSteady'
  <2>1. StayersSteady
    BY <1>6 DEF Steady
  <2>2. SUFFICES ASSUME NEW n \in Walk(count.before), n \in Walk(meta.nodes)
                 PROVE  disk[n] >= acked'
    BY <1>1 DEF StayersSteady
  <2>3. disk[n] >= acked
    BY <2>1, <2>2 DEF StayersSteady
  <2>4. n \in write.targets
    BY <1>4, <1>6, <2>2
  <2>5. n \in write.acks
    BY <1>1, <2>1, <2>4 DEF StayersSteady
  <2> QED
    BY <1>1, <1>4, <1>6, <2>3, <2>5
<1> QED
  BY <1>1, <1>2, <1>3, <1>5, <1>6 DEF Steady

LEMMA KnownNext ==
    ASSUME RInv, RInv => \A n \in Nodes : Known(n) => Known(n)', [Next]_vars
    PROVE  KnownBefore'
<1>0. /\ count.before \in SUBSET Nodes /\ meta.nodes \in SUBSET Nodes
      /\ count \in CountRecord
  BY VersionsAreNumbers DEF RInv
<1>1. ASSUME count'.of = count.of, count'.before = count.before
      PROVE  KnownBefore'
  BY <1>0, <1>1 DEF RInv, KnownBefore
<1>2. ASSUME NEW n \in Nodes, JoinNode(n) \/ LeaveNode(n)
      PROVE  KnownBefore'
  <2>1. /\ count' = [count EXCEPT !.changes = @ + 1, !.before = meta.nodes]
        /\ count.of.settled => Settled
    BY <1>2 DEF JoinNode, LeaveNode, Change
  <2>2. count'.of = count.of /\ count'.before = meta.nodes
    BY <1>0, <2>1, CountingChange
  <2>3. count.of.settled => \A k \in meta.nodes : unseen[k] = <<>>
    BY <2>1 DEF Settled, Quiet
  <2>4. count.of.settled => \A k \in meta.nodes : Known(k)
    BY <2>3 DEF RInv, ViewSteady
  <2> QED
    BY <1>0, <2>2, <2>4 DEF KnownBefore
<1>3. ASSUME NEW c \in Nodes, NEW t, BeginWrite(c, t)
      PROVE  KnownBefore'
  <2> DEFINE b == count.behind \/ view[c].nodes \notin {meta.nodes, count.before}
  <2>1. count' = [count EXCEPT !.writes = @ + 1, !.behind = b] /\ b \in BOOLEAN
    BY <1>0, <1>3 DEF BeginWrite, CountRecord
  <2> QED
    BY <1>0, <1>1, <2>1, CountingWrite
<1>4. ASSUME Background
      PROVE  KnownBefore'
  BY <1>1, <1>4 DEF Background
<1>5. ASSUME NEW n \in Nodes, WriteAck(n) \/ WriteMiss(n)
      PROVE  KnownBefore'
  BY <1>1, <1>5, CountStays DEF WriteAck, WriteMiss, RInv, Typed
<1>6. CASE FinishWrite \/ UNCHANGED vars
  BY <1>1, <1>6 DEF FinishWrite, vars
<1> QED
  BY <1>2, <1>3, <1>4, <1>5, <1>6, LoopIsBackground, TrafficIsBackground
  DEF Next, Client, RInv

LEMMA SteadyNext ==
    ASSUME RInv, Typed', Advances \/ UNCHANGED vars, [Next]_vars
    PROVE  Steady'
<1>0. /\ Typed /\ Steady /\ KnownBefore
      /\ meta \in Metadata /\ meta.nodes \in SUBSET Nodes /\ meta.nodes # {}
  BY VersionsAreNumbers DEF RInv, Steady, MembersSteady
<1>1. CASE UNCHANGED vars
  BY <1>0, <1>1 DEF Steady, MembersSteady, WriteSteady, Reached, StayersSteady, Orderly, vars
<1>2. ASSUME NEW n \in Nodes, JoinNode(n) \/ LeaveNode(n)
      PROVE  Steady'
  <2>1. /\ Register(meta, n) \in Metadata /\ Deregister(meta, n) \in Metadata
        /\ Register(meta, n).nodes = meta.nodes \cup {n}
        /\ Deregister(meta, n).nodes = meta.nodes \ {n}
    BY <1>0 DEF Register, Deregister, Metadata
  <2>2. /\ OneApart(meta.nodes, meta.nodes \cup {n}) /\ OneApart(meta.nodes, meta.nodes \ {n})
        /\ meta.nodes \cup {n} \in SUBSET Nodes /\ meta.nodes \ {n} \in SUBSET Nodes
    BY <1>0 DEF OneApart
  <2>3. CASE JoinNode(n)
    <3>1. Change(Register(meta, n), meta.nodes \cup {n}) /\ meta.nodes \cup {n} # {}
      BY <2>3 DEF JoinNode
    <3> QED
      BY <1>0, <2>1, <2>2, <3>1, ChangeSteady
  <2>4. CASE LeaveNode(n)
    <3>1. Change(Deregister(meta, n), meta.nodes \ {n}) /\ meta.nodes \ {n} # {}
      BY <1>0, <2>4 DEF LeaveNode
    <3> QED
      BY <1>0, <2>1, <2>2, <3>1, ChangeSteady
  <2> QED
    BY <1>2, <2>3, <2>4
<1>3. ASSUME Background, Advances
      PROVE  Steady'
  BY <1>0, <1>3, BackgroundSteady
<1>4. ASSUME NEW n \in Nodes, WriteAck(n) \/ WriteMiss(n), Advances
      PROVE  Steady'
  BY <1>0, <1>4, WriteAckSteady, WriteMissSteady
<1>5. CASE FinishWrite
  BY <1>0, <1>5, FinishWriteSteady
<1>6. ASSUME NEW c \in Nodes, NEW t, BeginWrite(c, t)
      PROVE  Steady'
  BY <1>0, <1>6, BeginWriteSteady
<1> QED
  BY <1>0, <1>1, <1>2, <1>3, <1>4, <1>5, <1>6, LoopIsBackground, TrafficIsBackground
  DEF Next, Client

LEMMA RInvNext == RInv /\ [Next]_vars => RInv'
<1>1. SUFFICES ASSUME RInv, [Next]_vars
               PROVE  RInv'
  OBVIOUS
<1>2. Typed' /\ (Advances \/ UNCHANGED vars)
  BY <1>1, TypedNext DEF RInv
<1>3. ViewSteady' /\ \A n \in Nodes : Known(n) => Known(n)'
  BY <1>1, ViewsNext DEF RInv, Steady
<1>4. KnownBefore'
  BY <1>1, <1>3, KnownNext
<1>5. Steady'
  BY <1>1, <1>2, SteadyNext
<1> QED
  BY <1>2, <1>3, <1>4, <1>5 DEF RInv

LEMMA RInvInit == Init => RInv
<1>1. SUFFICES ASSUME Init
               PROVE  RInv
  OBVIOUS
<1>2. Typed
  BY <1>1, TypedInit
<1>3. /\ meta.nodes = Founders /\ count.before = Founders /\ Founders # {}
      /\ Founders \in SUBSET Nodes /\ write = NoWrite /\ acked = 0
      /\ \A n \in Nodes : unseen[n] = <<>> /\ disk[n] = 0
      /\ \A n \in Founders : view[n].nodes = Founders
  BY <1>1, NodesAssumption DEF Init
<1>4. ViewSteady /\ KnownBefore
  BY <1>3 DEF ViewSteady, KnownBefore, Known
<1>5. PICK h \in Founders : Place(h, Founders) = 0
  BY <1>3, HomeIsFirst
<1>6. h \in Walk(Founders) /\ \A n \in Walk(Founders) : disk[n] >= acked
  BY <1>3, <1>5, RFAssumption DEF Walk
<1>7. Founders = Founders \cup {h} /\ h \in Nodes
  BY <1>3
<1>8. MembersSteady
  BY <1>3, <1>7 DEF MembersSteady, OneApart
<1>9. WriteSteady /\ Reached /\ StayersSteady
  BY <1>3, <1>6 DEF WriteSteady, Reached, StayersSteady
<1> QED
  BY <1>2, <1>4, <1>8, <1>9 DEF RInv, Steady

\* Where changes of the membership wait for the transfer before them and no write
\* goes by an older directory, no join, leave, transfer, lost hint, failed commit
\* or restart, in any interleaving, puts the newest acknowledged version out of
\* reach of the current replicas, for every ring, replication factor from 2 and
\* level from QUORUM.
THEOREM AckedStaysReachable == Spec => []AckedReachable
<1>1. RInv => AckedReachable
  BY ReplicasAreWalk DEF RInv, Steady, Reached, AckedReachable
<1> QED
  BY <1>1, RInvInit, RInvNext, PTL DEF Spec

\* Between two directories one change apart, what is enough of the replicas of one
\* meets the replicas of the other.
LEMMA EnoughMeetsOther ==
    ASSUME NEW P \in SUBSET Nodes, NEW Q \in SUBSET Nodes, P # {}, Q # {},
           OneApart(P, Q) \/ OneApart(Q, P), RF > 1, Level # "ONE",
           NEW A \in SUBSET Walk(P), Cardinality(A) >= Needed(Cardinality(Walk(P)))
    PROVE  A \cap Walk(Q) # {}
<1>1. /\ Walk(P) \cap Walk(Q) # {} /\ IsFiniteSet(Walk(P))
      /\ \A x, y \in Walk(P) \ Walk(Q) : x = y
  BY WalksOverlap, WalkWithin
<1> QED
  BY <1>1, EnoughMeets

\* And while no fault happened, whichever replicas answer a read that a node
\* coordinates by the directory of now or of before the last change, in the middle
\* of a transfer too: if they are enough for its level, one of them has that version.
THEOREM QuorumReadsSeeAcked == Spec => []ReadsSeeAcked
<1>1. ASSUME RInv
      PROVE  ReadsSeeAcked
  <2>1. SUFFICES ASSUME Orderly, count.faults = 0, NEW c \in Nodes,
                        view[c].nodes \in {meta.nodes, count.before},
                        NEW A \in SUBSET Walk(view[c].nodes),
                        Cardinality(A) >= Needed(Cardinality(Walk(view[c].nodes)))
                 PROVE  \E n \in A : disk[n] >= acked
    BY ReplicasAreWalk DEF ReadsSeeAcked
  <2>2. /\ meta.nodes \in SUBSET Nodes /\ count.before \in SUBSET Nodes
        /\ meta.nodes # {} /\ count.before # {} /\ OneApart(count.before, meta.nodes)
        /\ RF > 1 /\ Level # "ONE" /\ StayersSteady
    BY <1>1, <2>1, VersionsAreNumbers DEF RInv, Steady, MembersSteady, Orderly
  <2>3. \A n \in Walk(meta.nodes) \cap Walk(count.before) : disk[n] >= acked
    BY <2>2 DEF StayersSteady
  <2>4. CASE view[c].nodes = meta.nodes
    <3>1. A \cap Walk(count.before) # {}
      BY <2>1, <2>2, <2>4, EnoughMeetsOther
    <3> QED
      BY <2>1, <2>3, <2>4, <3>1
  <2>5. CASE view[c].nodes = count.before
    <3>1. A \cap Walk(meta.nodes) # {}
      BY <2>1, <2>2, <2>5, EnoughMeetsOther
    <3> QED
      BY <2>1, <2>3, <2>5, <3>1
  <2> QED
    BY <2>1, <2>4, <2>5
<1> QED
  BY <1>1, RInvInit, RInvNext, PTL DEF Spec
=============================================================================
