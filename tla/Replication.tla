---------------------------- MODULE Replication ----------------------------
(***************************************************************************)
(* The leaderless data plane of crates/qv-node/src/router.rs: quorum       *)
(* writes, quorum reads with read repair, and hinted handoff, for one      *)
(* point id.  Conflict resolution is per id, so other ids only share the   *)
(* clocks with it.                                                         *)
(*                                                                         *)
(* Any node coordinates any request.  A coordinator contacts the shard's   *)
(* replicas one after the other, awaiting each answer; requests of         *)
(* different clients, the hint replay loop of each node, messages that     *)
(* outlive their sender's timeout, crashes and restarts interleave at      *)
(* every await.  Each replica is a durable last-writer-wins map (module    *)
(* DurableLww, implemented by ShardStorage), so a crash keeps `store' and  *)
(* the hint log and loses the clock and every request in progress.         *)
(*                                                                         *)
(* A stamp is a number; HlcClock::now returns any stamp above the node's   *)
(* clock (module Hlc: the physical clock decides how far above).  A write  *)
(* request stands for the value it writes, so two requests write different *)
(* values.                                                                 *)
(*                                                                         *)
(* What goes wrong: a replica is not reached, answers late or fails; a     *)
(* node crashes; and the coordinator's disk refuses a write of the shard,  *)
(* of the hint log, or of the log that a replay pass writes anew.          *)
(***************************************************************************)
EXTENDS Naturals, FiniteSets

CONSTANTS
    Nodes,         \* cluster nodes, numbered clockwise on the ring
    Replicas,      \* the nodes holding the id's shard
    Coordinators,  \* the nodes that clients talk to
    Writes,        \* write requests (upserts and deletes)
    Reads,         \* get requests
    Levels,        \* consistency levels requests ask for
    MaxHlc,        \* bound: stamps are 1 .. MaxHlc
    MaxCrashes,    \* bound: node crashes in a behaviour
    MaxLate,       \* bound: late replica writes in flight at once
    Replayers,     \* bound: the nodes whose hint replay loop gets to run
    FaultyDisks,   \* bound: the nodes whose disk may refuse to be written
    Nobody         \* neither a node nor a request

ASSUME ReplicasAssumption == /\ Replicas \subseteq Nodes /\ Replicas # {}
                             /\ Coordinators \subseteq Nodes
                             /\ Nodes \subseteq Nat /\ IsFiniteSet(Nodes)
ASSUME NobodyAssumption == Nobody \notin Nodes \cup Writes
ASSUME LevelsAssumption == Levels \subseteq {"ONE", "QUORUM", "ALL"}
ASSUME BoundsAssumption == MaxHlc \in Nat /\ MaxCrashes \in Nat /\ MaxLate \in Nat

VARIABLES
    up,       \* [Nodes -> BOOLEAN]
    clock,    \* [Nodes -> stamp]: HlcClock.last
    store,    \* [Replicas -> Version]: the id's version on each replica
    hints,    \* [Nodes -> set of messages]: the hint log of each node
    pass,     \* [Nodes -> replay_hints in progress]
    net,      \* replica writes that nobody waits for any more
    wr,       \* [Writes -> coordinate_upsert / coordinate_delete]
    rd,       \* [Reads -> coordinate_get]
    crashes   \* number of crashes so far

vars == <<up, clock, store, hints, pass, net, wr, rd, crashes>>

-----------------------------------------------------------------------------
N == Cardinality(Replicas)

MaxOf(a, b) == IF a < b THEN b ELSE a
MinOf(a, b) == IF a < b THEN a ELSE b

\* Consistency::count, clamped to 1 .. max(n, 1).
Count(level, n) ==
    LET c == IF level = "ONE" THEN 1 ELSE IF level = "QUORUM" THEN n \div 2 + 1 ELSE n
        hi == MaxOf(n, 1)
    IN  IF c < 1 THEN 1 ELSE IF c > hi THEN hi ELSE c

\* The value a write stored, with its stamp; stamp 0 is "never seen".
NoVersion == [hlc |-> 0, val |-> Nobody]
Version == [hlc : 1 .. MaxHlc, val : Writes] \cup {NoVersion}

\* Mutant: each send is stamped anew from the coordinator's clock.
VersionOfRestamped(q) == [hlc |-> MaxOf(wr[q].hlc, clock[wr[q].coord]), val |-> q]

VersionOf(q) == [hlc |-> wr[q].hlc, val |-> q]

\* A ReplicaWrite request to `dst'; a hint is one that waits in a log.
Message == [dst : Replicas, ver : [hlc : 1 .. MaxHlc, val : Writes]]
MessageTo(n, v) == [dst |-> n, ver |-> v]

\* The replica a loop over `set' in ring order comes to first.
IsFirst(n, set) == n \in set /\ \A m \in set : n <= m

\* Mutant: an equal stamp replaces the stored version.
MergeTie(old, new) == IF old.hlc <= new.hlc THEN new ELSE old

\* Last-writer-wins at a replica: only a strictly newer stamp is stored.
Merge(old, new) == IF old.hlc < new.hlc THEN new ELSE old

WriteOp == [pc : {"idle", "send", "ok", "failed", "dead"},
            coord : Nodes \cup {Nobody}, level : Levels \cup {Nobody},
            hlc : 0 .. MaxHlc,
            todo : SUBSET Replicas, acks : SUBSET Replicas, miss : SUBSET Replicas]
IdleWrite == [pc |-> "idle", coord |-> Nobody, level |-> Nobody, hlc |-> 0,
              todo |-> {}, acks |-> {}, miss |-> {}]

\* The coordinator has heard from n, or has given up on it.
Acked(op, n) == [op EXCEPT !.todo = @ \ {n}, !.acks = @ \cup {n}]
Missed(op, n) == [op EXCEPT !.todo = @ \ {n}, !.miss = @ \cup {n}]

\* A write that did not succeed leaves only its stamp behind.
EndWrite(op, pc) == [IdleWrite EXCEPT !.pc = pc, !.hlc = op.hlc]

\* `seen' is history: the writes acknowledged before the read began.
ReadOp == [pc : {"idle", "read", "done", "failed", "dead"},
           coord : Nodes \cup {Nobody}, level : Levels \cup {Nobody},
           todo : SUBSET Replicas, got : SUBSET Replicas,
           resp : [Replicas -> Version], seen : SUBSET Writes, res : Version]
NoAnswers == [n \in Replicas |-> NoVersion]
IdleRead == [pc |-> "idle", coord |-> Nobody, level |-> Nobody, todo |-> {},
             got |-> {}, resp |-> NoAnswers, seen |-> {}, res |-> NoVersion]

\* Replica n has answered with version v.
Answered(op, n, v) == [op EXCEPT !.todo = @ \ {n}, !.got = @ \cup {n},
                                 !.resp = [op.resp EXCEPT ![n] = v]]

\* A read that ended keeps what it was asked for and what it had to see.
EndRead(op, pc) == [IdleRead EXCEPT !.pc = pc, !.level = op.level, !.seen = op.seen]

\* `read' is history: the hints this pass took from the log.  A pass whose rewrite
\* failed ends with the hints in `keep' that it had still to write back.
Pass == [pc : {"idle", "push", "rewrite", "failed"},
         todo : SUBSET Message, keep : SUBSET Message, read : SUBSET Message]
IdlePass == [pc |-> "idle", todo |-> {}, keep |-> {}, read |-> {}]

Init ==
    /\ up = [n \in Nodes |-> TRUE]
    /\ clock = [n \in Nodes |-> 0]
    /\ store = NoAnswers
    /\ hints = [n \in Nodes |-> {}]
    /\ pass = [n \in Nodes |-> IdlePass]
    /\ net = {}
    /\ wr = [q \in Writes |-> IdleWrite]
    /\ rd = [r \in Reads |-> IdleRead]
    /\ crashes = 0

\* The shard merges a version under last-writer-wins.
ShardApply(n, v) == store' = [store EXCEPT ![n] = Merge(@, v)]

\* apply_replica_write: HlcClock::update takes the clock one beyond itself and the
\* stamp, then the shard merges.  At MaxHlc the clock stays: the node has no
\* stamp left to issue.
ReplicaApply(n, v) ==
    /\ clock' = [clock EXCEPT ![n] = MinOf(MaxOf(@, v.hlc) + 1, MaxHlc)]
    /\ ShardApply(n, v)

\* Replica writes that their sender no longer waits for: each is lost, or
\* stays in flight and arrives at any later time.
SendLate(msgs) ==
    \E late \in SUBSET msgs :
        /\ net' = net \cup late
        /\ late = {} \/ Cardinality(net') <= MaxLate

-----------------------------------------------------------------------------
(* Writes: coordinate_upsert / coordinate_delete and replicate_write.      *)

\* The coordinator stamps the write and looks up the shard's replicas.
BeginWrite(q, c, level, h) ==
    /\ wr[q].pc = "idle" /\ up[c] /\ clock[c] < h
    /\ clock' = [clock EXCEPT ![c] = h]
    /\ wr' = [wr EXCEPT ![q] = [pc |-> "send", coord |-> c, level |-> level, hlc |-> h,
                                todo |-> Replicas, acks |-> {}, miss |-> {}]]
    /\ UNCHANGED <<up, store, hints, pass, net, rd, crashes>>

\* A replica answers, whether the write won or was stale there: both count.  The
\* coordinator's own shard is written without another look at the clock.
WriteAck(q, n) ==
    /\ wr[q].pc = "send" /\ IsFirst(n, wr[q].todo) /\ up[n]
    /\ IF n = wr[q].coord THEN ShardApply(n, VersionOf(q)) /\ UNCHANGED clock
                          ELSE ReplicaApply(n, VersionOf(q))
    /\ wr' = [wr EXCEPT ![q] = Acked(@, n)]
    /\ UNCHANGED <<up, hints, pass, net, rd, crashes>>

\* The replica is unreachable, answers too late, or fails: its write may
\* still arrive after the coordinator has stopped waiting for it.
WriteMiss(q, n) ==
    /\ wr[q].pc = "send" /\ IsFirst(n, wr[q].todo) /\ n # wr[q].coord
    /\ wr' = [wr EXCEPT ![q] = Missed(@, n)]
    /\ SendLate({MessageTo(n, VersionOf(q))})
    /\ UNCHANGED <<up, clock, store, hints, pass, rd, crashes>>

\* The coordinator's own shard fails, which does not count as an answer: before
\* the record is applied, or after it, when the snapshot that follows fails.
LocalWriteFails(q, n) ==
    /\ wr[q].pc = "send" /\ IsFirst(n, wr[q].todo) /\ n = wr[q].coord
    /\ n \in FaultyDisks
    /\ ShardApply(n, VersionOf(q)) \/ UNCHANGED store
    /\ wr' = [wr EXCEPT ![q] = Missed(@, n)]
    /\ UNCHANGED <<up, clock, hints, pass, net, rd, crashes>>

\* Once all replicas were tried, each missed one gets a hint in the
\* coordinator's own log (under the hint lock, which a rewrite holds).
BufferHint(q, n) ==
    /\ wr[q].pc = "send" /\ wr[q].todo = {} /\ IsFirst(n, wr[q].miss)
    /\ pass[wr[q].coord].pc # "rewrite"
    /\ hints' = [hints EXCEPT ![wr[q].coord] = @ \cup {MessageTo(n, VersionOf(q))}]
    /\ wr' = [wr EXCEPT ![q].miss = @ \ {n}]
    /\ UNCHANGED <<up, clock, store, pass, net, rd, crashes>>

\* The hint cannot be written: the request fails, whatever was acknowledged.
BufferHintFails(q) ==
    /\ wr[q].pc = "send" /\ wr[q].todo = {} /\ wr[q].miss # {}
    /\ wr[q].coord \in FaultyDisks
    /\ wr' = [wr EXCEPT ![q] = EndWrite(@, "failed")]
    /\ UNCHANGED <<up, clock, store, hints, pass, net, rd, crashes>>

\* Mutant: one acknowledgement too few is enough.
FinishWriteEarly(q) ==
    /\ wr[q].pc = "send" /\ wr[q].todo = {} /\ wr[q].miss = {}
    /\ wr' = [wr EXCEPT ![q] =
                 IF Cardinality(@.acks) + 1 >= Count(@.level, N)
                 THEN [@ EXCEPT !.pc = "ok"] ELSE EndWrite(@, "failed")]
    /\ UNCHANGED <<up, clock, store, hints, pass, net, rd, crashes>>

\* Mutant: without W acknowledgements the request is never answered.
FinishWriteWaits(q) ==
    /\ wr[q].pc = "send" /\ wr[q].todo = {} /\ wr[q].miss = {}
    /\ Cardinality(wr[q].acks) >= Count(wr[q].level, N)
    /\ wr' = [wr EXCEPT ![q].pc = "ok"]
    /\ UNCHANGED <<up, clock, store, hints, pass, net, rd, crashes>>

\* The client is answered: success iff W replicas converged.
FinishWrite(q) ==
    /\ wr[q].pc = "send" /\ wr[q].todo = {} /\ wr[q].miss = {}
    /\ wr' = [wr EXCEPT ![q] =
                 IF Cardinality(@.acks) >= Count(@.level, N)
                 THEN [@ EXCEPT !.pc = "ok"] ELSE EndWrite(@, "failed")]
    /\ UNCHANGED <<up, clock, store, hints, pass, net, rd, crashes>>

-----------------------------------------------------------------------------
(* Reads: coordinate_get and spawn_read_repair.                            *)

BeginRead(r, c, level) ==
    /\ rd[r].pc = "idle" /\ up[c]
    /\ rd' = [rd EXCEPT ![r] = [IdleRead EXCEPT !.pc = "read", !.coord = c,
                                   !.level = level, !.todo = Replicas,
                                   !.seen = {q \in Writes : wr[q].pc = "ok"}]]
    /\ UNCHANGED <<up, clock, store, hints, pass, net, wr, crashes>>

ReadReply(r, n) ==
    /\ rd[r].pc = "read" /\ IsFirst(n, rd[r].todo) /\ up[n]
    /\ rd' = [rd EXCEPT ![r] = Answered(@, n, store[n])]
    /\ UNCHANGED <<up, clock, store, hints, pass, net, wr, crashes>>

ReadMiss(r, n) ==
    /\ rd[r].pc = "read" /\ IsFirst(n, rd[r].todo)
    /\ rd' = [rd EXCEPT ![r].todo = @ \ {n}]
    /\ UNCHANGED <<up, clock, store, hints, pass, net, wr, crashes>>

\* Mutant: a replica that is level with the answer is taken to be behind it.
BehindOrLevel(op, v) == {n \in op.got : op.resp[n].hlc <= v.hlc}

\* The answering replicas that hold an older version than v, or none.
Behind(op, v) == {n \in op.got : op.resp[n].hlc < v.hlc}

\* Mutant: the answer of any replica is returned, not the newest.
FinishReadAny(r, win) ==
    /\ rd[r].pc = "read" /\ rd[r].todo = {}
    /\ Cardinality(rd[r].got) >= Count(rd[r].level, N)
    /\ win \in rd[r].got
    /\ rd' = [rd EXCEPT ![r] = [EndRead(@, "done") EXCEPT !.res = rd[r].resp[win]]]
    /\ UNCHANGED <<up, clock, store, hints, pass, net, wr, crashes>>

\* With R answers, `win' is a replica with the highest stamp among them; its
\* version is returned, stored on the coordinator if that is behind (without
\* moving its clock), and sent, fire and forget, to the others behind.
FinishRead(r, win) ==
    /\ rd[r].pc = "read" /\ rd[r].todo = {}
    /\ Cardinality(rd[r].got) >= Count(rd[r].level, N)
    /\ win \in rd[r].got
    /\ \A n \in rd[r].got : rd[r].resp[n].hlc <= rd[r].resp[win].hlc
    /\ LET v == rd[r].resp[win]
           c == rd[r].coord
           behind == Behind(rd[r], v)
       IN  /\ rd' = [rd EXCEPT ![r] = [EndRead(@, "done") EXCEPT !.res = v]]
           /\ store' = [n \in Replicas |->
                           IF n = c /\ c \in behind THEN Merge(store[n], v) ELSE store[n]]
           /\ SendLate({MessageTo(n, v) : n \in behind \ {c}})
    /\ UNCHANGED <<up, clock, hints, pass, wr, crashes>>

FailRead(r) ==
    /\ rd[r].pc = "read" /\ rd[r].todo = {}
    /\ Cardinality(rd[r].got) < Count(rd[r].level, N)
    /\ rd' = [rd EXCEPT ![r] = EndRead(@, "failed")]
    /\ UNCHANGED <<up, clock, store, hints, pass, net, wr, crashes>>

-----------------------------------------------------------------------------
(* Replica writes that arrive after their sender stopped waiting.          *)

Deliver(m) ==
    /\ m \in net /\ up[m.dst]
    /\ ReplicaApply(m.dst, m.ver)
    /\ net' = net \ {m}
    /\ UNCHANGED <<up, hints, pass, wr, rd, crashes>>

-----------------------------------------------------------------------------
(* Hint replay: one pass of replay_hints at a time on each node.           *)

\* read_all_hints, under the lock.
StartPass(c) ==
    /\ c \in Replayers /\ up[c] /\ pass[c].pc \in {"idle", "failed"} /\ hints[c] # {}
    /\ pass' = [pass EXCEPT ![c] = [pc |-> "push", todo |-> hints[c], keep |-> {},
                                    read |-> hints[c]]]
    /\ UNCHANGED <<up, clock, store, hints, net, wr, rd, crashes>>

\* The target takes the hinted write: the pass forgets the hint.
PushHint(c, m) ==
    /\ pass[c].pc = "push" /\ m \in pass[c].todo /\ up[m.dst]
    /\ ReplicaApply(m.dst, m.ver)
    /\ pass' = [pass EXCEPT ![c].todo = @ \ {m}]
    /\ UNCHANGED <<up, hints, net, wr, rd, crashes>>

\* Mutant: a hint whose push failed is not kept.
PushHintForgets(c, m) ==
    /\ pass[c].pc = "push" /\ m \in pass[c].todo
    /\ pass' = [pass EXCEPT ![c].todo = @ \ {m}]
    /\ SendLate({m})
    /\ UNCHANGED <<up, clock, store, hints, wr, rd, crashes>>

\* The push fails or its answer is lost: the pass keeps the hint.
PushHintFails(c, m) ==
    /\ pass[c].pc = "push" /\ m \in pass[c].todo
    /\ pass' = [pass EXCEPT ![c].todo = @ \ {m}, ![c].keep = @ \cup {m}]
    /\ SendLate({m})
    /\ UNCHANGED <<up, clock, store, hints, wr, rd, crashes>>

\* The log cannot be removed: rewrite_hints and the pass end with the error.
ClearFails(c) ==
    /\ pass[c].pc = "push" /\ pass[c].todo = {} /\ c \in FaultyDisks
    /\ pass' = [pass EXCEPT ![c] = IdlePass]
    /\ UNCHANGED <<up, clock, store, hints, net, wr, rd, crashes>>

\* rewrite_hints removes the log, whatever it holds by now, ...
RewriteClear(c) ==
    /\ pass[c].pc = "push" /\ pass[c].todo = {}
    /\ hints' = [hints EXCEPT ![c] = {}]
    /\ pass' = [pass EXCEPT ![c] = IF @.keep = {} THEN IdlePass ELSE [@ EXCEPT !.pc = "rewrite"]]
    /\ UNCHANGED <<up, clock, store, net, wr, rd, crashes>>

\* ... and appends the kept hints to a new one, one at a time.
RewriteKeep(c, m) ==
    /\ pass[c].pc = "rewrite" /\ m \in pass[c].keep
    /\ hints' = [hints EXCEPT ![c] = @ \cup {m}]
    /\ pass' = [pass EXCEPT ![c] = IF @.keep = {m} THEN IdlePass
                                    ELSE [@ EXCEPT !.keep = pass[c].keep \ {m}]]
    /\ UNCHANGED <<up, clock, store, net, wr, rd, crashes>>

\* The new log cannot be opened, or an append to it fails: the pass ends with the
\* error, and nobody holds the hints that were still to be written back.
RewriteFails(c) ==
    /\ pass[c].pc = "rewrite" /\ c \in FaultyDisks
    /\ pass' = [pass EXCEPT ![c] = [@ EXCEPT !.pc = "failed", !.read = {}]]
    /\ UNCHANGED <<up, clock, store, hints, net, wr, rd, crashes>>

\* The hints that the pass of c still holds in memory, and those that it lost.
Held(c) == IF pass[c].pc = "failed" THEN {} ELSE pass[c].todo \cup pass[c].keep
Lost(c) == IF pass[c].pc = "failed" THEN pass[c].keep ELSE {}

-----------------------------------------------------------------------------
(* Crashes.                                                                *)

\* The process ends: its clock and everything it was doing are gone.
Crash(c) ==
    /\ up[c] /\ crashes < MaxCrashes
    /\ crashes' = crashes + 1
    /\ up' = [up EXCEPT ![c] = FALSE]
    /\ clock' = [clock EXCEPT ![c] = 0]
    /\ pass' = [pass EXCEPT ![c] = IdlePass]
    /\ wr' = [q \in Writes |-> IF wr[q].pc = "send" /\ wr[q].coord = c
                               THEN EndWrite(wr[q], "dead")
                               ELSE wr[q]]
    /\ rd' = [r \in Reads |-> IF rd[r].pc = "read" /\ rd[r].coord = c
                              THEN EndRead(rd[r], "dead")
                              ELSE rd[r]]
    /\ UNCHANGED <<store, hints, net>>

\* The process is back, with its disk and a new clock.
Restart(c) ==
    /\ ~up[c]
    /\ up' = [up EXCEPT ![c] = TRUE]
    /\ UNCHANGED <<clock, store, hints, pass, net, wr, rd, crashes>>

-----------------------------------------------------------------------------
WriteStep(q) == \/ \E n \in Replicas : \/ WriteAck(q, n) \/ WriteMiss(q, n)
                                       \/ LocalWriteFails(q, n) \/ BufferHint(q, n)
                \/ BufferHintFails(q)
                \/ FinishWrite(q)

ReadStep(r) == \/ \E n \in Replicas : ReadReply(r, n) \/ ReadMiss(r, n) \/ FinishRead(r, n)
               \/ FailRead(r)

ReplayStep(c) == \/ StartPass(c)
                 \/ \E m \in pass[c].todo : PushHint(c, m) \/ PushHintFails(c, m)
                 \/ ClearFails(c) \/ RewriteClear(c)
                 \/ \E m \in pass[c].keep : RewriteKeep(c, m)
                 \/ RewriteFails(c)

Next == \/ \E q \in Writes, c \in Coordinators, level \in Levels, h \in 1 .. MaxHlc :
              BeginWrite(q, c, level, h)
        \/ \E q \in Writes : WriteStep(q)
        \/ \E r \in Reads, c \in Coordinators, level \in Levels : BeginRead(r, c, level)
        \/ \E r \in Reads : ReadStep(r)
        \/ \E m \in net : Deliver(m)
        \/ \E c \in Nodes : ReplayStep(c) \/ Crash(c) \/ Restart(c)

Spec == Init /\ [][Next]_vars

\* A request in progress goes on (every await has a timeout); each node keeps
\* running its replay loop; a crashed node is restarted; and a target that is
\* up again and again ends up taking a push that is tried again and again.
FairSpec == /\ Spec
            /\ \A q \in Writes : WF_vars(WriteStep(q))
            /\ \A r \in Reads : WF_vars(ReadStep(r))
            /\ \A c \in Nodes : WF_vars(ReplayStep(c)) /\ WF_vars(Restart(c))
            /\ \A c \in Nodes, m \in Message : SF_vars(PushHint(c, m))

-----------------------------------------------------------------------------
TypeOK ==
    /\ up \in [Nodes -> BOOLEAN]
    /\ clock \in [Nodes -> 0 .. MaxHlc]
    /\ store \in [Replicas -> Version]
    /\ hints \in [Nodes -> SUBSET Message]
    /\ pass \in [Nodes -> Pass]
    /\ net \in SUBSET Message
    /\ wr \in [Writes -> WriteOp]
    /\ rd \in [Reads -> ReadOp]
    /\ crashes \in 0 .. MaxCrashes

\* A write answered with success is at its stamp, or at a newer one, on as many
\* replicas as its level asked for, now and forever after: the promise behind
\* `acks >= w', through crashes, late deliveries and competing writes.
AckedAtQuorum ==
    \A q \in Writes : wr[q].pc = "ok" =>
        Cardinality({n \in Replicas : wr[q].hlc <= store[n].hlc}) >= Count(wr[q].level, N)

\* A get whose level and a write's level overlap (W + R > N) never returns a
\* version older than that write when the write was acknowledged before the
\* get began: the read-your-writes of docs/consistency.md, also for deletes.
ReadYourWrites ==
    \A r \in Reads : rd[r].pc = "done" =>
        \A q \in rd[r].seen :
            Count(wr[q].level, N) + Count(rd[r].level, N) > N => wr[q].hlc <= rd[r].res.hlc

\* Wherever a version is -- on a replica, in a hint, in flight, or in a get's
\* answer -- it is the value and the stamp of one write: no path (hint replay,
\* read repair, late delivery) joins the stamp of one with the value of another.
VersionsAreWrites ==
    LET versions == {store[n] : n \in Replicas} \cup {m.ver : m \in net}
                    \cup (UNION {{m.ver : m \in hints[c] \cup pass[c].keep} : c \in Nodes})
                    \cup {rd[r].res : r \in Reads}
    IN  \A v \in versions \ {NoVersion} : wr[v.val].pc # "idle" /\ wr[v.val].hlc = v.hlc

\* Of a node that stays up, the only step that drops a hint its replay pass took
\* from the log is a rewrite that meets a disk error once the log is gone: after
\* any other -- pushes that fail, a log that cannot be removed, its removal, hints
\* written back one by one, hints buffered meanwhile -- the hint is still to be
\* pushed, kept for the rewrite or in the log, or its target is at its stamp or
\* beyond.
PassKeepsHints ==
    [][\A c \in Nodes : up'[c] /\ ~RewriteFails(c) =>
          \A m \in pass[c].read :
              \/ m \in Held(c)' \cup hints'[c]
              \/ m.ver.hlc <= store'[m.dst].hlc]_vars

\* A replica's version never goes back, and is never exchanged for another
\* with the same stamp ("Ties never flap"), whatever is delivered when.
ReplicasAdvance ==
    [][\A n \in Replicas : store'[n] = store[n] \/ store[n].hlc < store'[n].hlc]_vars

\* Every request ends: in success, in failure, or with its coordinator.
RequestsEnd ==
    /\ \A q \in Writes : wr[q].pc = "send" ~> wr[q].pc # "send"
    /\ \A r \in Reads : rd[r].pc = "read" ~> rd[r].pc # "read"

\* A hint that a replay pass has taken reaches its target, unless the node
\* holding it crashes or is among those a failing rewrite lost.
HintsGetDelivered ==
    \A c \in Nodes, m \in Message :
        m \in pass[c].read ~> (m.ver.hlc <= store[m.dst].hlc \/ ~up[c] \/ m \in Lost(c))

-----------------------------------------------------------------------------
(* A statement of the repository that the code does not keep.              *)

\* An acknowledged write is on each replica, or a hint for it is kept: "A hint
\* is durable before the write is acked, so an acked write at the chosen W is
\* never silently lost to a transient replica outage".
AckedOrHinted ==
    \A q \in Writes : wr[q].pc = "ok" =>
        \A n \in Replicas :
            \/ wr[q].hlc <= store[n].hlc
            \/ LET c == wr[q].coord
               IN  MessageTo(n, VersionOf(q)) \in hints[c] \cup Held(c)
=============================================================================
