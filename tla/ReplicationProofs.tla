------------------------- MODULE ReplicationProofs -------------------------
(***************************************************************************)
(* Theorems about the data plane, for any number of nodes, replicas,       *)
(* requests, crashes and late messages.                                    *)
(***************************************************************************)
EXTENDS Replication, FiniteSetTheorems, TLAPS

-----------------------------------------------------------------------------
(* Facts about the data.                                                   *)

LEMMA VersionStamps ==
    ASSUME NEW v \in Version
    PROVE  /\ v.hlc \in Nat /\ v.hlc <= MaxHlc
           /\ v.hlc > 0 => v \in [hlc : 1 .. MaxHlc, val : Writes]
  BY BoundsAssumption DEF Version, NoVersion

\* Merging keeps the newer of two versions, and the old one on a tie.
LEMMA MergeKeepsNewer ==
    ASSUME NEW old \in Version, NEW new \in Version
    PROVE  /\ Merge(old, new) \in Version
           /\ old.hlc <= Merge(old, new).hlc
           /\ new.hlc <= Merge(old, new).hlc
           /\ Merge(old, new) = old \/ old.hlc < Merge(old, new).hlc
  BY VersionStamps DEF Merge

\* A level never asks for fewer than one replica.
LEMMA CountType ==
    ASSUME NEW level, NEW n \in Nat
    PROVE  Count(level, n) \in Nat /\ Count(level, n) >= 1
  BY DEF Count, MaxOf

\* A write quorum and a read quorum have a replica in common.
LEMMA QuorumsIntersect ==
    ASSUME NEW A \in SUBSET Replicas, NEW B \in SUBSET Replicas,
           Cardinality(A) + Cardinality(B) > N
    PROVE  A \cap B # {}
<1>1. IsFiniteSet(Replicas) /\ IsFiniteSet(A) /\ IsFiniteSet(B)
  BY ReplicasAssumption, FS_Subset
<1>2. /\ Cardinality(A) \in Nat /\ Cardinality(B) \in Nat /\ N \in Nat
      /\ Cardinality(A \cap B) \in Nat
  <2>1. IsFiniteSet(A \cap B)
    BY <1>1, FS_Intersection
  <2> QED
    BY <1>1, <2>1, FS_CardinalityType DEF N
<1>3. Cardinality(A \cup B) = Cardinality(A) + Cardinality(B) - Cardinality(A \cap B)
  BY <1>1, FS_Union
<1>4. Cardinality(A \cup B) <= N
  BY <1>1, FS_Subset DEF N
<1>5. Cardinality(A \cap B) > 0
  BY <1>2, <1>3, <1>4
<1> QED
  BY <1>5, FS_EmptySet

\* A majority write and a majority read always overlap.
LEMMA MajoritiesOverlap ==
    ASSUME NEW n \in Nat \ {0}
    PROVE  Count("QUORUM", n) + Count("QUORUM", n) > n
  BY DEF Count, MaxOf

-----------------------------------------------------------------------------
(* Type correctness.  A message carries the stamp of a write, so the types *)
(* hold only together with the fact that a write that began is stamped.    *)

Stamped == \A q \in Writes : wr[q].pc # "idle" => wr[q].hlc >= 1

Typed == TypeOK /\ Stamped

LEMMA BlankTypes ==
    /\ NoVersion \in Version
    /\ NoAnswers \in [Replicas -> Version]
    /\ IdleWrite \in WriteOp
    /\ IdleRead \in ReadOp
    /\ IdlePass \in Pass
<1>1. NoVersion \in Version
  BY DEF Version
<1>2. NoAnswers \in [Replicas -> Version]
  BY <1>1 DEF NoAnswers
<1>3. IdleWrite \in WriteOp
  BY BoundsAssumption DEF IdleWrite, WriteOp
<1>4. IdleRead \in ReadOp
  BY <1>1, <1>2 DEF IdleRead, ReadOp
<1>5. IdlePass \in Pass
  BY DEF IdlePass, Pass
<1> QED
  BY <1>1, <1>2, <1>3, <1>4, <1>5

\* The request that a write in progress sends to a replica.
LEMMA WriteMessage ==
    ASSUME Typed, NEW q \in Writes, wr[q].pc # "idle", NEW n \in Replicas
    PROVE  /\ VersionOf(q) \in [hlc : 1 .. MaxHlc, val : Writes]
           /\ VersionOf(q) \in Version
           /\ MessageTo(n, VersionOf(q)) \in Message
<1>1. wr[q].hlc \in 1 .. MaxHlc
  BY BoundsAssumption DEF Typed, TypeOK, Stamped, WriteOp
<1>2. VersionOf(q) \in [hlc : 1 .. MaxHlc, val : Writes]
  BY <1>1 DEF VersionOf
<1> QED
  BY <1>2 DEF MessageTo, Message, Version

LEMMA ShardApplyType ==
    ASSUME Typed, NEW n \in Replicas, NEW v \in Version, ShardApply(n, v)
    PROVE  store' \in [Replicas -> Version]
<1>1. store \in [Replicas -> Version] /\ Merge(store[n], v) \in Version
  BY MergeKeepsNewer DEF Typed, TypeOK
<1> QED
  BY <1>1 DEF ShardApply

LEMMA ReplicaApplyType ==
    ASSUME Typed, NEW n \in Replicas, NEW v \in Version, ReplicaApply(n, v)
    PROVE  clock' \in [Nodes -> 0 .. MaxHlc] /\ store' \in [Replicas -> Version]
<1>1. clock \in [Nodes -> 0 .. MaxHlc] /\ store \in [Replicas -> Version]
  BY DEF Typed, TypeOK
<1>2. n \in Nodes
  BY ReplicasAssumption
<1>3. MinOf(MaxOf(clock[n], v.hlc) + 1, MaxHlc) \in 0 .. MaxHlc
  BY <1>1, <1>2, VersionStamps, BoundsAssumption DEF MaxOf, MinOf
<1>4. store' \in [Replicas -> Version]
  BY ShardApplyType DEF ReplicaApply
<1> QED
  BY <1>1, <1>3, <1>4 DEF ReplicaApply

LEMMA SendLateType ==
    ASSUME Typed, NEW msgs \in SUBSET Message, SendLate(msgs)
    PROVE  net' \in SUBSET Message
  BY DEF SendLate, Typed, TypeOK

LEMMA EndTypes ==
    /\ \A op \in WriteOp, pc \in {"ok", "failed", "dead"} :
          EndWrite(op, pc) \in WriteOp /\ EndWrite(op, pc).hlc = op.hlc
    /\ \A op \in ReadOp, pc \in {"done", "failed", "dead"} :
          /\ EndRead(op, pc) \in ReadOp
          /\ EndRead(op, pc).level = op.level /\ EndRead(op, pc).seen = op.seen
          /\ EndRead(op, pc).pc = pc
<1>1. ASSUME NEW op \in WriteOp, NEW pc \in {"ok", "failed", "dead"}
      PROVE  EndWrite(op, pc) \in WriteOp /\ EndWrite(op, pc).hlc = op.hlc
  BY BlankTypes DEF EndWrite, IdleWrite, WriteOp
<1>2. ASSUME NEW op \in ReadOp, NEW pc \in {"done", "failed", "dead"}
      PROVE  /\ EndRead(op, pc) \in ReadOp
             /\ EndRead(op, pc).level = op.level /\ EndRead(op, pc).seen = op.seen
             /\ EndRead(op, pc).pc = pc
  BY BlankTypes DEF EndRead, IdleRead, ReadOp
<1> QED
  BY <1>1, <1>2

\* What the answers of the replicas do to a request.
LEMMA AnswerTypes ==
    ASSUME NEW n \in Replicas
    PROVE  /\ \A op \in WriteOp :
                /\ Acked(op, n) \in WriteOp /\ Acked(op, n).acks = op.acks \cup {n}
                /\ Missed(op, n) \in WriteOp /\ Missed(op, n).acks = op.acks
                /\ \A new \in {Acked(op, n), Missed(op, n)} :
                      new.pc = op.pc /\ new.hlc = op.hlc /\ new.level = op.level
           /\ \A op \in ReadOp, v \in Version :
                /\ Answered(op, n, v) \in ReadOp
                /\ Answered(op, n, v).pc = op.pc /\ Answered(op, n, v).seen = op.seen
                /\ Answered(op, n, v).level = op.level
                /\ Answered(op, n, v).got = op.got \cup {n}
                /\ Answered(op, n, v).resp = [op.resp EXCEPT ![n] = v]
<1>1. ASSUME NEW op \in WriteOp
      PROVE  /\ Acked(op, n) \in WriteOp /\ Acked(op, n).acks = op.acks \cup {n}
             /\ Acked(op, n).pc = op.pc /\ Acked(op, n).hlc = op.hlc
             /\ Acked(op, n).level = op.level
  BY DEF Acked, WriteOp
<1>2. ASSUME NEW op \in WriteOp
      PROVE  /\ Missed(op, n) \in WriteOp /\ Missed(op, n).acks = op.acks
             /\ Missed(op, n).pc = op.pc /\ Missed(op, n).hlc = op.hlc
             /\ Missed(op, n).level = op.level
  BY DEF Missed, WriteOp
<1>3. ASSUME NEW op \in ReadOp, NEW v \in Version
      PROVE  /\ Answered(op, n, v) \in ReadOp
             /\ Answered(op, n, v).pc = op.pc /\ Answered(op, n, v).seen = op.seen
             /\ Answered(op, n, v).level = op.level
             /\ Answered(op, n, v).got = op.got \cup {n}
             /\ Answered(op, n, v).resp = [op.resp EXCEPT ![n] = v]
  BY DEF Answered, ReadOp
<1> QED
  BY <1>1, <1>2, <1>3

LEMMA TypedInit == Init => Typed
  BY BlankTypes, BoundsAssumption DEF Init, Typed, TypeOK, Stamped, IdleWrite

\* Every step keeps the types and the stamps.
LEMMA TypedNext == Typed /\ [Next]_vars => Typed'
<1> SUFFICES ASSUME Typed, [Next]_vars
             PROVE  Typed'
  OBVIOUS
<1> USE DEF Typed
<1>0. /\ store \in [Replicas -> Version] /\ wr \in [Writes -> WriteOp]
      /\ rd \in [Reads -> ReadOp] /\ pass \in [Nodes -> Pass]
      /\ hints \in [Nodes -> SUBSET Message] /\ net \in SUBSET Message
  BY DEF TypeOK
<1>1. ASSUME NEW q \in Writes, NEW c \in Coordinators, NEW level \in Levels,
             NEW h \in 1 .. MaxHlc, BeginWrite(q, c, level, h)
      PROVE  Typed'
  <2>1. c \in Nodes
    BY ReplicasAssumption
  <2>2. [pc |-> "send", coord |-> c, level |-> level, hlc |-> h,
         todo |-> Replicas, acks |-> {}, miss |-> {}] \in WriteOp
    BY <2>1, BoundsAssumption DEF WriteOp
  <2>3. wr' \in [Writes -> WriteOp]
    BY <1>1, <1>0, <2>2 DEF BeginWrite
  <2>4. Stamped'
    BY <1>1, <1>0 DEF BeginWrite, Stamped
  <2>5. clock' \in [Nodes -> 0 .. MaxHlc]
    <3>1. h \in 0 .. MaxHlc /\ clock \in [Nodes -> 0 .. MaxHlc]
      BY BoundsAssumption DEF TypeOK
    <3> QED
      BY <1>1, <3>1 DEF BeginWrite
  <2> QED
    BY <1>1, <2>3, <2>4, <2>5 DEF BeginWrite, TypeOK
<1>2. ASSUME NEW q \in Writes, NEW n \in Replicas, WriteAck(q, n)
      PROVE  Typed'
  <2>1. clock' \in [Nodes -> 0 .. MaxHlc] /\ store' \in [Replicas -> Version]
    <3>1. VersionOf(q) \in Version
      BY <1>2, WriteMessage DEF WriteAck
    <3>2. CASE n = wr[q].coord
      BY <1>2, <3>1, <3>2, ShardApplyType DEF WriteAck, TypeOK
    <3>3. CASE n # wr[q].coord
      BY <1>2, <3>1, <3>3, ReplicaApplyType DEF WriteAck
    <3> QED
      BY <3>2, <3>3
  <2>2. wr' \in [Writes -> WriteOp]
    BY <1>2, <1>0, AnswerTypes DEF WriteAck
  <2>3. Stamped'
    BY <1>2, <1>0, AnswerTypes DEF WriteAck, Stamped
  <2> QED
    BY <1>2, <2>1, <2>2, <2>3 DEF WriteAck, TypeOK
<1>3. ASSUME NEW q \in Writes, NEW n \in Replicas, WriteMiss(q, n)
      PROVE  Typed'
  <2>1. net' \in SUBSET Message
    BY <1>3, WriteMessage, SendLateType DEF WriteMiss
  <2>2. wr' \in [Writes -> WriteOp]
    BY <1>3, <1>0, AnswerTypes DEF WriteMiss
  <2>3. Stamped'
    BY <1>3, <1>0, AnswerTypes DEF WriteMiss, Stamped
  <2> QED
    BY <1>3, <2>1, <2>2, <2>3 DEF WriteMiss, TypeOK
<1>4. ASSUME NEW q \in Writes, NEW n \in Replicas, BufferHint(q, n)
      PROVE  Typed'
  <2>1. hints' \in [Nodes -> SUBSET Message]
    BY <1>4, <1>0, WriteMessage DEF BufferHint
  <2>2. wr' \in [Writes -> WriteOp]
    BY <1>4, <1>0 DEF BufferHint, WriteOp
  <2>3. Stamped'
    BY <1>4, <1>0 DEF BufferHint, WriteOp, Stamped
  <2> QED
    BY <1>4, <2>1, <2>2, <2>3 DEF BufferHint, TypeOK
<1>5. ASSUME NEW q \in Writes, BufferHintFails(q)
      PROVE  Typed'
  <2>1. wr' \in [Writes -> WriteOp]
    BY <1>5, <1>0, EndTypes DEF BufferHintFails
  <2>2. Stamped'
    BY <1>5, <1>0, EndTypes DEF BufferHintFails, Stamped
  <2> QED
    BY <1>5, <2>1, <2>2 DEF BufferHintFails, TypeOK
<1>6. ASSUME NEW q \in Writes, FinishWrite(q)
      PROVE  Typed'
  <2>1. [wr[q] EXCEPT !.pc = "ok"] \in WriteOp
    BY <1>0 DEF WriteOp
  <2>2. wr' \in [Writes -> WriteOp]
    BY <1>6, <1>0, <2>1, EndTypes DEF FinishWrite
  <2>3. wr[q].hlc >= 1 /\ wr'[q].hlc = wr[q].hlc
    BY <1>6, <1>0, EndTypes DEF FinishWrite, Stamped, WriteOp
  <2>4. Stamped'
    BY <1>6, <1>0, <2>3 DEF FinishWrite, Stamped
  <2> QED
    BY <1>6, <2>2, <2>4 DEF FinishWrite, TypeOK
<1>7. ASSUME NEW r \in Reads, NEW c \in Coordinators, NEW level \in Levels,
             BeginRead(r, c, level)
      PROVE  Typed'
  <2>1. c \in Nodes
    BY ReplicasAssumption
  <2>2. [IdleRead EXCEPT !.pc = "read", !.coord = c, !.level = level, !.todo = Replicas,
                         !.seen = {q \in Writes : wr[q].pc = "ok"}] \in ReadOp
    BY <2>1, BlankTypes DEF IdleRead, ReadOp
  <2>3. rd' \in [Reads -> ReadOp]
    BY <1>7, <1>0, <2>2 DEF BeginRead
  <2> QED
    BY <1>7, <2>3 DEF BeginRead, TypeOK, Stamped
<1>8. ASSUME NEW r \in Reads, NEW n \in Replicas, ReadReply(r, n)
      PROVE  Typed'
  <2>1. rd' \in [Reads -> ReadOp]
    BY <1>8, <1>0, AnswerTypes DEF ReadReply
  <2> QED
    BY <1>8, <2>1 DEF ReadReply, TypeOK, Stamped
<1>9. ASSUME NEW r \in Reads, NEW n \in Replicas, ReadMiss(r, n)
      PROVE  Typed'
  <2>1. rd' \in [Reads -> ReadOp]
    <3>1. [rd[r] EXCEPT !.todo = @ \ {n}] \in ReadOp
      BY <1>0 DEF ReadOp
    <3>2. rd' = [rd EXCEPT ![r] = [rd[r] EXCEPT !.todo = @ \ {n}]]
      BY <1>9 DEF ReadMiss
    <3> QED
      BY <1>0, <3>1, <3>2
  <2> QED
    BY <1>9, <2>1 DEF ReadMiss, TypeOK, Stamped
<1>10. ASSUME NEW r \in Reads, NEW n \in Replicas, FinishRead(r, n)
       PROVE  Typed'
  <2> DEFINE v == rd[r].resp[n]
             behind == Behind(rd[r], v)
  <2>1. /\ rd[r] \in ReadOp /\ v \in Version /\ behind \subseteq Replicas
        /\ rd[r].resp \in [Replicas -> Version]
    BY <1>0 DEF ReadOp, Behind
  <2>2. rd' \in [Reads -> ReadOp]
    <3>1. [EndRead(rd[r], "done") EXCEPT !.res = v] \in ReadOp
      BY <2>1, EndTypes DEF ReadOp
    <3> QED
      BY <1>10, <1>0, <3>1 DEF FinishRead
  <2>3. store' \in [Replicas -> Version]
    BY <1>10, <1>0, <2>1, MergeKeepsNewer DEF FinishRead
  <2>4. net' \in SUBSET Message
    <3>1. ASSUME NEW m \in behind PROVE MessageTo(m, v) \in Message
      <4>1. m \in Replicas /\ rd[r].resp[m] \in Version /\ rd[r].resp[m].hlc < v.hlc
        BY <2>1 DEF Behind
      <4>2. v.hlc > 0
        BY <4>1, <2>1, VersionStamps
      <4> QED
        BY <4>1, <4>2, <2>1, VersionStamps DEF MessageTo, Message
    <3>2. {MessageTo(m, v) : m \in behind \ {rd[r].coord}} \in SUBSET Message
      BY <3>1
    <3> QED
      BY <1>10, <3>2, SendLateType DEF FinishRead
  <2> QED
    BY <1>10, <2>2, <2>3, <2>4 DEF FinishRead, TypeOK, Stamped
<1>11. ASSUME NEW r \in Reads, FailRead(r)
       PROVE  Typed'
  <2>1. rd' \in [Reads -> ReadOp]
    BY <1>11, <1>0, EndTypes DEF FailRead
  <2> QED
    BY <1>11, <2>1 DEF FailRead, TypeOK, Stamped
<1>12. ASSUME NEW m \in net, Deliver(m)
       PROVE  Typed'
  <2>1. m.dst \in Replicas /\ m.ver \in Version
    BY <1>0 DEF Message, Version
  <2>2. clock' \in [Nodes -> 0 .. MaxHlc] /\ store' \in [Replicas -> Version]
    BY <1>12, <2>1, ReplicaApplyType DEF Deliver
  <2> QED
    BY <1>12, <1>0, <2>2 DEF Deliver, TypeOK, Stamped
<1>13. ASSUME NEW c \in Nodes, StartPass(c)
       PROVE  Typed'
  <2>1. pass' \in [Nodes -> Pass]
    BY <1>13, <1>0 DEF StartPass, Pass
  <2> QED
    BY <1>13, <2>1 DEF StartPass, TypeOK, Stamped
<1>14. ASSUME NEW c \in Nodes, NEW m \in pass[c].todo, PushHint(c, m)
       PROVE  Typed'
  <2>1. m \in Message
    BY <1>0 DEF Pass
  <2>2. m.dst \in Replicas /\ m.ver \in Version
    BY <2>1 DEF Message, Version
  <2>3. clock' \in [Nodes -> 0 .. MaxHlc] /\ store' \in [Replicas -> Version]
    BY <1>14, <2>2, ReplicaApplyType DEF PushHint
  <2>4. pass' \in [Nodes -> Pass]
    BY <1>14, <1>0 DEF PushHint, Pass
  <2> QED
    BY <1>14, <2>3, <2>4 DEF PushHint, TypeOK, Stamped
<1>15. ASSUME NEW c \in Nodes, NEW m \in pass[c].todo, PushHintFails(c, m)
       PROVE  Typed'
  <2>1. m \in Message
    BY <1>0 DEF Pass
  <2>2. net' \in SUBSET Message
    BY <1>15, <2>1, SendLateType DEF PushHintFails
  <2>3. pass' \in [Nodes -> Pass]
    BY <1>15, <1>0, <2>1 DEF PushHintFails, Pass
  <2> QED
    BY <1>15, <2>2, <2>3 DEF PushHintFails, TypeOK, Stamped
<1>16. ASSUME NEW c \in Nodes, RewriteClear(c)
       PROVE  Typed'
  <2>1. [pass[c] EXCEPT !.pc = "rewrite"] \in Pass
    BY <1>0 DEF Pass
  <2>2. pass' \in [Nodes -> Pass] /\ hints' \in [Nodes -> SUBSET Message]
    BY <1>16, <1>0, <2>1, BlankTypes DEF RewriteClear
  <2> QED
    BY <1>16, <2>2 DEF RewriteClear, TypeOK, Stamped
<1>17. ASSUME NEW c \in Nodes, NEW m \in pass[c].keep, RewriteKeep(c, m)
       PROVE  Typed'
  <2>1. m \in Message /\ [pass[c] EXCEPT !.keep = @ \ {m}] \in Pass
    BY <1>0 DEF Pass
  <2>2. pass' \in [Nodes -> Pass] /\ hints' \in [Nodes -> SUBSET Message]
    BY <1>17, <1>0, <2>1, BlankTypes DEF RewriteKeep
  <2> QED
    BY <1>17, <2>2 DEF RewriteKeep, TypeOK, Stamped
<1>18. ASSUME NEW c \in Nodes, Crash(c)
       PROVE  Typed'
  <2>1. wr' \in [Writes -> WriteOp]
    BY <1>18, <1>0, EndTypes DEF Crash
  <2>2. Stamped'
    BY <1>18, <1>0, EndTypes DEF Crash, Stamped
  <2>3. rd' \in [Reads -> ReadOp]
    BY <1>18, <1>0, EndTypes DEF Crash
  <2>4. /\ up' \in [Nodes -> BOOLEAN] /\ pass' \in [Nodes -> Pass]
        /\ clock' \in [Nodes -> 0 .. MaxHlc] /\ crashes' \in 0 .. MaxCrashes
    BY <1>18, BlankTypes, BoundsAssumption DEF Crash, TypeOK
  <2> QED
    BY <1>18, <2>1, <2>2, <2>3, <2>4 DEF Crash, TypeOK
<1>19. ASSUME NEW c \in Nodes, Restart(c)
       PROVE  Typed'
  BY <1>19 DEF Restart, TypeOK, Stamped
<1>20. CASE UNCHANGED vars
  BY <1>20 DEF vars, TypeOK, Stamped
<1>21. ASSUME NEW q \in Writes, NEW n \in Replicas, LocalWriteFails(q, n)
       PROVE  Typed'
  <2>1. store' \in [Replicas -> Version]
    BY <1>21, <1>0, WriteMessage, ShardApplyType DEF LocalWriteFails
  <2>2. wr' \in [Writes -> WriteOp]
    BY <1>21, <1>0, AnswerTypes DEF LocalWriteFails
  <2>3. Stamped'
    BY <1>21, <1>0, AnswerTypes DEF LocalWriteFails, Stamped
  <2> QED
    BY <1>21, <2>1, <2>2, <2>3 DEF LocalWriteFails, TypeOK
<1>22. ASSUME NEW c \in Nodes, ClearFails(c)
       PROVE  Typed'
  <2>1. pass' \in [Nodes -> Pass]
    BY <1>22, <1>0, BlankTypes DEF ClearFails
  <2> QED
    BY <1>22, <2>1 DEF ClearFails, TypeOK, Stamped
<1>23. ASSUME NEW c \in Nodes, RewriteFails(c)
       PROVE  Typed'
  <2>1. pass' \in [Nodes -> Pass]
    <3>1. [pass[c] EXCEPT !.pc = "failed", !.read = {}] \in Pass
      BY <1>0 DEF Pass
    <3> QED
      BY <1>23, <1>0, <3>1 DEF RewriteFails
  <2> QED
    BY <1>23, <2>1 DEF RewriteFails, TypeOK, Stamped
<1> QED
  BY <1>1, <1>2, <1>3, <1>4, <1>5, <1>6, <1>7, <1>8, <1>9, <1>10, <1>11, <1>12, <1>13,
     <1>14, <1>15, <1>16, <1>17, <1>18, <1>19, <1>20, <1>21, <1>22, <1>23
     DEF Next, WriteStep, ReadStep, ReplayStep

\* Every state has the types of TypeOK: no path yields a stamp beyond those
\* issued, a version without a value, or a hint for a node that is no replica.
THEOREM TypeCorrect == Spec => []TypeOK
<1>1. Typed => TypeOK
  BY DEF Typed
<1> QED
  BY <1>1, TypedInit, TypedNext, PTL DEF Spec

-----------------------------------------------------------------------------
(* Replicas only advance.                                                  *)

StoreAdvances ==
    \A n \in Replicas : store'[n] = store[n] \/ store[n].hlc < store'[n].hlc

LEMMA ShardApplyAdvances ==
    ASSUME Typed, NEW n \in Replicas, NEW v \in Version, ShardApply(n, v)
    PROVE  StoreAdvances /\ v.hlc <= store'[n].hlc
<1>1. store \in [Replicas -> Version]
  BY DEF Typed, TypeOK
<1>2. store' = [store EXCEPT ![n] = Merge(store[n], v)]
  BY DEF ShardApply
<1>3. /\ Merge(store[n], v) = store[n] \/ store[n].hlc < Merge(store[n], v).hlc
      /\ v.hlc <= Merge(store[n], v).hlc
  BY <1>1, MergeKeepsNewer
<1> QED
  BY <1>1, <1>2, <1>3 DEF StoreAdvances

LEMMA ReplicaApplyAdvances ==
    ASSUME Typed, NEW n \in Replicas, NEW v \in Version, ReplicaApply(n, v)
    PROVE  StoreAdvances /\ v.hlc <= store'[n].hlc
  BY ShardApplyAdvances DEF ReplicaApply

LEMMA WriteAckAdvances ==
    ASSUME Typed, NEW q \in Writes, NEW n \in Replicas, WriteAck(q, n)
    PROVE  StoreAdvances /\ VersionOf(q).hlc <= store'[n].hlc
<1>1. VersionOf(q) \in Version
  BY WriteMessage DEF WriteAck
<1>2. ShardApply(n, VersionOf(q))
  BY DEF WriteAck, ReplicaApply
<1> QED
  BY <1>1, <1>2, ShardApplyAdvances

LEMMA FinishReadAdvances ==
    ASSUME Typed, NEW r \in Reads, NEW win \in Replicas, FinishRead(r, win)
    PROVE  StoreAdvances
<1>1. store \in [Replicas -> Version] /\ rd[r].resp[win] \in Version
  BY DEF Typed, TypeOK, ReadOp
<1>2. ASSUME NEW n \in Replicas
      PROVE  store'[n] = store[n] \/ store'[n] = Merge(store[n], rd[r].resp[win])
  BY DEF FinishRead
<1> QED
  BY <1>1, <1>2, MergeKeepsNewer DEF StoreAdvances

LEMMA NextAdvances == Typed /\ [Next]_vars => StoreAdvances
<1> SUFFICES ASSUME Typed, [Next]_vars
             PROVE  StoreAdvances
  OBVIOUS
<1>1. ASSUME NEW q \in Writes, NEW n \in Replicas, WriteAck(q, n)
      PROVE  StoreAdvances
  BY <1>1, WriteAckAdvances
<1>2. ASSUME NEW r \in Reads, NEW n \in Replicas, FinishRead(r, n)
      PROVE  StoreAdvances
  BY <1>2, FinishReadAdvances
<1>3. ASSUME NEW m \in net, Deliver(m)
      PROVE  StoreAdvances
  <2>1. m.dst \in Replicas /\ m.ver \in Version
    BY DEF Typed, TypeOK, Message, Version
  <2> QED
    BY <1>3, <2>1, ReplicaApplyAdvances DEF Deliver
<1>4. ASSUME NEW c \in Nodes, NEW m \in pass[c].todo, PushHint(c, m)
      PROVE  StoreAdvances
  <2>1. m \in Message
    BY DEF Typed, TypeOK, Pass
  <2>2. m.dst \in Replicas /\ m.ver \in Version
    BY <2>1 DEF Message, Version
  <2> QED
    BY <1>4, <2>2, ReplicaApplyAdvances DEF PushHint
<1>5. ASSUME NEW q \in Writes, NEW n \in Replicas, LocalWriteFails(q, n)
      PROVE  StoreAdvances
  BY <1>5, WriteMessage, ShardApplyAdvances DEF LocalWriteFails, StoreAdvances
<1>6. CASE UNCHANGED store
  BY <1>6 DEF StoreAdvances
<1> QED
  BY <1>1, <1>2, <1>3, <1>4, <1>5, <1>6
     DEF Next, WriteStep, ReadStep, ReplayStep, vars, BeginWrite, WriteMiss, BufferHint,
         BufferHintFails, FinishWrite, BeginRead, ReadReply, ReadMiss, FailRead, StartPass,
         PushHintFails, ClearFails, RewriteClear, RewriteKeep, RewriteFails, Crash, Restart

\* A replica's version never goes back and never changes under an equal stamp,
\* for any order of answers, late deliveries, hint replays and read repairs.
THEOREM ReplicasOnlyAdvance == Spec => ReplicasAdvance
<1>1. Typed /\ [Next]_vars =>
        [\A n \in Replicas : store'[n] = store[n] \/ store[n].hlc < store'[n].hlc]_vars
  BY NextAdvances DEF StoreAdvances
<1> QED
  BY <1>1, TypedInit, TypedNext, PTL DEF Spec, ReplicasAdvance

-----------------------------------------------------------------------------
(* Acknowledged writes.  AckedAtQuorum and ReadYourWrites are not          *)
(* inductive: neither says which replicas hold the write, nor what a read  *)
(* in progress has gathered so far.                                        *)

\* A replica that acknowledged a write is at its stamp or beyond.
AcksStored == \A q \in Writes : \A n \in wr[q].acks : wr[q].hlc <= store[n].hlc

\* Success means that the level's count of replicas acknowledged.
OkHasQuorum ==
    \A q \in Writes : wr[q].pc = "ok" => Cardinality(wr[q].acks) >= Count(wr[q].level, N)

\* What a read has to see was acknowledged, and stays so.
SeenAreOk == \A r \in Reads : \A q \in rd[r].seen : wr[q].pc = "ok"

\* The answers gathered from a write's replicas are as new as the write.
AnswersFresh ==
    \A r \in Reads : rd[r].pc = "read" =>
        \A q \in rd[r].seen : \A n \in rd[r].got \cap wr[q].acks :
            wr[q].hlc <= rd[r].resp[n].hlc

IInv == /\ Typed /\ AcksStored /\ OkHasQuorum
        /\ SeenAreOk /\ AnswersFresh /\ ReadYourWrites

LEMMA IInvInit == Init => IInv
<1> SUFFICES ASSUME Init
             PROVE  IInv
  OBVIOUS
<1>1. Typed
  BY TypedInit
<1>2. \A q \in Writes : wr[q].acks = {} /\ wr[q].pc = "idle"
  BY DEF Init, IdleWrite
<1>3. \A r \in Reads : rd[r].seen = {} /\ rd[r].pc = "idle"
  BY DEF Init, IdleRead
<1> QED
  BY <1>1, <1>2, <1>3 DEF IInv, AcksStored, OkHasQuorum, SeenAreOk, AnswersFresh, ReadYourWrites

\* What a step may do to a write: an acknowledged write is final, a new
\* acknowledgement comes from a replica that has stored the write, and success
\* comes with enough of them.
WriteEffect(q) ==
    /\ wr[q].pc = "ok" => wr'[q] = wr[q]
    /\ \A n \in wr'[q].acks : \/ wr'[q].hlc <= store'[n].hlc
                              \/ n \in wr[q].acks /\ wr'[q].hlc = wr[q].hlc
    /\ wr'[q].pc = "ok" => \/ wr[q].pc = "ok"
                           \/ Cardinality(wr'[q].acks) >= Count(wr'[q].level, N)

LEMMA NextWriteEffect ==
    Typed /\ [Next]_vars => \A q \in Writes : WriteEffect(q)
<1> SUFFICES ASSUME Typed, [Next]_vars
             PROVE  \A q \in Writes : WriteEffect(q)
  OBVIOUS
<1>0. wr \in [Writes -> WriteOp]
  BY DEF Typed, TypeOK
<1>1. ASSUME NEW q \in Writes, NEW c \in Coordinators, NEW level \in Levels,
             NEW h \in 1 .. MaxHlc, BeginWrite(q, c, level, h)
      PROVE  \A p \in Writes : WriteEffect(p)
  BY <1>1, <1>0 DEF BeginWrite, WriteEffect
<1>2. ASSUME NEW q \in Writes, NEW n \in Replicas, WriteAck(q, n)
      PROVE  \A p \in Writes : WriteEffect(p)
  <2>1. VersionOf(q).hlc <= store'[n].hlc
    BY <1>2, WriteAckAdvances
  <2>2. wr[q].hlc <= store'[n].hlc
    BY <2>1 DEF VersionOf
  <2>3. wr[q].pc = "send" /\ wr' = [wr EXCEPT ![q] = Acked(wr[q], n)]
    BY <1>2 DEF WriteAck
  <2>4. /\ wr'[q].pc = "send" /\ wr'[q].hlc = wr[q].hlc
        /\ wr'[q].acks = wr[q].acks \cup {n}
    BY <1>0, <2>3, AnswerTypes
  <2>5. WriteEffect(q)
    BY <2>2, <2>3, <2>4 DEF WriteEffect
  <2>6. \A p \in Writes \ {q} : WriteEffect(p)
    BY <1>0, <2>3 DEF WriteEffect
  <2> QED
    BY <2>5, <2>6
<1>3. ASSUME NEW q \in Writes, NEW n \in Replicas, WriteMiss(q, n)
      PROVE  \A p \in Writes : WriteEffect(p)
  BY <1>3, <1>0, AnswerTypes DEF WriteMiss, WriteEffect
<1>4. ASSUME NEW q \in Writes, NEW n \in Replicas, BufferHint(q, n)
      PROVE  \A p \in Writes : WriteEffect(p)
  <2>1. wr[q].pc = "send" /\ wr' = [wr EXCEPT ![q].miss = @ \ {n}]
    BY <1>4 DEF BufferHint
  <2>2. wr'[q].pc = "send" /\ wr'[q].acks = wr[q].acks /\ wr'[q].hlc = wr[q].hlc
    BY <1>0, <2>1 DEF WriteOp
  <2> QED
    BY <1>0, <2>1, <2>2 DEF WriteEffect
<1>5. ASSUME NEW q \in Writes, BufferHintFails(q)
      PROVE  \A p \in Writes : WriteEffect(p)
  <2>1. wr[q].pc = "send" /\ wr' = [wr EXCEPT ![q] = EndWrite(wr[q], "failed")]
    BY <1>5 DEF BufferHintFails
  <2>2. wr'[q].acks = {} /\ wr'[q].pc = "failed"
    BY <1>0, <2>1 DEF EndWrite, IdleWrite
  <2> QED
    BY <1>0, <2>1, <2>2 DEF WriteEffect
<1>6. ASSUME NEW q \in Writes, FinishWrite(q)
      PROVE  \A p \in Writes : WriteEffect(p)
  <2>1. wr[q].pc = "send" /\ \A p \in Writes \ {q} : wr'[p] = wr[p]
    BY <1>0, <1>6 DEF FinishWrite
  <2>2. CASE Cardinality(wr[q].acks) >= Count(wr[q].level, N)
    <3>1. wr'[q] = [wr[q] EXCEPT !.pc = "ok"]
      BY <1>0, <1>6, <2>2 DEF FinishWrite
    <3>2. wr'[q].acks = wr[q].acks /\ wr'[q].hlc = wr[q].hlc /\ wr'[q].level = wr[q].level
      BY <1>0, <3>1 DEF WriteOp
    <3> QED
      BY <2>1, <2>2, <3>2 DEF WriteEffect
  <2>3. CASE ~(Cardinality(wr[q].acks) >= Count(wr[q].level, N))
    <3>1. wr'[q] = EndWrite(wr[q], "failed")
      BY <1>0, <1>6, <2>3 DEF FinishWrite
    <3>2. wr'[q].acks = {} /\ wr'[q].pc = "failed"
      BY <3>1 DEF EndWrite, IdleWrite
    <3> QED
      BY <2>1, <3>2 DEF WriteEffect
  <2> QED
    BY <2>2, <2>3
<1>7. ASSUME NEW c \in Nodes, Crash(c)
      PROVE  \A p \in Writes : WriteEffect(p)
  <2>1. ASSUME NEW p \in Writes
        PROVE  wr'[p] = wr[p] \/ (wr[p].pc = "send" /\ wr'[p] = EndWrite(wr[p], "dead"))
    BY <1>7, <1>0 DEF Crash
  <2>2. ASSUME NEW p \in Writes, wr'[p] = EndWrite(wr[p], "dead")
        PROVE  wr'[p].acks = {} /\ wr'[p].pc = "dead"
    BY <2>2 DEF EndWrite, IdleWrite
  <2> QED
    BY <2>1, <2>2 DEF WriteEffect
<1>8. ASSUME NEW q \in Writes, NEW n \in Replicas, LocalWriteFails(q, n)
      PROVE  \A p \in Writes : WriteEffect(p)
  BY <1>8, <1>0, AnswerTypes DEF LocalWriteFails, WriteEffect
<1>9. CASE UNCHANGED wr
  BY <1>9 DEF WriteEffect
<1> QED
  BY <1>1, <1>2, <1>3, <1>4, <1>5, <1>6, <1>7, <1>8, <1>9
     DEF Next, WriteStep, ReadStep, ReplayStep, vars, BeginRead, ReadReply, ReadMiss, FinishRead,
         FailRead, Deliver, StartPass, PushHint, PushHintFails, ClearFails, RewriteClear,
         RewriteKeep, RewriteFails, Restart

\* What a step may do to a read: it has to see only acknowledged writes, it
\* gathers what a replica holds, and it returns the newest of R answers.
ReadEffect(r) ==
    /\ \A q \in rd'[r].seen : q \in rd[r].seen \/ wr[q].pc = "ok"
    /\ rd'[r].pc = "read" =>
          \A n \in rd'[r].got :
              \/ rd'[r].resp[n] = store[n]
              \/ /\ rd[r].pc = "read" /\ n \in rd[r].got
                 /\ rd'[r].resp[n] = rd[r].resp[n] /\ rd'[r].seen = rd[r].seen
    /\ rd'[r].pc = "done" =>
          \/ rd'[r] = rd[r]
          \/ /\ rd[r].pc = "read" /\ rd'[r].seen = rd[r].seen
             /\ Cardinality(rd[r].got) >= Count(rd'[r].level, N)
             /\ \A n \in rd[r].got : rd[r].resp[n].hlc <= rd'[r].res.hlc

LEMMA NextReadEffect ==
    Typed /\ [Next]_vars => \A r \in Reads : ReadEffect(r)
<1> SUFFICES ASSUME Typed, [Next]_vars
             PROVE  \A r \in Reads : ReadEffect(r)
  OBVIOUS
<1>0. rd \in [Reads -> ReadOp] /\ store \in [Replicas -> Version]
  BY DEF Typed, TypeOK
<1>1. ASSUME NEW r \in Reads, NEW c \in Coordinators, NEW level \in Levels,
             BeginRead(r, c, level)
      PROVE  \A p \in Reads : ReadEffect(p)
  <2>1. /\ \A p \in Reads \ {r} : rd'[p] = rd[p]
        /\ rd'[r] = [IdleRead EXCEPT !.pc = "read", !.coord = c, !.level = level,
                         !.todo = Replicas, !.seen = {q \in Writes : wr[q].pc = "ok"}]
    BY <1>1, <1>0 DEF BeginRead
  <2>2. /\ rd'[r].pc = "read" /\ rd'[r].got = {}
        /\ rd'[r].seen = {q \in Writes : wr[q].pc = "ok"}
    BY <2>1 DEF IdleRead
  <2> QED
    BY <2>1, <2>2 DEF ReadEffect
<1>2. ASSUME NEW r \in Reads, NEW n \in Replicas, ReadReply(r, n)
      PROVE  \A p \in Reads : ReadEffect(p)
  <2>1. /\ rd[r].pc = "read" /\ rd' = [rd EXCEPT ![r] = Answered(rd[r], n, store[n])]
    BY <1>2 DEF ReadReply
  <2>2. /\ rd'[r].pc = "read" /\ rd'[r].got = rd[r].got \cup {n}
        /\ rd'[r].seen = rd[r].seen
        /\ rd'[r].resp = [rd[r].resp EXCEPT ![n] = store[n]]
    BY <1>0, <2>1, AnswerTypes
  <2>3. /\ rd[r].resp \in [Replicas -> Version] /\ rd[r].got \subseteq Replicas
    BY <1>0 DEF ReadOp
  <2>4. ReadEffect(r)
    BY <2>1, <2>2, <2>3 DEF ReadEffect
  <2>5. \A p \in Reads \ {r} : ReadEffect(p)
    BY <1>0, <2>1 DEF ReadEffect
  <2> QED
    BY <2>4, <2>5
<1>3. ASSUME NEW r \in Reads, NEW n \in Replicas, ReadMiss(r, n)
      PROVE  \A p \in Reads : ReadEffect(p)
  <2>1. rd[r].pc = "read" /\ rd' = [rd EXCEPT ![r].todo = @ \ {n}]
    BY <1>3 DEF ReadMiss
  <2>2. /\ rd'[r].pc = "read" /\ rd'[r].got = rd[r].got /\ rd'[r].seen = rd[r].seen
        /\ rd'[r].resp = rd[r].resp
    BY <1>0, <2>1 DEF ReadOp
  <2> QED
    BY <1>0, <2>1, <2>2 DEF ReadEffect
<1>4. ASSUME NEW r \in Reads, NEW win \in Replicas, FinishRead(r, win)
      PROVE  \A p \in Reads : ReadEffect(p)
  <2>1. /\ rd[r].pc = "read" /\ Cardinality(rd[r].got) >= Count(rd[r].level, N)
        /\ \A n \in rd[r].got : rd[r].resp[n].hlc <= rd[r].resp[win].hlc
        /\ rd' = [rd EXCEPT ![r] = [EndRead(rd[r], "done") EXCEPT !.res = rd[r].resp[win]]]
    BY <1>4 DEF FinishRead
  <2>2. EndRead(rd[r], "done") \in ReadOp
    BY <1>0, EndTypes
  <2>3. rd'[r] = [EndRead(rd[r], "done") EXCEPT !.res = rd[r].resp[win]]
    BY <1>0, <2>1
  <2>4. /\ rd'[r].pc = EndRead(rd[r], "done").pc
        /\ rd'[r].seen = EndRead(rd[r], "done").seen
        /\ rd'[r].level = EndRead(rd[r], "done").level
        /\ rd'[r].res = rd[r].resp[win]
    BY <2>2, <2>3 DEF ReadOp
  <2>5. rd'[r].pc = "done" /\ rd'[r].seen = rd[r].seen /\ rd'[r].level = rd[r].level
    BY <1>0, <2>4, EndTypes
  <2> QED
    BY <1>0, <2>1, <2>4, <2>5 DEF ReadEffect
<1>5. ASSUME NEW r \in Reads, FailRead(r)
      PROVE  \A p \in Reads : ReadEffect(p)
  <2>1. rd' = [rd EXCEPT ![r] = EndRead(rd[r], "failed")]
    BY <1>5 DEF FailRead
  <2>2. rd'[r].pc = "failed" /\ rd'[r].seen = rd[r].seen
    BY <1>0, <2>1, EndTypes
  <2> QED
    BY <1>0, <2>1, <2>2 DEF ReadEffect
<1>6. ASSUME NEW c \in Nodes, Crash(c)
      PROVE  \A p \in Reads : ReadEffect(p)
  <2>1. ASSUME NEW p \in Reads
        PROVE  rd'[p] = rd[p] \/ rd'[p] = EndRead(rd[p], "dead")
    BY <1>6 DEF Crash
  <2>2. ASSUME NEW p \in Reads, rd'[p] = EndRead(rd[p], "dead")
        PROVE  rd'[p].pc = "dead" /\ rd'[p].seen = rd[p].seen
    BY <1>0, <2>2, EndTypes
  <2> QED
    BY <2>1, <2>2 DEF ReadEffect
<1>7. CASE UNCHANGED rd
  BY <1>7 DEF ReadEffect
<1> QED
  BY <1>1, <1>2, <1>3, <1>4, <1>5, <1>6, <1>7
     DEF Next, WriteStep, ReadStep, ReplayStep, vars, BeginWrite, WriteAck, WriteMiss,
         LocalWriteFails, BufferHint, BufferHintFails, FinishWrite, Deliver, StartPass, PushHint,
         PushHintFails, ClearFails, RewriteClear, RewriteKeep, RewriteFails, Restart

LEMMA IInvNext == IInv /\ [Next]_vars => IInv'
<1> SUFFICES ASSUME IInv, [Next]_vars
             PROVE  IInv'
  OBVIOUS
<1>1. Typed /\ Typed'
  BY TypedNext DEF IInv
<1>2. /\ \A q \in Writes : WriteEffect(q)
      /\ \A r \in Reads : ReadEffect(r)
      /\ StoreAdvances
  BY <1>1, NextWriteEffect, NextReadEffect, NextAdvances
<1>3. ASSUME NEW q \in Writes
      PROVE  /\ wr[q] \in WriteOp /\ wr[q].hlc \in Nat /\ wr[q].acks \subseteq Replicas
             /\ wr'[q].hlc \in Nat /\ wr'[q].acks \subseteq Replicas
  BY <1>1, BoundsAssumption DEF Typed, TypeOK, WriteOp
<1>4. ASSUME NEW n \in Replicas
      PROVE  store[n].hlc \in Nat /\ store'[n].hlc \in Nat /\ store[n].hlc <= store'[n].hlc
  <2>1. store[n] \in Version /\ store'[n] \in Version
    BY <1>1 DEF Typed, TypeOK
  <2> QED
    BY <2>1, <1>2, VersionStamps DEF StoreAdvances
<1>5. AcksStored'
  <2>1. ASSUME NEW q \in Writes, NEW n \in wr'[q].acks
        PROVE  wr'[q].hlc <= store'[n].hlc
    <3>1. n \in Replicas
      BY <1>3
    <3>2. CASE n \in wr[q].acks /\ wr'[q].hlc = wr[q].hlc
      BY <3>1, <3>2, <1>3, <1>4 DEF IInv, AcksStored
    <3> QED
      BY <1>2, <3>2 DEF WriteEffect
  <2> QED
    BY <2>1 DEF AcksStored
<1>6. OkHasQuorum'
  <2>1. ASSUME NEW q \in Writes, wr'[q].pc = "ok"
        PROVE  Cardinality(wr'[q].acks) >= Count(wr'[q].level, N)
    BY <2>1, <1>2 DEF WriteEffect, IInv, OkHasQuorum
  <2> QED
    BY <2>1 DEF OkHasQuorum
<1>7. ASSUME NEW r \in Reads, NEW q \in rd'[r].seen
      PROVE  q \in Writes /\ wr[q].pc = "ok" /\ wr'[q] = wr[q]
  <2>1. q \in Writes
    BY <1>1 DEF Typed, TypeOK, ReadOp
  <2> QED
    BY <2>1, <1>2 DEF ReadEffect, WriteEffect, IInv, SeenAreOk
<1>8. SeenAreOk'
  BY <1>7 DEF SeenAreOk
<1>9. AnswersFresh'
  <2>1. ASSUME NEW r \in Reads, rd'[r].pc = "read", NEW q \in rd'[r].seen,
               NEW n \in rd'[r].got \cap wr'[q].acks
        PROVE  wr'[q].hlc <= rd'[r].resp[n].hlc
    <3>1. q \in Writes /\ wr'[q] = wr[q] /\ n \in wr[q].acks
      BY <1>7
    <3>2. CASE rd'[r].resp[n] = store[n]
      BY <3>1, <3>2 DEF IInv, AcksStored
    <3>3. CASE /\ rd[r].pc = "read" /\ n \in rd[r].got
               /\ rd'[r].resp[n] = rd[r].resp[n] /\ rd'[r].seen = rd[r].seen
      BY <3>1, <3>3 DEF IInv, AnswersFresh
    <3> QED
      BY <2>1, <1>2, <3>2, <3>3 DEF ReadEffect
  <2> QED
    BY <2>1 DEF AnswersFresh
<1>10. ReadYourWrites'
  <2>1. ASSUME NEW r \in Reads, rd'[r].pc = "done", NEW q \in rd'[r].seen,
               Count(wr'[q].level, N) + Count(rd'[r].level, N) > N
        PROVE  wr'[q].hlc <= rd'[r].res.hlc
    <3>1. q \in Writes /\ wr'[q] = wr[q] /\ wr[q].pc = "ok"
      BY <1>7
    <3>2. CASE rd'[r] = rd[r]
      BY <2>1, <3>1, <3>2 DEF IInv, ReadYourWrites
    <3>3. CASE /\ rd[r].pc = "read" /\ rd'[r].seen = rd[r].seen
               /\ Cardinality(rd[r].got) >= Count(rd'[r].level, N)
               /\ \A n \in rd[r].got : rd[r].resp[n].hlc <= rd'[r].res.hlc
      <4>1. /\ rd[r].got \in SUBSET Replicas /\ rd[r].resp \in [Replicas -> Version]
            /\ wr[q].acks \in SUBSET Replicas /\ rd'[r].res \in Version
        BY <1>1, <3>1 DEF Typed, TypeOK, ReadOp, WriteOp
      <4>2. Cardinality(wr[q].acks) >= Count(wr[q].level, N)
        BY <3>1 DEF IInv, OkHasQuorum
      <4>3. /\ Cardinality(wr[q].acks) \in Nat /\ Cardinality(rd[r].got) \in Nat /\ N \in Nat
            /\ Count(wr[q].level, N) \in Nat /\ Count(rd'[r].level, N) \in Nat
        <5>1. IsFiniteSet(Replicas)
          BY ReplicasAssumption, FS_Subset
        <5>2. IsFiniteSet(wr[q].acks) /\ IsFiniteSet(rd[r].got)
          BY <4>1, <5>1, FS_Subset
        <5> QED
          BY <5>1, <5>2, FS_CardinalityType, CountType DEF N
      <4>4. Cardinality(wr[q].acks) + Cardinality(rd[r].got) > N
        BY <2>1, <3>1, <3>3, <4>2, <4>3
      <4>5. PICK n \in wr[q].acks : n \in rd[r].got
        BY <4>1, <4>4, QuorumsIntersect
      <4>6. wr[q].hlc <= rd[r].resp[n].hlc /\ rd[r].resp[n].hlc <= rd'[r].res.hlc
        BY <2>1, <3>3, <4>5 DEF IInv, AnswersFresh
      <4>7. rd[r].resp[n].hlc \in Nat /\ rd'[r].res.hlc \in Nat /\ wr[q].hlc \in Nat
        BY <1>3, <3>1, <4>1, <4>5, VersionStamps
      <4> QED
        BY <3>1, <4>6, <4>7
    <3> QED
      BY <2>1, <1>2, <3>2, <3>3 DEF ReadEffect
  <2> QED
    BY <2>1 DEF ReadYourWrites
<1> QED
  BY <1>1, <1>5, <1>6, <1>8, <1>9, <1>10 DEF IInv

LEMMA IInvGivesQuorum == IInv => AckedAtQuorum
<1> SUFFICES ASSUME IInv, NEW q \in Writes, wr[q].pc = "ok"
             PROVE  Cardinality({n \in Replicas : wr[q].hlc <= store[n].hlc})
                       >= Count(wr[q].level, N)
  BY DEF AckedAtQuorum
<1> DEFINE holders == {n \in Replicas : wr[q].hlc <= store[n].hlc}
<1>1. wr[q].acks \subseteq holders
  BY DEF IInv, Typed, TypeOK, WriteOp, AcksStored
<1>2. IsFiniteSet(holders)
  BY ReplicasAssumption, FS_Subset
<1>3. Cardinality(wr[q].acks) <= Cardinality(holders) /\ IsFiniteSet(wr[q].acks)
  BY <1>1, <1>2, FS_Subset
<1>4. /\ Cardinality(holders) \in Nat /\ Cardinality(wr[q].acks) \in Nat
      /\ Count(wr[q].level, N) \in Nat
  <2>1. N \in Nat
    BY ReplicasAssumption, FS_Subset, FS_CardinalityType DEF N
  <2> QED
    BY <1>2, <1>3, <2>1, FS_CardinalityType, CountType
<1>5. Cardinality(wr[q].acks) >= Count(wr[q].level, N)
  BY DEF IInv, OkHasQuorum
<1> QED
  BY <1>3, <1>4, <1>5

\* A write answered with success is, from then on, at its stamp or a newer one
\* on as many replicas as its level asked for, for every number of nodes,
\* requests, crashes and late messages.
THEOREM AckedStaysAtQuorum == Spec => []AckedAtQuorum
  BY IInvInit, IInvNext, IInvGivesQuorum, PTL DEF Spec

\* When W + R > N, a get returns a version at least as new as every write that
\* was acknowledged before the get began.
THEOREM OverlapReadsWrites == Spec => []ReadYourWrites
<1>1. IInv => ReadYourWrites
  BY DEF IInv
<1> QED
  BY <1>1, IInvInit, IInvNext, PTL DEF Spec

\* The default levels overlap whatever the replication factor: a QUORUM get
\* returns a version at least as new as every QUORUM write acknowledged before.
THEOREM QuorumReadsQuorumWrites ==
    Spec => [](\A r \in Reads : rd[r].pc = "done" /\ rd[r].level = "QUORUM" =>
                  \A q \in rd[r].seen : wr[q].level = "QUORUM" => wr[q].hlc <= rd[r].res.hlc)
<1>1. N \in Nat \ {0}
  <2>1. IsFiniteSet(Replicas) /\ Replicas # {}
    BY ReplicasAssumption, FS_Subset
  <2> QED
    BY <2>1, FS_CardinalityType, FS_EmptySet DEF N
<1>2. ReadYourWrites =>
        \A r \in Reads : rd[r].pc = "done" /\ rd[r].level = "QUORUM" =>
            \A q \in rd[r].seen : wr[q].level = "QUORUM" => wr[q].hlc <= rd[r].res.hlc
  BY <1>1, MajoritiesOverlap DEF ReadYourWrites
<1> QED
  BY <1>2, OverlapReadsWrites, PTL

-----------------------------------------------------------------------------
(* Whose version is it?  VersionsAreWrites leaves out the versions still   *)
(* to be pushed by a pass and the answers gathered by a read, which a      *)
(* later step copies into a replica, a hint or an answer.                  *)

\* v is "nothing", or the value and the stamp of one write that began.
Genuine(v) == v = NoVersion \/ (wr[v.val].pc # "idle" /\ wr[v.val].hlc = v.hlc)

GenuineStore == \A n \in Replicas : Genuine(store[n])
GenuineNet == \A m \in net : Genuine(m.ver)
GenuineHints == \A c \in Nodes : \A m \in hints[c] : Genuine(m.ver)
GenuinePass == \A c \in Nodes : \A m \in pass[c].todo \cup pass[c].keep : Genuine(m.ver)
GenuineReads ==
    \A r \in Reads : Genuine(rd[r].res) /\ \A n \in Replicas : Genuine(rd[r].resp[n])

VInv == Typed /\ GenuineStore /\ GenuineNet /\ GenuineHints /\ GenuinePass /\ GenuineReads

\* The stamp of a write that began is final.
StampsFinal ==
    \A q \in Writes : wr[q].pc # "idle" => wr'[q].pc # "idle" /\ wr'[q].hlc = wr[q].hlc

LEMMA NextStampsFinal == Typed /\ [Next]_vars => StampsFinal
<1> SUFFICES ASSUME Typed, [Next]_vars
             PROVE  StampsFinal
  OBVIOUS
<1>0. wr \in [Writes -> WriteOp]
  BY DEF Typed, TypeOK
<1>1. ASSUME NEW q \in Writes, NEW c \in Coordinators, NEW level \in Levels,
             NEW h \in 1 .. MaxHlc, BeginWrite(q, c, level, h)
      PROVE  StampsFinal
  BY <1>1, <1>0 DEF BeginWrite, StampsFinal
<1>2. ASSUME NEW q \in Writes, NEW n \in Replicas, WriteAck(q, n)
      PROVE  StampsFinal
  BY <1>2, <1>0, AnswerTypes DEF WriteAck, StampsFinal
<1>3. ASSUME NEW q \in Writes, NEW n \in Replicas, WriteMiss(q, n)
      PROVE  StampsFinal
  BY <1>3, <1>0, AnswerTypes DEF WriteMiss, StampsFinal
<1>4. ASSUME NEW q \in Writes, NEW n \in Replicas, BufferHint(q, n)
      PROVE  StampsFinal
  BY <1>4, <1>0 DEF BufferHint, WriteOp, StampsFinal
<1>5. ASSUME NEW q \in Writes, BufferHintFails(q)
      PROVE  StampsFinal
  <2>1. EndWrite(wr[q], "failed").hlc = wr[q].hlc /\ EndWrite(wr[q], "failed").pc = "failed"
    BY DEF EndWrite, IdleWrite
  <2> QED
    BY <1>5, <1>0, <2>1 DEF BufferHintFails, StampsFinal
<1>6. ASSUME NEW q \in Writes, FinishWrite(q)
      PROVE  StampsFinal
  <2>1. EndWrite(wr[q], "failed").hlc = wr[q].hlc /\ EndWrite(wr[q], "failed").pc = "failed"
    BY DEF EndWrite, IdleWrite
  <2>2. /\ [wr[q] EXCEPT !.pc = "ok"].hlc = wr[q].hlc
        /\ [wr[q] EXCEPT !.pc = "ok"].pc = "ok"
    BY <1>0 DEF WriteOp
  <2>3. /\ wr'[q] \in {[wr[q] EXCEPT !.pc = "ok"], EndWrite(wr[q], "failed")}
        /\ \A p \in Writes \ {q} : wr'[p] = wr[p]
    BY <1>6, <1>0 DEF FinishWrite
  <2> QED
    BY <2>1, <2>2, <2>3 DEF StampsFinal
<1>7. ASSUME NEW c \in Nodes, Crash(c)
      PROVE  StampsFinal
  <2>1. ASSUME NEW p \in Writes
        PROVE  wr'[p] = wr[p] \/ wr'[p] = EndWrite(wr[p], "dead")
    BY <1>7, <1>0 DEF Crash
  <2>2. ASSUME NEW p \in Writes
        PROVE  EndWrite(wr[p], "dead").hlc = wr[p].hlc /\ EndWrite(wr[p], "dead").pc = "dead"
    BY DEF EndWrite, IdleWrite
  <2> QED
    BY <2>1, <2>2 DEF StampsFinal
<1>8. ASSUME NEW q \in Writes, NEW n \in Replicas, LocalWriteFails(q, n)
      PROVE  StampsFinal
  BY <1>8, <1>0, AnswerTypes DEF LocalWriteFails, StampsFinal
<1>9. CASE UNCHANGED wr
  BY <1>9 DEF StampsFinal
<1> QED
  BY <1>1, <1>2, <1>3, <1>4, <1>5, <1>6, <1>7, <1>8, <1>9
     DEF Next, WriteStep, ReadStep, ReplayStep, vars, BeginRead, ReadReply, ReadMiss, FinishRead,
         FailRead, Deliver, StartPass, PushHint, PushHintFails, ClearFails, RewriteClear,
         RewriteKeep, RewriteFails, Restart

\* What it takes for v to be genuine after the step.
Lasting(v) == v = NoVersion \/ (wr'[v.val].pc # "idle" /\ wr'[v.val].hlc = v.hlc)

\* A genuine version stays so, and the version that a write sends is genuine.
LEMMA GenuineStays ==
    ASSUME Typed, [Next]_vars
    PROVE  /\ \A v \in Version : Genuine(v) => Lasting(v)
           /\ \A q \in Writes : wr[q].pc # "idle" => Lasting(VersionOf(q))
           /\ Lasting(NoVersion)
<1>1. StampsFinal
  BY NextStampsFinal
<1>2. \A v \in Version : v = NoVersion \/ v.val \in Writes
  BY DEF Version
<1> QED
  BY <1>1, <1>2 DEF StampsFinal, Genuine, Lasting, VersionOf

\* What the steps do to the versions on replicas, in flight and in hints.
LEMMA VersionsMove ==
    ASSUME VInv, [Next]_vars
    PROVE  /\ \A n \in Replicas : Lasting(store'[n])
           /\ \A m \in net' : Lasting(m.ver)
           /\ \A c \in Nodes : \A m \in hints'[c] : Lasting(m.ver)
<1>0. /\ store \in [Replicas -> Version] /\ wr \in [Writes -> WriteOp]
      /\ rd \in [Reads -> ReadOp] /\ pass \in [Nodes -> Pass]
      /\ hints \in [Nodes -> SUBSET Message] /\ net \in SUBSET Message
  BY DEF VInv, Typed, TypeOK
<1>a. Typed
  BY DEF VInv
<1>b. \A m \in Message : m.ver \in Version /\ m.dst \in Replicas
  BY DEF Message, Version
<1>c. /\ \A n \in Replicas : Lasting(store[n])
      /\ \A m \in net : Lasting(m.ver)
      /\ \A c \in Nodes : \A m \in hints[c] : Lasting(m.ver)
      /\ \A c \in Nodes : \A m \in pass[c].todo \cup pass[c].keep : Lasting(m.ver)
      /\ \A r \in Reads : \A n \in Replicas : Lasting(rd[r].resp[n])
  <2>1. \A c \in Nodes : pass[c].todo \cup pass[c].keep \subseteq Message
    BY <1>0 DEF Pass
  <2>2. \A r \in Reads : \A n \in Replicas : rd[r].resp[n] \in Version
    BY <1>0 DEF ReadOp
  <2> QED
    BY <1>0, <1>a, <1>b, <2>1, <2>2, GenuineStays
       DEF VInv, GenuineStore, GenuineNet, GenuineHints, GenuinePass, GenuineReads
<1>1. ASSUME NEW n \in Replicas, NEW v \in Version, Lasting(v), ShardApply(n, v)
      PROVE  \A m \in Replicas : Lasting(store'[m])
  <2>1. \A m \in Replicas : store'[m] \in {store[m], v}
    BY <1>1, <1>0 DEF ShardApply, Merge
  <2> QED
    BY <1>1, <1>c, <2>1
<1>2. ASSUME NEW msgs, SendLate(msgs), \A m \in msgs : Lasting(m.ver)
      PROVE  \A m \in net' : Lasting(m.ver)
  BY <1>2, <1>c DEF SendLate
<1>3. \A n \in Replicas : Lasting(store'[n])
  <2>1. ASSUME NEW q \in Writes, NEW n \in Replicas, WriteAck(q, n)
        PROVE  \A m \in Replicas : Lasting(store'[m])
    <3>1. wr[q].pc # "idle"
      BY <2>1 DEF WriteAck
    <3>2. VersionOf(q) \in Version /\ Lasting(VersionOf(q))
      BY <1>a, <3>1, WriteMessage, GenuineStays
    <3> QED
      BY <1>1, <2>1, <3>2 DEF WriteAck, ReplicaApply
  <2>2. ASSUME NEW r \in Reads, NEW win \in Replicas, FinishRead(r, win)
        PROVE  \A m \in Replicas : Lasting(store'[m])
    <3>1. \A m \in Replicas : store'[m] \in {store[m], rd[r].resp[win]}
      BY <2>2, <1>0 DEF FinishRead, Merge
    <3> QED
      BY <1>c, <3>1
  <2>3. ASSUME NEW m \in net, Deliver(m)
        PROVE  \A n \in Replicas : Lasting(store'[n])
    BY <1>0, <1>1, <1>b, <1>c, <2>3 DEF Deliver, ReplicaApply
  <2>4. ASSUME NEW c \in Nodes, NEW m \in pass[c].todo, PushHint(c, m)
        PROVE  \A n \in Replicas : Lasting(store'[n])
    <3>1. m \in Message /\ Lasting(m.ver)
      BY <1>0, <1>c DEF Pass
    <3> QED
      BY <1>1, <1>b, <2>4, <3>1 DEF PushHint, ReplicaApply
  <2>5. ASSUME NEW q \in Writes, NEW n \in Replicas, LocalWriteFails(q, n)
        PROVE  \A m \in Replicas : Lasting(store'[m])
    <3>1. VersionOf(q) \in Version /\ Lasting(VersionOf(q))
      BY <1>a, <2>5, WriteMessage, GenuineStays DEF LocalWriteFails
    <3> QED
      BY <1>1, <1>c, <2>5, <3>1 DEF LocalWriteFails
  <2>6. CASE UNCHANGED store
    BY <1>c, <2>6
  <2> QED
    BY <2>1, <2>2, <2>3, <2>4, <2>5, <2>6
       DEF Next, WriteStep, ReadStep, ReplayStep, vars, BeginWrite, WriteMiss, BufferHint,
           BufferHintFails, FinishWrite, BeginRead, ReadReply, ReadMiss, FailRead, StartPass,
           PushHintFails, ClearFails, RewriteClear, RewriteKeep, RewriteFails, Crash, Restart
<1>4. \A m \in net' : Lasting(m.ver)
  <2>1. ASSUME NEW q \in Writes, NEW n \in Replicas, WriteMiss(q, n)
        PROVE  \A m \in net' : Lasting(m.ver)
    <3>1. wr[q].pc # "idle" /\ MessageTo(n, VersionOf(q)).ver = VersionOf(q)
      BY <2>1 DEF WriteMiss, MessageTo
    <3>2. Lasting(VersionOf(q))
      BY <1>a, <3>1, GenuineStays
    <3>3. \A m \in {MessageTo(n, VersionOf(q))} : Lasting(m.ver)
      BY <3>1, <3>2
    <3>4. SendLate({MessageTo(n, VersionOf(q))})
      BY <2>1 DEF WriteMiss
    <3> QED
      BY <1>2, <3>3, <3>4
  <2>2. ASSUME NEW r \in Reads, NEW win \in Replicas, FinishRead(r, win)
        PROVE  \A m \in net' : Lasting(m.ver)
    <3> DEFINE v == rd[r].resp[win]
               msgs == {MessageTo(n, v) : n \in Behind(rd[r], v) \ {rd[r].coord}}
    <3>1. SendLate(msgs)
      BY <2>2 DEF FinishRead
    <3>2. \A m \in msgs : Lasting(m.ver)
      BY <1>c DEF MessageTo
    <3> HIDE DEF msgs
    <3> QED
      BY <1>2, <3>1, <3>2
  <2>3. ASSUME NEW m \in net, Deliver(m)
        PROVE  \A k \in net' : Lasting(k.ver)
    BY <1>c, <2>3 DEF Deliver
  <2>4. ASSUME NEW c \in Nodes, NEW m \in pass[c].todo, PushHintFails(c, m)
        PROVE  \A k \in net' : Lasting(k.ver)
    <3>1. SendLate({m}) /\ \A k \in {m} : Lasting(k.ver)
      BY <1>c, <2>4 DEF PushHintFails
    <3> QED
      BY <1>2, <3>1
  <2>5. CASE UNCHANGED net
    BY <1>c, <2>5
  <2> QED
    BY <2>1, <2>2, <2>3, <2>4, <2>5
       DEF Next, WriteStep, ReadStep, ReplayStep, vars, BeginWrite, WriteAck, LocalWriteFails,
           BufferHint, BufferHintFails, FinishWrite, BeginRead, ReadReply, ReadMiss, FailRead,
           StartPass, PushHint, ClearFails, RewriteClear, RewriteKeep, RewriteFails, Crash, Restart
<1>5. \A c \in Nodes : \A m \in hints'[c] : Lasting(m.ver)
  <2>1. ASSUME NEW q \in Writes, NEW n \in Replicas, BufferHint(q, n)
        PROVE  \A c \in Nodes : \A m \in hints'[c] : Lasting(m.ver)
    <3>1. wr[q].pc # "idle" /\ MessageTo(n, VersionOf(q)).ver = VersionOf(q)
      BY <2>1 DEF BufferHint, MessageTo
    <3>2. Lasting(MessageTo(n, VersionOf(q)).ver)
      BY <1>a, <3>1, GenuineStays
    <3> QED
      BY <1>0, <1>c, <2>1, <3>2 DEF BufferHint
  <2>2. ASSUME NEW c \in Nodes, RewriteClear(c)
        PROVE  \A d \in Nodes : \A m \in hints'[d] : Lasting(m.ver)
    BY <1>0, <1>c, <2>2 DEF RewriteClear
  <2>3. ASSUME NEW c \in Nodes, NEW m \in pass[c].keep, RewriteKeep(c, m)
        PROVE  \A d \in Nodes : \A k \in hints'[d] : Lasting(k.ver)
    BY <1>0, <1>c, <2>3 DEF RewriteKeep
  <2>4. CASE UNCHANGED hints
    BY <1>c, <2>4
  <2> QED
    BY <2>1, <2>2, <2>3, <2>4
       DEF Next, WriteStep, ReadStep, ReplayStep, vars, BeginWrite, WriteAck, WriteMiss,
           LocalWriteFails, BufferHintFails, FinishWrite, BeginRead, ReadReply, ReadMiss,
           FinishRead, FailRead, Deliver, StartPass, PushHint, PushHintFails, ClearFails,
           RewriteFails, Crash, Restart
<1> QED
  BY <1>3, <1>4, <1>5

\* What the steps do to the versions that passes and reads hold.
LEMMA VersionsHeld ==
    ASSUME VInv, [Next]_vars
    PROVE  /\ \A c \in Nodes : \A m \in pass'[c].todo \cup pass'[c].keep : Lasting(m.ver)
           /\ \A r \in Reads : /\ Lasting(rd'[r].res)
                               /\ \A n \in Replicas : Lasting(rd'[r].resp[n])
<1>0. /\ store \in [Replicas -> Version] /\ pass \in [Nodes -> Pass]
      /\ rd \in [Reads -> ReadOp] /\ hints \in [Nodes -> SUBSET Message]
  BY DEF VInv, Typed, TypeOK
<1>a. Typed /\ \A m \in Message : m.ver \in Version
  BY DEF VInv, Message, Version
<1>b. /\ \A n \in Replicas : Lasting(store[n])
      /\ \A c \in Nodes : \A m \in hints[c] : Lasting(m.ver)
      /\ \A c \in Nodes : \A m \in pass[c].todo \cup pass[c].keep : Lasting(m.ver)
      /\ \A r \in Reads : Lasting(rd[r].res) /\ \A n \in Replicas : Lasting(rd[r].resp[n])
  <2>1. \A c \in Nodes : pass[c].todo \cup pass[c].keep \subseteq Message
    BY <1>0 DEF Pass
  <2>2. \A r \in Reads : rd[r].res \in Version /\ \A n \in Replicas : rd[r].resp[n] \in Version
    BY <1>0 DEF ReadOp
  <2> QED
    BY <1>0, <1>a, <2>1, <2>2, GenuineStays
       DEF VInv, GenuineStore, GenuineHints, GenuinePass, GenuineReads
<1>1. \A c \in Nodes : \A m \in pass'[c].todo \cup pass'[c].keep : Lasting(m.ver)
  <2> DEFINE Goal == \A d \in Nodes : \A k \in pass'[d].todo \cup pass'[d].keep : Lasting(k.ver)
  <2>0. IdlePass.todo = {} /\ IdlePass.keep = {}
    BY DEF IdlePass
  <2>1. ASSUME NEW c \in Nodes, StartPass(c)
        PROVE  Goal
    BY <1>0, <1>b, <2>1 DEF StartPass
  <2>2. ASSUME NEW c \in Nodes, NEW m \in pass[c].todo, PushHint(c, m)
        PROVE  Goal
    <3>1. /\ pass'[c].todo = pass[c].todo \ {m} /\ pass'[c].keep = pass[c].keep
          /\ \A d \in Nodes \ {c} : pass'[d] = pass[d]
      BY <1>0, <2>2 DEF PushHint, Pass
    <3> QED
      BY <1>b, <3>1
  <2>3. ASSUME NEW c \in Nodes, NEW m \in pass[c].todo, PushHintFails(c, m)
        PROVE  Goal
    <3>1. /\ pass'[c].todo = pass[c].todo \ {m} /\ pass'[c].keep = pass[c].keep \cup {m}
          /\ \A d \in Nodes \ {c} : pass'[d] = pass[d]
      BY <1>0, <2>3 DEF PushHintFails, Pass
    <3> QED
      BY <1>b, <3>1
  <2>4. ASSUME NEW c \in Nodes, RewriteClear(c)
        PROVE  Goal
    <3>1. /\ pass'[c] \in {IdlePass, [pass[c] EXCEPT !.pc = "rewrite"]}
          /\ \A d \in Nodes \ {c} : pass'[d] = pass[d]
      BY <1>0, <2>4 DEF RewriteClear
    <3>2. pass'[c].todo \subseteq pass[c].todo /\ pass'[c].keep \subseteq pass[c].keep
      BY <1>0, <2>0, <3>1 DEF Pass
    <3> QED
      BY <1>b, <3>1, <3>2
  <2>5. ASSUME NEW c \in Nodes, NEW m \in pass[c].keep, RewriteKeep(c, m)
        PROVE  Goal
    <3>1. /\ pass'[c] \in {IdlePass, [pass[c] EXCEPT !.keep = pass[c].keep \ {m}]}
          /\ \A d \in Nodes \ {c} : pass'[d] = pass[d]
      BY <1>0, <2>5 DEF RewriteKeep
    <3>2. pass'[c].todo \subseteq pass[c].todo /\ pass'[c].keep \subseteq pass[c].keep
      BY <1>0, <2>0, <3>1 DEF Pass
    <3> QED
      BY <1>b, <3>1, <3>2
  <2>6. ASSUME NEW c \in Nodes, Crash(c)
        PROVE  Goal
    BY <1>0, <1>b, <2>0, <2>6 DEF Crash
  <2>7. ASSUME NEW c \in Nodes, ClearFails(c)
        PROVE  Goal
    BY <1>0, <1>b, <2>0, <2>7 DEF ClearFails
  <2>8. ASSUME NEW c \in Nodes, RewriteFails(c)
        PROVE  Goal
    <3>1. /\ pass'[c].todo = pass[c].todo /\ pass'[c].keep = pass[c].keep
          /\ \A d \in Nodes \ {c} : pass'[d] = pass[d]
      BY <1>0, <2>8 DEF RewriteFails, Pass
    <3> QED
      BY <1>b, <3>1
  <2>9. CASE UNCHANGED pass
    BY <1>b, <2>9
  <2> QED
    BY <2>1, <2>2, <2>3, <2>4, <2>5, <2>6, <2>7, <2>8, <2>9
       DEF Next, WriteStep, ReadStep, ReplayStep, vars, BeginWrite, WriteAck, WriteMiss,
           LocalWriteFails, BufferHint, BufferHintFails, FinishWrite, BeginRead, ReadReply,
           ReadMiss, FinishRead, FailRead, Deliver, Restart
<1>2. \A r \in Reads : Lasting(rd'[r].res) /\ \A n \in Replicas : Lasting(rd'[r].resp[n])
  <2> DEFINE Goal == \A p \in Reads : /\ Lasting(rd'[p].res)
                                      /\ \A k \in Replicas : Lasting(rd'[p].resp[k])
  <2>0. IdleRead.res = NoVersion /\ \A n \in Replicas : IdleRead.resp[n] = NoVersion
    BY DEF IdleRead, NoAnswers
  <2>a. Lasting(NoVersion)
    BY DEF Lasting
  <2>b. ASSUME NEW op, NEW pc
        PROVE  /\ EndRead(op, pc).res = NoVersion
               /\ \A n \in Replicas : EndRead(op, pc).resp[n] = NoVersion
    BY DEF EndRead, IdleRead, NoAnswers
  <2>1. ASSUME NEW r \in Reads, NEW c \in Coordinators, NEW level \in Levels,
               BeginRead(r, c, level)
        PROVE  Goal
    <3>1. /\ rd'[r].res = IdleRead.res /\ rd'[r].resp = IdleRead.resp
          /\ \A p \in Reads \ {r} : rd'[p] = rd[p]
      BY <1>0, <2>1 DEF BeginRead, IdleRead
    <3> QED
      BY <1>b, <2>0, <2>a, <3>1
  <2>2. ASSUME NEW r \in Reads, NEW n \in Replicas, ReadReply(r, n)
        PROVE  Goal
    <3>1. /\ rd'[r].res = rd[r].res /\ rd'[r].resp = [rd[r].resp EXCEPT ![n] = store[n]]
          /\ \A p \in Reads \ {r} : rd'[p] = rd[p]
      BY <1>0, <2>2 DEF ReadReply, Answered, ReadOp
    <3>2. \A m \in Replicas : rd'[r].resp[m] \in {rd[r].resp[m], store[m]}
      BY <1>0, <3>1 DEF ReadOp
    <3> QED
      BY <1>b, <3>1, <3>2
  <2>3. ASSUME NEW r \in Reads, NEW n \in Replicas, ReadMiss(r, n)
        PROVE  Goal
    <3>1. /\ rd'[r].res = rd[r].res /\ rd'[r].resp = rd[r].resp
          /\ \A p \in Reads \ {r} : rd'[p] = rd[p]
      BY <1>0, <2>3 DEF ReadMiss, ReadOp
    <3> QED
      BY <1>b, <3>1
  <2>4. ASSUME NEW r \in Reads, NEW win \in Replicas, FinishRead(r, win)
        PROVE  Goal
    <3>1. /\ rd'[r] = [EndRead(rd[r], "done") EXCEPT !.res = rd[r].resp[win]]
          /\ \A p \in Reads \ {r} : rd'[p] = rd[p]
      BY <1>0, <2>4 DEF FinishRead
    <3>2. EndRead(rd[r], "done") \in ReadOp
      BY <1>0, EndTypes
    <3>3. rd'[r].res = rd[r].resp[win] /\ rd'[r].resp = EndRead(rd[r], "done").resp
      BY <3>1, <3>2 DEF ReadOp
    <3>4. \A n \in Replicas : rd'[r].resp[n] = NoVersion
      BY <2>b, <3>3
    <3>5. rd'[r].res = rd[r].resp[win] /\ Lasting(rd[r].resp[win])
      BY <1>b, <3>3
    <3>6. Lasting(rd'[r].res) /\ \A n \in Replicas : Lasting(rd'[r].resp[n])
      BY <2>a, <3>4, <3>5
    <3>7. \A p \in Reads \ {r} : /\ Lasting(rd'[p].res)
                                 /\ \A n \in Replicas : Lasting(rd'[p].resp[n])
      BY <1>b, <3>1
    <3> QED
      BY <3>6, <3>7
  <2>5. ASSUME NEW r \in Reads, FailRead(r)
        PROVE  Goal
    BY <1>0, <1>b, <2>a, <2>b, <2>5 DEF FailRead
  <2>6. ASSUME NEW c \in Nodes, Crash(c)
        PROVE  Goal
    <3>1. \A r \in Reads : rd'[r] = rd[r] \/ rd'[r] = EndRead(rd[r], "dead")
      BY <2>6 DEF Crash
    <3> QED
      BY <1>b, <2>a, <2>b, <3>1
  <2>7. CASE UNCHANGED rd
    BY <1>b, <2>7
  <2> QED
    BY <2>1, <2>2, <2>3, <2>4, <2>5, <2>6, <2>7
       DEF Next, WriteStep, ReadStep, ReplayStep, vars, BeginWrite, WriteAck, WriteMiss,
           LocalWriteFails, BufferHint, BufferHintFails, FinishWrite, Deliver, StartPass, PushHint,
           PushHintFails, ClearFails, RewriteClear, RewriteKeep, RewriteFails, Restart
<1> QED
  BY <1>1, <1>2

LEMMA VInvInit == Init => VInv
<1> SUFFICES ASSUME Init
             PROVE  VInv
  OBVIOUS
<1>1. /\ \A n \in Replicas : store[n] = NoVersion
      /\ \A c \in Nodes : hints[c] = {} /\ pass[c].todo = {} /\ pass[c].keep = {}
      /\ net = {}
      /\ \A r \in Reads : rd[r].res = NoVersion /\ \A n \in Replicas : rd[r].resp[n] = NoVersion
  BY DEF Init, NoAnswers, IdlePass, IdleRead
<1> QED
  BY <1>1, TypedInit
     DEF VInv, Genuine, GenuineStore, GenuineNet, GenuineHints, GenuinePass, GenuineReads

LEMMA VInvNext == VInv /\ [Next]_vars => VInv'
<1> SUFFICES ASSUME VInv, [Next]_vars
             PROVE  VInv'
  OBVIOUS
<1>1. Typed'
  BY TypedNext DEF VInv
<1>2. GenuineStore' /\ GenuineNet' /\ GenuineHints'
  BY VersionsMove DEF Lasting, Genuine, GenuineStore, GenuineNet, GenuineHints
<1>3. GenuinePass' /\ GenuineReads'
  BY VersionsHeld DEF Lasting, Genuine, GenuinePass, GenuineReads
<1> QED
  BY <1>1, <1>2, <1>3 DEF VInv

\* No path joins the stamp of one write with the value of another: a version on
\* a replica, in flight, in a hint or in the answer to a get is, at any time,
\* that of one write that began.
THEOREM VersionsStayWrites == Spec => []VersionsAreWrites
<1>1. VInv => VersionsAreWrites
  BY DEF VInv, VersionsAreWrites, Genuine, GenuineStore, GenuineNet, GenuineHints, GenuinePass,
         GenuineReads
<1> QED
  BY <1>1, VInvInit, VInvNext, PTL DEF Spec

-----------------------------------------------------------------------------
(* Hint replay.  While a pass pushes, the log still has all that it took.   *)
(* From the removal of the log on, what it took is kept by the pass, in the *)
(* new log, or done with -- until a rewrite fails, which gives up the rest. *)

\* The target of m is at its stamp or beyond.
Settled(m) == m.ver.hlc <= store[m.dst].hlc

PassHolds(c) ==
    /\ pass[c].pc \in {"idle", "failed"} => pass[c].read = {}
    /\ pass[c].pc = "push" =>
          /\ pass[c].read \subseteq hints[c]
          /\ \A m \in pass[c].read : m \in pass[c].todo \cup pass[c].keep \/ Settled(m)
    /\ pass[c].pc = "rewrite" =>
          \A m \in pass[c].read : m \in pass[c].keep \cup hints[c] \/ Settled(m)

HInv == Typed /\ \A c \in Nodes : PassHolds(c)

\* PassKeepsHints for one step and one node.
KeepsHints(c) ==
    up'[c] /\ ~RewriteFails(c) => \A m \in pass[c].read :
                                     \/ m \in Held(c)' \cup hints'[c]
                                     \/ m.ver.hlc <= store'[m.dst].hlc

\* A target that has caught up with a hint stays caught up.
LEMMA SettledStays ==
    ASSUME Typed, [Next]_vars, NEW m \in Message, Settled(m)
    PROVE  m.ver.hlc <= store'[m.dst].hlc
<1>1. m.dst \in Replicas /\ m.ver.hlc \in Nat
  BY DEF Message
<1>2. StoreAdvances /\ Typed'
  BY NextAdvances, TypedNext
<1>3. store[m.dst] \in Version /\ store'[m.dst] \in Version
  BY <1>1, <1>2 DEF Typed, TypeOK
<1>4. store[m.dst].hlc \in Nat /\ store'[m.dst].hlc \in Nat
  BY <1>3, VersionStamps
<1> QED
  BY <1>1, <1>2, <1>4 DEF StoreAdvances, Settled

LEMMA HInvInit == Init => HInv
<1> SUFFICES ASSUME Init
             PROVE  HInv
  OBVIOUS
<1>1. \A c \in Nodes : pass[c].pc = "idle" /\ pass[c].read = {}
  BY DEF Init, IdlePass
<1> QED
  BY <1>1, TypedInit DEF HInv, PassHolds

\* Each step keeps what passes hold, and drops no hint of a node that stays up.
LEMMA HInvNext ==
    HInv /\ [Next]_vars => \A c \in Nodes : PassHolds(c)' /\ KeepsHints(c)
<1> SUFFICES ASSUME HInv, [Next]_vars, NEW d \in Nodes
             PROVE  PassHolds(d)' /\ KeepsHints(d)
  OBVIOUS
<1> USE DEF Settled
<1>0. /\ pass \in [Nodes -> Pass] /\ hints \in [Nodes -> SUBSET Message] /\ Typed
  BY DEF HInv, Typed, TypeOK
<1>a. PassHolds(d)
  BY DEF HInv
<1>b. /\ pass[d].read \subseteq Message
      /\ pass[d].pc \in {"idle", "push", "rewrite", "failed"}
  BY <1>0 DEF Pass
<1>c. \A m \in pass[d].read : Settled(m) => m.ver.hlc <= store'[m.dst].hlc
  BY <1>0, <1>b, SettledStays
<1>d. IdlePass.pc = "idle" /\ IdlePass.read = {}
  BY DEF IdlePass
<1>1. CASE pass'[d] = pass[d] /\ hints[d] \subseteq hints'[d]
  BY <1>1, <1>a, <1>b, <1>c DEF PassHolds, KeepsHints, Held
<1>2. ASSUME NEW c \in Nodes, StartPass(c)
      PROVE  PassHolds(d)' /\ KeepsHints(d)
  <2>1. CASE c = d
    <3>1. pass[d].read = {}
      BY <2>1, <1>2, <1>a DEF StartPass, PassHolds
    <3>2. pass'[d] = [pc |-> "push", todo |-> hints[d], keep |-> {}, read |-> hints[d]]
      BY <2>1, <1>0, <1>2 DEF StartPass
    <3>3. pass'[d].pc = "push" /\ pass'[d].todo = hints[d] /\ pass'[d].read = hints[d]
      BY <3>2
    <3> QED
      BY <1>2, <2>1, <3>1, <3>3 DEF PassHolds, KeepsHints, StartPass
  <2>2. CASE c # d
    BY <2>2, <1>0, <1>1, <1>2 DEF StartPass
  <2> QED
    BY <2>1, <2>2
<1>3. ASSUME NEW c \in Nodes, NEW m \in pass[c].todo, PushHint(c, m)
      PROVE  PassHolds(d)' /\ KeepsHints(d)
  <2>1. CASE c = d
    <3>1. /\ pass[d].pc = "push" /\ pass'[d].pc = "push" /\ pass'[d].todo = pass[d].todo \ {m}
          /\ pass'[d].keep = pass[d].keep /\ pass'[d].read = pass[d].read
          /\ hints' = hints
      BY <2>1, <1>0, <1>3 DEF PushHint, Pass
    <3>2. m \in Message
      BY <1>0 DEF Pass
    <3>3. m.dst \in Replicas /\ m.ver \in Version
      BY <3>2 DEF Message, Version
    <3>4. m.ver.hlc <= store'[m.dst].hlc
      BY <1>0, <1>3, <3>3, ReplicaApplyAdvances DEF PushHint
    <3>5. \A k \in pass[d].read : \/ k \in pass'[d].todo \cup pass'[d].keep
                                  \/ k.ver.hlc <= store'[k.dst].hlc
      BY <1>a, <1>c, <3>1, <3>4 DEF PassHolds
    <3> QED
      BY <1>a, <3>1, <3>5 DEF PassHolds, KeepsHints, Held
  <2>2. CASE c # d
    BY <2>2, <1>0, <1>1, <1>3 DEF PushHint
  <2> QED
    BY <2>1, <2>2
<1>4. ASSUME NEW c \in Nodes, NEW m \in pass[c].todo, PushHintFails(c, m)
      PROVE  PassHolds(d)' /\ KeepsHints(d)
  <2>1. CASE c = d
    <3>1. /\ pass[d].pc = "push" /\ pass'[d].pc = "push" /\ pass'[d].todo = pass[d].todo \ {m}
          /\ pass'[d].keep = pass[d].keep \cup {m} /\ pass'[d].read = pass[d].read
          /\ hints' = hints
      BY <2>1, <1>0, <1>4 DEF PushHintFails, Pass
    <3>2. \A k \in pass[d].read : \/ k \in pass'[d].todo \cup pass'[d].keep
                                  \/ k.ver.hlc <= store'[k.dst].hlc
      BY <1>a, <1>c, <3>1 DEF PassHolds
    <3> QED
      BY <1>a, <3>1, <3>2 DEF PassHolds, KeepsHints, Held
  <2>2. CASE c # d
    BY <2>2, <1>0, <1>1, <1>4 DEF PushHintFails
  <2> QED
    BY <2>1, <2>2
<1>5. ASSUME NEW c \in Nodes, RewriteClear(c)
      PROVE  PassHolds(d)' /\ KeepsHints(d)
  <2>1. CASE c = d
    <3>1. pass[d].pc = "push" /\ pass[d].todo = {}
      BY <2>1, <1>5 DEF RewriteClear
    <3>2. \A k \in pass[d].read : k \in pass[d].keep \/ k.ver.hlc <= store'[k.dst].hlc
      BY <1>a, <1>c, <3>1 DEF PassHolds
    <3>3. CASE pass[d].keep = {}
      <4>1. pass'[d] = IdlePass
        BY <2>1, <3>3, <1>0, <1>5 DEF RewriteClear
      <4> QED
        BY <1>d, <3>2, <3>3, <4>1 DEF PassHolds, KeepsHints
    <3>4. CASE pass[d].keep # {}
      <4>1. pass'[d] = [pass[d] EXCEPT !.pc = "rewrite"]
        BY <2>1, <3>4, <1>0, <1>5 DEF RewriteClear
      <4>2. /\ pass'[d].pc = "rewrite" /\ pass'[d].keep = pass[d].keep
            /\ pass'[d].read = pass[d].read
        BY <1>0, <4>1 DEF Pass
      <4> QED
        BY <3>2, <4>2 DEF PassHolds, KeepsHints, Held
    <3> QED
      BY <3>3, <3>4
  <2>2. CASE c # d
    BY <2>2, <1>0, <1>1, <1>5 DEF RewriteClear
  <2> QED
    BY <2>1, <2>2
<1>6. ASSUME NEW c \in Nodes, NEW m \in pass[c].keep, RewriteKeep(c, m)
      PROVE  PassHolds(d)' /\ KeepsHints(d)
  <2>1. CASE c = d
    <3>1. pass[d].pc = "rewrite" /\ hints'[d] = hints[d] \cup {m}
      BY <2>1, <1>0, <1>6 DEF RewriteKeep
    <3>2. \A k \in pass[d].read : \/ k \in pass[d].keep \cup hints[d]
                                  \/ k.ver.hlc <= store'[k.dst].hlc
      BY <1>a, <1>c, <3>1 DEF PassHolds
    <3>3. CASE pass[d].keep = {m}
      <4>1. pass'[d] = IdlePass
        BY <2>1, <3>3, <1>0, <1>6 DEF RewriteKeep
      <4> QED
        BY <1>d, <3>1, <3>2, <3>3, <4>1 DEF PassHolds, KeepsHints
    <3>4. CASE pass[d].keep # {m}
      <4>1. pass'[d] = [pass[d] EXCEPT !.keep = pass[d].keep \ {m}]
        BY <2>1, <3>4, <1>0, <1>6 DEF RewriteKeep
      <4>2. /\ pass'[d].pc = "rewrite" /\ pass'[d].keep = pass[d].keep \ {m}
            /\ pass'[d].read = pass[d].read
        BY <1>0, <3>1, <4>1 DEF Pass
      <4> QED
        BY <3>1, <3>2, <4>2 DEF PassHolds, KeepsHints, Held
    <3> QED
      BY <3>3, <3>4
  <2>2. CASE c # d
    BY <2>2, <1>0, <1>1, <1>6 DEF RewriteKeep
  <2> QED
    BY <2>1, <2>2
<1>7. ASSUME NEW c \in Nodes, Crash(c)
      PROVE  PassHolds(d)' /\ KeepsHints(d)
  <2>1. CASE c = d
    <3>1. ~up'[d] /\ pass'[d] = IdlePass
      BY <2>1, <1>0, <1>7 DEF Crash, Typed, TypeOK
    <3> QED
      BY <1>d, <3>1 DEF PassHolds, KeepsHints
  <2>2. CASE c # d
    BY <2>2, <1>0, <1>1, <1>7 DEF Crash
  <2> QED
    BY <2>1, <2>2
<1>8. ASSUME NEW q \in Writes, NEW n \in Replicas, BufferHint(q, n)
      PROVE  PassHolds(d)' /\ KeepsHints(d)
  BY <1>0, <1>1, <1>8 DEF BufferHint
<1>9. CASE UNCHANGED <<pass, hints>>
  BY <1>1, <1>9
<1>10. ASSUME NEW c \in Nodes, ClearFails(c)
       PROVE  PassHolds(d)' /\ KeepsHints(d)
  <2>1. CASE c = d
    <3>1. pass[d].read \subseteq hints'[d] /\ pass'[d] = IdlePass
      BY <2>1, <1>0, <1>10, <1>a DEF ClearFails, PassHolds
    <3> QED
      BY <1>d, <3>1 DEF PassHolds, KeepsHints
  <2>2. CASE c # d
    BY <2>2, <1>0, <1>1, <1>10 DEF ClearFails
  <2> QED
    BY <2>1, <2>2
<1>11. ASSUME NEW c \in Nodes, RewriteFails(c)
       PROVE  PassHolds(d)' /\ KeepsHints(d)
  <2>1. CASE c = d
    <3>1. pass'[d] = [pass[d] EXCEPT !.pc = "failed", !.read = {}]
      BY <2>1, <1>0, <1>11 DEF RewriteFails
    <3>2. pass'[d].pc = "failed" /\ pass'[d].read = {}
      BY <1>0, <3>1 DEF Pass
    <3> QED
      BY <2>1, <1>11, <3>2 DEF PassHolds, KeepsHints
  <2>2. CASE c # d
    BY <2>2, <1>0, <1>1, <1>11 DEF RewriteFails
  <2> QED
    BY <2>1, <2>2
<1> QED
  BY <1>2, <1>3, <1>4, <1>5, <1>6, <1>7, <1>8, <1>9, <1>10, <1>11
     DEF Next, WriteStep, ReadStep, ReplayStep, vars, BeginWrite, WriteAck, WriteMiss,
         LocalWriteFails, BufferHintFails, FinishWrite, BeginRead, ReadReply, ReadMiss,
         FinishRead, FailRead, Deliver, Restart

\* For any number of passes, replicas and hints buffered meanwhile: while a node is
\* up, the one step that drops a hint its replay pass took from the log is a rewrite
\* that meets a disk error after it removed the log.
THEOREM PassNeverDropsHints == Spec => PassKeepsHints
<1>1. HInv /\ [Next]_vars => HInv'
  BY HInvNext, TypedNext DEF HInv
<1>2. HInv /\ [Next]_vars =>
        [\A c \in Nodes : up'[c] /\ ~RewriteFails(c) =>
            \A m \in pass[c].read :
                \/ m \in Held(c)' \cup hints'[c]
                \/ m.ver.hlc <= store'[m.dst].hlc]_vars
  BY HInvNext DEF KeepsHints
<1> QED
  BY <1>1, <1>2, HInvInit, PTL DEF Spec, PassKeepsHints
=============================================================================
