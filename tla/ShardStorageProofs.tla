------------------------- MODULE ShardStorageProofs -------------------------
(***************************************************************************)
(* Theorems about the durable shard, for any ids, vectors, stamps,         *)
(* snapshot threshold, log length and mode of operation.                   *)
(***************************************************************************)
EXTENDS ShardStorage, WellFoundedInduction, FiniteSetTheorems, SequenceTheorems, TLAPS

-----------------------------------------------------------------------------
(* Least members of sets of numbers, induction for such a set, and the     *)
(* existence of functions defined by recursion on an interval.             *)

\* A set of numbers has a least member.
LEMMA LeastNat ==
    ASSUME NEW T \in SUBSET Nat, T # {}
    PROVE  \E x \in T : \A y \in T : x <= y
<1>1. PICK x \in T : \A y \in T : ~(<<y, x>> \in OpToRel(<, Nat))
  BY NatLessThanWellFounded, WFMin, Zenon
<1>2. \A y \in T : y < x => <<y, x>> \in OpToRel(<, Nat)
  BY DEF OpToRel
<1>3. \A y \in T : ~(y < x)
  BY <1>1, <1>2, Zenon
<1> QED
  BY <1>3

\* Induction, for a set of numbers.
LEMMA UpToAll ==
    ASSUME NEW N \in Nat, NEW T, 0 \in T, \A i \in 1 .. N : i - 1 \in T => i \in T
    PROVE  \A i \in 0 .. N : i \in T
<1> DEFINE U == {i \in 0 .. N : i \notin T}
<1>1. SUFFICES ASSUME U # {}
               PROVE  FALSE
  OBVIOUS
<1>2. U \in SUBSET Nat
  OBVIOUS
<1>3. PICK x \in U : \A y \in U : x <= y
  BY <1>1, <1>2, LeastNat
<1>4. x \in 1 .. N /\ x - 1 \in 0 .. N /\ ~(x <= x - 1)
  OBVIOUS
<1>5. x - 1 \in T
  BY <1>3, <1>4
<1> QED
  BY <1>4, <1>5

\* g folds the functions F[1], ..., F[N] from a; there is such a function.
Folded(N, D, a, F, g) ==
    g \in [0 .. N -> D] /\ g[0] = a /\ \A i \in 1 .. N : g[i] = F[i][g[i - 1]]

LEMMA FoldExists ==
    ASSUME NEW N \in Nat, NEW D, NEW a \in D, NEW F \in [1 .. N -> [D -> D]]
    PROVE  \E g : Folded(N, D, a, F, g)
<1> DEFINE P(n) == \E g \in [0 .. n -> D] : g[0] = a /\ \A i \in 1 .. n : g[i] = F[i][g[i - 1]]
           T == {n \in 0 .. N : P(n)}
<1>1. 0 \in T
  <2>1. [i \in 0 .. 0 |-> a] \in [0 .. 0 -> D] /\ [i \in 0 .. 0 |-> a][0] = a
    OBVIOUS
  <2>2. 1 .. 0 = {}
    OBVIOUS
  <2>3. P(0)
    BY <2>1, <2>2
  <2> QED
    BY <2>3
<1>2. ASSUME NEW n \in 1 .. N, n - 1 \in T
      PROVE  n \in T
  <2>1. PICK g \in [0 .. n - 1 -> D] :
          g[0] = a /\ \A i \in 1 .. n - 1 : g[i] = F[i][g[i - 1]]
    BY <1>2
  <2> DEFINE h == [i \in 0 .. n |-> IF i = n THEN F[n][g[n - 1]] ELSE g[i]]
  <2>2. n - 1 \in 0 .. n - 1 /\ \A i \in 0 .. n : i # n => i \in 0 .. n - 1
    OBVIOUS
  <2>3. F[n][g[n - 1]] \in D
    BY <2>2
  <2>4. h \in [0 .. n -> D]
    BY <2>2, <2>3
  <2>5. h[n] = F[n][g[n - 1]] /\ \A i \in 0 .. n - 1 : h[i] = g[i]
    OBVIOUS
  <2> HIDE DEF h
  <2>6. \A i \in 1 .. n : i = n \/ (i \in 1 .. n - 1 /\ i \in 0 .. n - 1)
    OBVIOUS
  <2>7. \A i \in 1 .. n : i - 1 \in 0 .. n - 1
    OBVIOUS
  <2>8. \A i \in 1 .. n : h[i] = F[i][h[i - 1]]
    BY <2>1, <2>2, <2>5, <2>6, <2>7
  <2>9. h[0] = a
    BY <2>1, <2>5
  <2>10. P(n)
    BY <2>4, <2>8, <2>9
  <2> QED
    BY <2>10
<1> HIDE DEF T
<1>3. \A i \in 0 .. N : i \in T
  BY <1>1, <1>2, UpToAll
<1> QED
  BY <1>3 DEF T, Folded

-----------------------------------------------------------------------------
(* The inductive invariant.                                                *)

\* A call that appended its record has not stored it yet, and its stamp is newer.
CallSteady ==
    /\ pc \in {"flush", "apply"} => op \in Frame /\ op.intact /\ mem[op.id].hlc < op.hlc
    /\ pc \in {"down", "idle"} => op = NoOp

Typed == TypeOK /\ CallSteady

\* The setups in which the file keeps what was synced or read back.
Sound == setup.crashes # CrashKinds /\ setup.faults \cap {"frame", "bitrot"} = {}

\* What no crash of the setup takes away: frames, and the snapshots it may leave.
Safe == IF "kill" \in setup.crashes THEN written ELSE synced
Snaps == IF "kill" \in setup.crashes THEN {snap} ELSE {snap, snapSafe}

\* The frames before a torn last one, and the prefixes of them that a crash may leave.
Upto(n) == SubSeq(log, 1, n)
Whole == IF Len(log) > 0 /\ ~log[Len(log)].intact THEN Len(log) - 1 ELSE Len(log)
Keeps == {n \in 0 .. Whole : n >= Safe \/ n = Whole}

\* The log and its marks: only a crash tears a frame, the last one; the offset
\* of the end is right; what is not dirty is safe; no snapshot claims bytes
\* beyond a prefix that a crash may leave.
LogSteady ==
    /\ \A i \in 1 .. Len(log) : log[i].intact \/ (i = Len(log) /\ pc = "down")
    /\ pc # "down" => len = EndOffset(log)
    /\ pc = "down" \/ ~dirty => Safe = Len(log)
    /\ pc \in {"snapwrite", "snapsync"} => ~dirty
    /\ pc = "apply" /\ ~setup.batch => ~dirty
    /\ pc = "flush" => ~setup.batch
    /\ pc \in {"flush", "apply"} => log # <<>> /\ log[Len(log)] = op
    /\ \A s \in Snaps, n \in Keeps : s.off <= EndOffset(Upto(n))

\* The versions b are those of a or newer ones.
Covers(a, b) == \A k \in Keys : a[k] = b[k] \/ a[k].hlc < b[k].hlc

\* Whatever a crash leaves of the log, and whichever snapshot, replaying it gives
\* the versions served, those promised, and the record about to be stored.
AckSteady ==
    /\ pc # "down" => Covers(acked, mem)
    /\ \A s \in Snaps, n \in Keeps :
        /\ Covers(acked, Replay(s, Upto(n)))
        /\ pc # "down" => Covers(mem, Replay(s, Upto(n)))
        /\ Covers(Replay(snap, Upto(n)), Replay(s, Upto(n)))
    /\ pc \in {"flush", "apply"} =>
        \A s \in Snaps : LET v == Replay(s, log)[op.id]
                         IN  v = VersionOf(op) \/ op.hlc < v.hlc

\* When every append goes through, replaying gives exactly what is served.
LiveSteady ==
    \A s \in Snaps :
        /\ pc \in {"idle", "snapflush", "snapwrite", "snapsync"} => Replay(s, log) = mem
        /\ pc \in {"flush", "apply"} =>
              Replay(s, log) = [mem EXCEPT ![op.id] = VersionOf(op)]
        /\ pc = "down" => Replay(s, Upto(Whole)) = Replay(snap, Upto(Whole))

\* When the shard promises a map, only the frame of the call in progress is not
\* synced, and without it the log replays to what is served.
MapSteady ==
    /\ pc # "flush" => ~dirty
    /\ pc = "flush" => /\ Len(log) = synced + 1
                       /\ \A s \in Snaps : Replay(s, Upto(synced)) = mem

IInv ==
    /\ Typed
    /\ Sound => LogSteady
    /\ Lossless => AckSteady
    /\ WholeAppends /\ Sound => LiveSteady
    /\ PromisesMap => MapSteady

-----------------------------------------------------------------------------
(* The end offset of a log and what its replay gives, prefix by prefix.    *)

LEMMA PrefixFrames ==
    ASSUME NEW S, NEW s \in Seq(S), NEW n \in 0 .. Len(s)
    PROVE  /\ SubSeq(s, 1, n) \in Seq(S) /\ Len(SubSeq(s, 1, n)) = n
           /\ \A i \in 1 .. n : SubSeq(s, 1, n)[i] = s[i]
<1>1. /\ 1 \in Int /\ n \in Int /\ Len(s) \in Nat
      /\ \A i \in 1 .. n : s[i] \in S
  BY LenProperties, ElementOfSeq
<1>2. /\ SubSeq(s, 1, n) \in Seq(S)
      /\ Len(SubSeq(s, 1, n)) = IF 1 <= n THEN n - 1 + 1 ELSE 0
      /\ \A i \in 1 .. n - 1 + 1 : SubSeq(s, 1, n)[i] = s[1 + i - 1]
  BY <1>1, SubSeqProperties
<1> QED
  BY <1>1, <1>2

\* Two logs that agree up to n have the same prefix.
LEMMA SamePrefix ==
    ASSUME NEW S, NEW s \in Seq(S), NEW t \in Seq(S), NEW n \in 0 .. Len(s), n <= Len(t),
           \A i \in 1 .. n : s[i] = t[i]
    PROVE  SubSeq(s, 1, n) = SubSeq(t, 1, n)
<1>1. n \in 0 .. Len(t)
  BY LenProperties
<1> DEFINE p == SubSeq(s, 1, n)
           q == SubSeq(t, 1, n)
<1>2. p \in Seq(S) /\ Len(p) = n /\ \A i \in 1 .. n : p[i] = s[i]
  BY PrefixFrames
<1>3. q \in Seq(S) /\ Len(q) = n /\ \A i \in 1 .. n : q[i] = t[i]
  BY <1>1, PrefixFrames
<1> HIDE DEF p, q
<1>4. p = q
  BY <1>2, <1>3, SeqEqual
<1> QED
  BY <1>4 DEF p, q

\* A prefix that is the whole log, and a prefix of a prefix.
LEMMA WholePrefix ==
    ASSUME NEW S, NEW s \in Seq(S)
    PROVE  SubSeq(s, 1, Len(s)) = s
<1> DEFINE p == SubSeq(s, 1, Len(s))
<1>0. Len(s) \in 0 .. Len(s)
  BY LenProperties
<1>1. p \in Seq(S) /\ Len(p) = Len(s) /\ \A i \in 1 .. Len(s) : p[i] = s[i]
  BY <1>0, PrefixFrames
<1> HIDE DEF p
<1>2. p = s
  BY <1>1, SeqEqual
<1> QED
  BY <1>2 DEF p

LEMMA PrefixOfPrefix ==
    ASSUME NEW S, NEW s \in Seq(S), NEW n \in 0 .. Len(s), NEW m \in 0 .. n
    PROVE  SubSeq(SubSeq(s, 1, n), 1, m) = SubSeq(s, 1, m)
<1> DEFINE p == SubSeq(s, 1, n)
<1>1. p \in Seq(S) /\ Len(p) = n /\ \A i \in 1 .. n : p[i] = s[i]
  BY PrefixFrames
<1> HIDE DEF p
<1>2. m \in 0 .. Len(p) /\ m <= Len(s) /\ \A i \in 1 .. m : p[i] = s[i]
  BY <1>1, LenProperties
<1>3. SubSeq(p, 1, m) = SubSeq(s, 1, m)
  BY <1>1, <1>2, SamePrefix
<1> QED
  BY <1>3 DEF p

LEMMA FramedLenType ==
    ASSUME NEW f
    PROVE  FramedLen(f) \in Nat /\ FramedLen(f) >= 1
  BY DEF FramedLen

\* e gives the end offsets of the prefixes of s.
Ends(s, e) ==
    /\ e \in [0 .. Len(s) -> Nat] /\ e[0] = 0
    /\ \A i \in 1 .. Len(s) : e[i] = e[i - 1] + FramedLen(s[i])

LEMMA EndsExist ==
    ASSUME NEW s \in Seq(Frame)
    PROVE  \E e : /\ Ends(s, e)
                  /\ e = [i \in 0 .. Len(s) |-> IF i = 0 THEN 0 ELSE e[i - 1] + FramedLen(s[i])]
<1>0. Len(s) \in Nat /\ 0 \in Nat
  BY LenProperties
<1> DEFINE F == [i \in 1 .. Len(s) |-> [x \in Nat |-> x + FramedLen(s[i])]]
<1>1. F \in [1 .. Len(s) -> [Nat -> Nat]]
  BY FramedLenType
<1>2. \A i \in 1 .. Len(s) : \A x \in Nat : F[i][x] = x + FramedLen(s[i])
  OBVIOUS
<1> HIDE DEF F
<1>3. PICK e \in [0 .. Len(s) -> Nat] :
        e[0] = 0 /\ \A i \in 1 .. Len(s) : e[i] = F[i][e[i - 1]]
  <2> DEFINE D == Nat
             a == 0
             N == Len(s)
  <2>1. N \in Nat /\ a \in D /\ F \in [1 .. N -> [D -> D]]
    BY <1>0, <1>1
  <2> HIDE DEF D, a, N
  <2>2. \E e : Folded(N, D, a, F, e)
    BY <2>1, FoldExists
  <2> QED
    BY <2>2 DEF Folded, D, a, N
<1>4. \A i \in 1 .. Len(s) : i - 1 \in 0 .. Len(s)
  BY <1>0
<1>5. \A i \in 1 .. Len(s) : e[i] = e[i - 1] + FramedLen(s[i])
  BY <1>2, <1>3, <1>4
<1>6. Ends(s, e)
  BY <1>3, <1>5 DEF Ends
<1>7. \A i \in 0 .. Len(s) : i = 0 \/ i \in 1 .. Len(s)
  BY <1>0
<1>8. e = [i \in 0 .. Len(s) |-> IF i = 0 THEN 0 ELSE e[i - 1] + FramedLen(s[i])]
  BY <1>3, <1>5, <1>7
<1> QED
  BY <1>6, <1>8

LEMMA EndOffsetEnds ==
    ASSUME NEW s \in Seq(Frame)
    PROVE  \E e : Ends(s, e) /\ EndOffset(s) = e[Len(s)]
<1>0. Len(s) \in Nat
  BY LenProperties
<1> DEFINE end[i \in 0 .. Len(s)] == IF i = 0 THEN 0 ELSE end[i - 1] + FramedLen(s[i])
<1>1. \E e : e = [i \in 0 .. Len(s) |-> IF i = 0 THEN 0 ELSE e[i - 1] + FramedLen(s[i])]
  BY EndsExist
<1>2. end = [i \in 0 .. Len(s) |-> IF i = 0 THEN 0 ELSE end[i - 1] + FramedLen(s[i])]
  BY <1>1
<1>3. EndOffset(s) = end[Len(s)]
  BY DEF EndOffset
<1> HIDE DEF end
<1>4. PICK e : Ends(s, e)
  BY EndsExist
<1> DEFINE T == {i \in 0 .. Len(s) : end[i] = e[i]}
<1>5. 0 \in T
  BY <1>0, <1>2, <1>4 DEF Ends
<1>6. ASSUME NEW i \in 1 .. Len(s), i - 1 \in T
      PROVE  i \in T
  <2>1. end[i - 1] = e[i - 1] /\ i \in 0 .. Len(s) /\ i # 0
    BY <1>6
  <2>2. end[i] = end[i - 1] + FramedLen(s[i])
    BY <1>2, <2>1
  <2>3. e[i] = e[i - 1] + FramedLen(s[i])
    BY <1>4 DEF Ends
  <2> QED
    BY <2>1, <2>2, <2>3
<1> HIDE DEF T
<1>7. \A i \in 0 .. Len(s) : i \in T
  BY <1>0, <1>5, <1>6, UpToAll
<1>8. end[Len(s)] = e[Len(s)]
  BY <1>0, <1>7 DEF T
<1> QED
  BY <1>3, <1>4, <1>8

\* The end offsets of a log are those of any log that begins with it.
LEMMA EndsAgree ==
    ASSUME NEW s \in Seq(Frame), NEW t \in Seq(Frame), NEW e, NEW d, Ends(s, e), Ends(t, d),
           Len(t) <= Len(s), \A i \in 1 .. Len(t) : t[i] = s[i]
    PROVE  \A i \in 0 .. Len(t) : d[i] = e[i]
<1>0. Len(t) \in Nat /\ Len(s) \in Nat
  BY LenProperties
<1> DEFINE T == {i \in 0 .. Len(t) : d[i] = e[i]}
<1>1. 0 \in T
  BY <1>0 DEF Ends
<1>2. ASSUME NEW i \in 1 .. Len(t), i - 1 \in T
      PROVE  i \in T
  <2>1. i \in 1 .. Len(s) /\ i \in 0 .. Len(t) /\ d[i - 1] = e[i - 1]
    BY <1>0, <1>2
  <2> QED
    BY <2>1 DEF Ends
<1> HIDE DEF T
<1>3. \A i \in 0 .. Len(t) : i \in T
  BY <1>0, <1>1, <1>2, UpToAll
<1> QED
  BY <1>3 DEF T

LEMMA EndOffsetOfPrefix ==
    ASSUME NEW s \in Seq(Frame), NEW e, Ends(s, e), NEW n \in 0 .. Len(s)
    PROVE  EndOffset(SubSeq(s, 1, n)) = e[n]
<1> DEFINE t == SubSeq(s, 1, n)
<1>1. t \in Seq(Frame) /\ Len(t) = n /\ \A i \in 1 .. n : t[i] = s[i]
  BY PrefixFrames
<1> HIDE DEF t
<1>2. PICK d : Ends(t, d) /\ EndOffset(t) = d[Len(t)]
  BY <1>1, EndOffsetEnds
<1>3. n <= Len(s) /\ n \in 0 .. Len(t)
  BY <1>1, LenProperties
<1>4. d[n] = e[n]
  BY <1>1, <1>2, <1>3, EndsAgree
<1> QED
  BY <1>1, <1>2, <1>4 DEF t

\* The end offsets of the prefixes of a log, one frame after the other.
LEMMA EndOffsetStep ==
    ASSUME NEW s \in Seq(Frame)
    PROVE  /\ EndOffset(SubSeq(s, 1, 0)) = 0
           /\ \A n \in 0 .. Len(s) : EndOffset(SubSeq(s, 1, n)) \in Nat
           /\ \A n \in 1 .. Len(s) :
                EndOffset(SubSeq(s, 1, n)) = EndOffset(SubSeq(s, 1, n - 1)) + FramedLen(s[n])
<1>0. Len(s) \in Nat
  BY LenProperties
<1>1. PICK e : Ends(s, e)
  BY EndsExist
<1>2. \A n \in 0 .. Len(s) : EndOffset(SubSeq(s, 1, n)) = e[n]
  BY <1>1, EndOffsetOfPrefix
<1>3. 0 \in 0 .. Len(s) /\ \A n \in 1 .. Len(s) : n \in 0 .. Len(s) /\ n - 1 \in 0 .. Len(s)
  BY <1>0
<1> QED
  BY <1>1, <1>2, <1>3 DEF Ends

\* A longer prefix ends further on.
LEMMA EndOffsetGrows ==
    ASSUME NEW s \in Seq(Frame), NEW n \in 0 .. Len(s), NEW m \in 0 .. n
    PROVE  /\ EndOffset(SubSeq(s, 1, m)) <= EndOffset(SubSeq(s, 1, n))
           /\ m < n => EndOffset(SubSeq(s, 1, m)) < EndOffset(SubSeq(s, 1, n))
<1> DEFINE e(i) == EndOffset(SubSeq(s, 1, i))
<1>0. Len(s) \in Nat
  BY LenProperties
<1>1. /\ \A i \in 0 .. Len(s) : e(i) \in Nat
      /\ \A i \in 1 .. Len(s) : e(i) = e(i - 1) + FramedLen(s[i])
  BY EndOffsetStep
<1> HIDE DEF e
<1> DEFINE T == {i \in 0 .. Len(s) : i <= m \/ e(m) < e(i)}
<1>2. 0 \in T
  BY <1>0
<1>3. ASSUME NEW i \in 1 .. Len(s), i - 1 \in T
      PROVE  i \in T
  <2>1. i \in 0 .. Len(s) /\ i - 1 \in 0 .. Len(s) /\ m \in 0 .. Len(s)
    BY <1>0
  <2>2. e(i) \in Nat /\ e(i - 1) \in Nat /\ e(m) \in Nat /\ e(i - 1) < e(i)
    BY <1>1, <2>1, FramedLenType
  <2>3. CASE i <= m
    BY <2>1, <2>3
  <2>4. CASE ~(i <= m) /\ i - 1 <= m
    <3>1. i - 1 = m
      BY <2>1, <2>4
    <3> QED
      BY <2>1, <2>2, <3>1
  <2>5. CASE ~(i - 1 <= m)
    <3>1. e(m) < e(i - 1)
      BY <1>3, <2>5
    <3> QED
      BY <2>1, <2>2, <3>1
  <2> QED
    BY <2>3, <2>4, <2>5
<1> HIDE DEF T
<1>4. \A i \in 0 .. Len(s) : i \in T
  BY <1>0, <1>2, <1>3, UpToAll
<1>5. n \in 0 .. Len(s) /\ m \in 0 .. Len(s) /\ (n <= m => n = m)
  BY <1>0
<1>6. n <= m \/ e(m) < e(n)
  BY <1>4, <1>5 DEF T
<1>7. e(m) \in Nat /\ e(n) \in Nat
  BY <1>1, <1>5
<1>8. e(m) <= e(n) /\ (m < n => e(m) < e(n))
  BY <1>5, <1>6, <1>7
<1> QED
  BY <1>8 DEF e

-----------------------------------------------------------------------------
LEMMA ApplyTyped ==
    ASSUME NEW m \in [Keys -> Version], NEW f \in Frame
    PROVE  ApplyRecord(m, f) \in [Keys -> Version] /\ VersionOf(f) \in Version
<1>1. VersionOf(f) \in Version
  BY DEF VersionOf, Version, Frame
<1>2. f.id \in Keys
  BY DEF Frame
<1> QED
  BY <1>1, <1>2 DEF ApplyRecord

\* r gives what a snapshot and the prefixes of s replay to.
Replays(sn, s, r) ==
    /\ r \in [0 .. Len(s) -> [Keys -> Version]] /\ r[0] = sn.mem
    /\ \A i \in 1 .. Len(s) :
        r[i] = IF EndOffset(SubSeq(s, 1, i)) > sn.off THEN ApplyRecord(r[i - 1], s[i])
               ELSE r[i - 1]

LEMMA ReplaysExist ==
    ASSUME NEW sn \in Snapshots, NEW s \in Seq(Frame)
    PROVE  \E r : Replays(sn, s, r)
<1>0. Len(s) \in Nat /\ \A i \in 1 .. Len(s) : s[i] \in Frame
  BY LenProperties, ElementOfSeq
<1> DEFINE D == [Keys -> Version]
           a == sn.mem
           N == Len(s)
           F == [i \in 1 .. N |-> [m \in D |->
                   IF EndOffset(SubSeq(s, 1, i)) > sn.off THEN ApplyRecord(m, s[i]) ELSE m]]
<1>1. N \in Nat /\ a \in D
  BY <1>0 DEF Snapshots
<1>2. F \in [1 .. N -> [D -> D]]
  BY <1>0, ApplyTyped
<1>3. \A i \in 1 .. N : \A m \in D :
        F[i][m] = IF EndOffset(SubSeq(s, 1, i)) > sn.off THEN ApplyRecord(m, s[i]) ELSE m
  OBVIOUS
<1> HIDE DEF D, a, N, F
<1>4. PICK r \in [0 .. N -> D] : r[0] = a /\ \A i \in 1 .. N : r[i] = F[i][r[i - 1]]
  <2>1. \E r : Folded(N, D, a, F, r)
    BY <1>1, <1>2, FoldExists
  <2> QED
    BY <2>1 DEF Folded
<1>5. \A i \in 1 .. N : i - 1 \in 0 .. N
  BY <1>1
<1>6. \A i \in 1 .. N : r[i - 1] \in D
  BY <1>4, <1>5
<1>7. \A i \in 1 .. N :
        r[i] = IF EndOffset(SubSeq(s, 1, i)) > sn.off THEN ApplyRecord(r[i - 1], s[i])
               ELSE r[i - 1]
  BY <1>3, <1>4, <1>6
<1> QED
  BY <1>4, <1>7 DEF Replays, D, a, N

LEMMA ReplayReplays ==
    ASSUME NEW sn \in Snapshots, NEW s \in Seq(Frame), NEW r, Replays(sn, s, r)
    PROVE  Replay(sn, s) = r[Len(s)]
<1>0. Len(s) \in Nat
  BY LenProperties
<1> DEFINE end[i \in 0 .. Len(s)] == IF i = 0 THEN 0 ELSE end[i - 1] + FramedLen(s[i])
           state[i \in 0 .. Len(s)] ==
             IF i = 0 THEN sn.mem
             ELSE IF end[i] > sn.off THEN ApplyRecord(state[i - 1], s[i])
             ELSE state[i - 1]
<1>1. Replay(sn, s) = state[Len(s)]
  BY DEF Replay
<1>2. PICK e : /\ Ends(s, e)
               /\ e = [i \in 0 .. Len(s) |-> IF i = 0 THEN 0 ELSE e[i - 1] + FramedLen(s[i])]
  BY EndsExist
<1>3. end = [i \in 0 .. Len(s) |-> IF i = 0 THEN 0 ELSE end[i - 1] + FramedLen(s[i])]
  BY <1>2
<1>4. \A i \in 0 .. Len(s) : end[i] = EndOffset(SubSeq(s, 1, i))
  <2> HIDE DEF end
  <2> DEFINE T == {i \in 0 .. Len(s) : end[i] = e[i]}
  <2>1. 0 \in T
    BY <1>0, <1>2, <1>3 DEF Ends
  <2>2. ASSUME NEW i \in 1 .. Len(s), i - 1 \in T
        PROVE  i \in T
    <3>1. end[i - 1] = e[i - 1] /\ i \in 0 .. Len(s) /\ i # 0
      BY <2>2
    <3>2. end[i] = end[i - 1] + FramedLen(s[i])
      BY <1>3, <3>1
    <3>3. e[i] = e[i - 1] + FramedLen(s[i])
      BY <1>2 DEF Ends
    <3> QED
      BY <3>1, <3>2, <3>3
  <2> HIDE DEF T
  <2>3. \A i \in 0 .. Len(s) : i \in T
    BY <1>0, <2>1, <2>2, UpToAll
  <2>4. \A i \in 0 .. Len(s) : end[i] = e[i]
    BY <2>3 DEF T
  <2> QED
    BY <1>2, <2>4, EndOffsetOfPrefix
<1> HIDE DEF end
<1>5. \A i \in 0 .. Len(s) : i = 0 \/ (i \in 1 .. Len(s) /\ i # 0)
  BY <1>0
<1>6. r = [i \in 0 .. Len(s) |-> IF i = 0 THEN sn.mem
                                ELSE IF end[i] > sn.off THEN ApplyRecord(r[i - 1], s[i])
                                ELSE r[i - 1]]
  <2>1. \A i \in 0 .. Len(s) :
          r[i] = IF i = 0 THEN sn.mem
                 ELSE IF end[i] > sn.off THEN ApplyRecord(r[i - 1], s[i])
                 ELSE r[i - 1]
    BY <1>4, <1>5 DEF Replays
  <2>2. r \in [0 .. Len(s) -> [Keys -> Version]]
    BY DEF Replays
  <2> QED
    BY <2>1, <2>2
<1>7. state = [i \in 0 .. Len(s) |-> IF i = 0 THEN sn.mem
                                ELSE IF end[i] > sn.off THEN ApplyRecord(state[i - 1], s[i])
                                ELSE state[i - 1]]
  BY <1>6
<1> HIDE DEF state
<1> DEFINE T == {i \in 0 .. Len(s) : state[i] = r[i]}
<1>8. 0 \in T
  BY <1>0, <1>7 DEF Replays
<1>9. ASSUME NEW i \in 1 .. Len(s), i - 1 \in T
      PROVE  i \in T
  <2>1. state[i - 1] = r[i - 1] /\ i \in 0 .. Len(s) /\ i # 0
    BY <1>9
  <2>2. state[i] = IF end[i] > sn.off THEN ApplyRecord(state[i - 1], s[i]) ELSE state[i - 1]
    BY <1>7, <2>1
  <2>3. r[i] = IF end[i] > sn.off THEN ApplyRecord(r[i - 1], s[i]) ELSE r[i - 1]
    BY <1>4, <2>1 DEF Replays
  <2> QED
    BY <2>1, <2>2, <2>3
<1> HIDE DEF T
<1>10. \A i \in 0 .. Len(s) : i \in T
  BY <1>0, <1>8, <1>9, UpToAll
<1>11. state[Len(s)] = r[Len(s)]
  BY <1>0, <1>10 DEF T
<1> QED
  BY <1>1, <1>11

LEMMA ReplayOfPrefix ==
    ASSUME NEW sn \in Snapshots, NEW s \in Seq(Frame), NEW r, Replays(sn, s, r),
           NEW n \in 0 .. Len(s)
    PROVE  Replay(sn, SubSeq(s, 1, n)) = r[n]
<1> DEFINE t == SubSeq(s, 1, n)
           q == [i \in 0 .. n |-> r[i]]
<1>0. Len(s) \in Nat
  BY LenProperties
<1>1. t \in Seq(Frame) /\ Len(t) = n /\ \A i \in 1 .. n : t[i] = s[i]
  BY PrefixFrames
<1>2. \A i \in 1 .. n : SubSeq(t, 1, i) = SubSeq(s, 1, i)
  <2>1. \A i \in 1 .. n : i \in 0 .. n
    OBVIOUS
  <2> QED
    BY <2>1, PrefixOfPrefix
<1> HIDE DEF t
<1>3. \A i \in 0 .. n : i \in 0 .. Len(s) /\ q[i] = r[i]
  BY <1>0
<1>4. \A i \in 1 .. n : i \in 0 .. n /\ i - 1 \in 0 .. n /\ i \in 1 .. Len(s)
  BY <1>0
<1>5. q \in [0 .. Len(t) -> [Keys -> Version]]
  BY <1>1, <1>3 DEF Replays
<1>6. q[0] = sn.mem
  BY <1>3 DEF Replays
<1> HIDE DEF q
<1>7. \A i \in 1 .. Len(t) :
        q[i] = IF EndOffset(SubSeq(t, 1, i)) > sn.off THEN ApplyRecord(q[i - 1], t[i])
               ELSE q[i - 1]
  BY <1>1, <1>2, <1>3, <1>4 DEF Replays
<1>8. Replays(sn, t, q)
  BY <1>5, <1>6, <1>7 DEF Replays
<1>9. Replay(sn, t) = q[Len(t)]
  BY <1>1, <1>8, ReplayReplays
<1>10. q[Len(t)] = r[n]
  BY <1>1, <1>3
<1> QED
  BY <1>9, <1>10 DEF t

\* What a snapshot and the prefixes of a log replay to, one frame after the other.
LEMMA ReplayStep ==
    ASSUME NEW sn \in Snapshots, NEW s \in Seq(Frame)
    PROVE  /\ Replay(sn, SubSeq(s, 1, 0)) = sn.mem
           /\ \A n \in 0 .. Len(s) : Replay(sn, SubSeq(s, 1, n)) \in [Keys -> Version]
           /\ \A n \in 1 .. Len(s) :
                Replay(sn, SubSeq(s, 1, n)) =
                  IF EndOffset(SubSeq(s, 1, n)) > sn.off
                    THEN ApplyRecord(Replay(sn, SubSeq(s, 1, n - 1)), s[n])
                    ELSE Replay(sn, SubSeq(s, 1, n - 1))
<1>0. Len(s) \in Nat
  BY LenProperties
<1>1. PICK r : Replays(sn, s, r)
  BY ReplaysExist
<1>2. \A n \in 0 .. Len(s) : Replay(sn, SubSeq(s, 1, n)) = r[n]
  BY <1>1, ReplayOfPrefix
<1>3. 0 \in 0 .. Len(s) /\ \A n \in 1 .. Len(s) : n \in 0 .. Len(s) /\ n - 1 \in 0 .. Len(s)
  BY <1>0
<1> QED
  BY <1>1, <1>2, <1>3 DEF Replays

LEMMA ReplayTyped ==
    ASSUME NEW sn \in Snapshots, NEW s \in Seq(Frame)
    PROVE  Replay(sn, s) \in [Keys -> Version] /\ EndOffset(s) \in Nat
<1>1. Len(s) \in 0 .. Len(s) /\ SubSeq(s, 1, Len(s)) = s
  BY LenProperties, WholePrefix
<1> QED
  BY <1>1, ReplayStep, EndOffsetStep

\* A snapshot that covers the whole log is what it replays to.
LEMMA ReplayCovered ==
    ASSUME NEW sn \in Snapshots, NEW s \in Seq(Frame), EndOffset(s) <= sn.off
    PROVE  Replay(sn, s) = sn.mem
<1>0. /\ Len(s) \in Nat /\ sn.off \in Nat /\ SubSeq(s, 1, Len(s)) = s
      /\ Len(s) \in 0 .. Len(s)
  BY LenProperties, WholePrefix DEF Snapshots
<1> DEFINE T == {i \in 0 .. Len(s) : Replay(sn, SubSeq(s, 1, i)) = sn.mem}
<1>1. 0 \in T
  BY <1>0, ReplayStep
<1>2. ASSUME NEW i \in 1 .. Len(s), i - 1 \in T
      PROVE  i \in T
  <2>1. i \in 0 .. Len(s) /\ Replay(sn, SubSeq(s, 1, i - 1)) = sn.mem
    BY <1>2
  <2>2. EndOffset(SubSeq(s, 1, i)) <= EndOffset(s) /\ EndOffset(SubSeq(s, 1, i)) \in Nat
    BY <1>0, <2>1, EndOffsetGrows, EndOffsetStep
  <2>3. EndOffset(s) \in Nat
    BY ReplayTyped
  <2>4. ~(EndOffset(SubSeq(s, 1, i)) > sn.off)
    BY <1>0, <2>2, <2>3
  <2> QED
    BY <2>1, <2>4, ReplayStep
<1> HIDE DEF T
<1>3. \A i \in 0 .. Len(s) : i \in T
  BY <1>0, <1>1, <1>2, UpToAll
<1> QED
  BY <1>0, <1>3 DEF T

\* A frame appended beyond the snapshot's offset is replayed.
LEMMA ReplayAppend ==
    ASSUME NEW sn \in Snapshots, NEW s \in Seq(Frame), NEW f \in Frame
    PROVE  /\ Append(s, f) \in Seq(Frame)
           /\ EndOffset(Append(s, f)) = EndOffset(s) + FramedLen(f)
           /\ sn.off <= EndOffset(s) =>
                Replay(sn, Append(s, f)) = ApplyRecord(Replay(sn, s), f)
           /\ \A n \in 0 .. Len(s) : SubSeq(Append(s, f), 1, n) = SubSeq(s, 1, n)
<1> DEFINE t == Append(s, f)
           n == Len(s)
<1>1. /\ t \in Seq(Frame) /\ Len(t) = n + 1 /\ n \in Nat
      /\ \A i \in 1 .. n : t[i] = s[i] /\ t[n + 1] = f
  BY AppendProperties, LenProperties
<1>2. t[n + 1] = f
  BY AppendProperties, LenProperties
<1> HIDE DEF t
<1>3. \A m \in 0 .. n : SubSeq(t, 1, m) = SubSeq(s, 1, m)
  <2>1. \A m \in 0 .. n : m <= Len(s) /\ m \in 0 .. Len(t) /\ \A i \in 1 .. m : t[i] = s[i]
    BY <1>1
  <2> QED
    BY <1>1, <2>1, SamePrefix
<1> DEFINE m == n + 1
<1>4. SubSeq(t, 1, m - 1) = s /\ SubSeq(t, 1, m) = t /\ m \in 1 .. Len(t) /\ t[m] = f
  <2>1. n \in 0 .. n /\ n + 1 - 1 = n
    BY <1>1
  <2>2. SubSeq(t, 1, n) = s
    BY <1>3, <2>1, WholePrefix
  <2>3. SubSeq(t, 1, Len(t)) = t
    BY <1>1, WholePrefix
  <2> QED
    BY <1>1, <1>2, <2>1, <2>2, <2>3
<1> HIDE DEF m
<1>5. EndOffset(t) = EndOffset(s) + FramedLen(f)
  <2>1. EndOffset(SubSeq(t, 1, m)) = EndOffset(SubSeq(t, 1, m - 1)) + FramedLen(t[m])
    BY <1>1, <1>4, EndOffsetStep
  <2> QED
    BY <1>4, <2>1
<1>6. ASSUME sn.off <= EndOffset(s)
      PROVE  Replay(sn, t) = ApplyRecord(Replay(sn, s), f)
  <2>1. sn.off \in Nat /\ EndOffset(s) \in Nat /\ FramedLen(f) \in Nat /\ FramedLen(f) >= 1
    BY ReplayTyped, FramedLenType DEF Snapshots
  <2>2. EndOffset(t) > sn.off
    BY <1>5, <1>6, <2>1
  <2>3. Replay(sn, SubSeq(t, 1, m)) =
          IF EndOffset(SubSeq(t, 1, m)) > sn.off
            THEN ApplyRecord(Replay(sn, SubSeq(t, 1, m - 1)), t[m])
            ELSE Replay(sn, SubSeq(t, 1, m - 1))
    BY <1>1, <1>4, ReplayStep
  <2> QED
    BY <1>4, <2>2, <2>3
<1> QED
  BY <1>1, <1>3, <1>5, <1>6 DEF t, n

-----------------------------------------------------------------------------
(* The frames that recovery keeps.                                         *)

\* The first n frames are intact, and no more.
IntactUpTo(s, n) ==
    (\A i \in 1 .. n : s[i].intact) /\ (n = Len(s) \/ ~s[n + 1].intact)

LEMMA IntactPrefixIs ==
    ASSUME NEW s \in Seq(Frame), NEW n \in 0 .. Len(s), IntactUpTo(s, n)
    PROVE  IntactPrefix(s) = SubSeq(s, 1, n)
<1> DEFINE good == {i \in DOMAIN s : \A j \in 1 .. i : s[j].intact}
<1>0. /\ Len(s) \in Nat /\ DOMAIN s = 1 .. Len(s) /\ n \in Nat /\ n <= Len(s)
  BY LenProperties
<1>a. ASSUME NEW i \in 1 .. Len(s), n = Len(s) \/ n + 1 \notin 1 .. i
      PROVE  i \in 1 .. n
  <2>1. n \in Nat /\ Len(s) \in Nat
    BY <1>0
  <2>2. i \in Nat /\ 1 <= i /\ i <= Len(s)
    BY <2>1
  <2>3. CASE n = Len(s)
    BY <2>3
  <2>4. CASE n + 1 \notin 1 .. i
    <3>1. ~(n + 1 <= i)
      BY <2>1, <2>2, <2>4
    <3> QED
      BY <2>1, <2>2, <3>1
  <2> QED
    BY <1>a, <2>3, <2>4
<1>1. ASSUME NEW i \in good
      PROVE  i \in 1 .. n
  <2>1. i \in 1 .. Len(s) /\ \A j \in 1 .. i : s[j].intact
    BY <1>0
  <2> HIDE DEF good
  <2>2. n = Len(s) \/ n + 1 \notin 1 .. i
    <3>1. n = Len(s) \/ ~s[n + 1].intact
      BY DEF IntactUpTo
    <3> QED
      BY <2>1, <3>1, Zenon
  <2>3. i \in 1 .. Len(s)
    BY <2>1
  <2> QED
    BY <1>a, <2>2, <2>3, Zenon
<1>2. ASSUME NEW i \in 1 .. n
      PROVE  i \in good
  <2>1. i \in DOMAIN s /\ \A j \in 1 .. i : j \in 1 .. n
    BY <1>0
  <2>2. \A j \in 1 .. n : s[j].intact
    BY DEF IntactUpTo
  <2> QED
    BY <2>1, <2>2
<1>3. good = 1 .. n
  BY <1>1, <1>2
<1>4. Cardinality(1 .. n) = n
  <2>1. n \in Int /\ 1 \in Int
    BY <1>0
  <2>2. Cardinality(1 .. n) = IF 1 > n THEN 0 ELSE n - 1 + 1
    BY <2>1, FS_Interval
  <2> QED
    BY <1>0, <2>2
<1> QED
  BY <1>3, <1>4 DEF IntactPrefix

LEMMA IntactPrefixTyped ==
    ASSUME NEW s \in Seq(Frame)
    PROVE  \E n \in 0 .. Len(s) :
             /\ IntactPrefix(s) = SubSeq(s, 1, n) /\ IntactPrefix(s) \in Seq(Frame)
             /\ Len(IntactPrefix(s)) = n /\ IntactUpTo(s, n)
<1>0. Len(s) \in Nat
  BY LenProperties
<1>1. \E n \in 0 .. Len(s) : IntactUpTo(s, n)
  <2> DEFINE bad == {i \in 1 .. Len(s) : ~s[i].intact}
  <2>1. CASE bad = {}
    <3>1. \A i \in 1 .. Len(s) : s[i].intact
      BY <2>1
    <3>2. Len(s) \in 0 .. Len(s)
      BY <1>0
    <3> QED
      BY <3>1, <3>2 DEF IntactUpTo
  <2>2. CASE bad # {}
    <3>1. bad \in SUBSET Nat
      BY <1>0
    <3>2. PICK x \in bad : \A y \in bad : x <= y
      BY <2>2, <3>1, LeastNat
    <3>3. x - 1 \in 0 .. Len(s) /\ (x - 1) + 1 = x /\ ~s[x].intact
      BY <1>0
    <3>4. \A i \in 1 .. x - 1 : i \in 1 .. Len(s) /\ ~(x <= i)
      BY <1>0
    <3>5. \A i \in 1 .. x - 1 : s[i].intact
      BY <3>2, <3>4
    <3> QED
      BY <3>3, <3>5 DEF IntactUpTo
  <2> QED
    BY <2>1, <2>2
<1>2. PICK n \in 0 .. Len(s) : IntactUpTo(s, n)
  BY <1>1
<1>3. IntactPrefix(s) = SubSeq(s, 1, n)
  BY <1>2, IntactPrefixIs
<1> QED
  BY <1>2, <1>3, PrefixFrames

-----------------------------------------------------------------------------
(* Versions that cover others.                                             *)

LEMMA HlcType == \A v \in Version : v.hlc \in Nat
  BY BoundsAssumption DEF Version, NoVersion

LEMMA CoversReflexive == \A a : Covers(a, a)
  BY DEF Covers

LEMMA CoversTransitive ==
    ASSUME NEW a \in [Keys -> Version], NEW b \in [Keys -> Version], NEW c \in [Keys -> Version],
           Covers(a, b), Covers(b, c)
    PROVE  Covers(a, c)
<1>1. \A k \in Keys : a[k].hlc \in Nat /\ b[k].hlc \in Nat /\ c[k].hlc \in Nat
  BY HlcType
<1> QED
  BY <1>1 DEF Covers

\* What ApplyRecord does to each id.
LEMMA ApplyEach ==
    ASSUME NEW m \in [Keys -> Version], NEW f \in Frame
    PROVE  /\ f.id \in Keys /\ f.hlc \in Nat /\ VersionOf(f).hlc = f.hlc
           /\ \A k \in Keys : ApplyRecord(m, f)[k] =
                IF k = f.id /\ ~(f.hlc < m[k].hlc) THEN VersionOf(f) ELSE m[k]
<1>1. f.id \in Keys /\ f.hlc \in Nat /\ VersionOf(f).hlc = f.hlc
  BY BoundsAssumption DEF Frame, VersionOf
<1> QED
  BY <1>1 DEF ApplyRecord

\* A newer record on top keeps what was covered covered.
LEMMA CoversApply ==
    ASSUME NEW a \in [Keys -> Version], NEW m \in [Keys -> Version], NEW f \in Frame,
           Covers(a, m), a[f.id].hlc < f.hlc
    PROVE  Covers(a, ApplyRecord(m, f))
<1>1. \A k \in Keys : a[k].hlc \in Nat /\ m[k].hlc \in Nat
  BY HlcType
<1>2. ASSUME NEW k \in Keys
      PROVE  a[k] = ApplyRecord(m, f)[k] \/ a[k].hlc < ApplyRecord(m, f)[k].hlc
  <2>1. CASE k = f.id /\ ~(f.hlc < m[k].hlc)
    BY <2>1, ApplyEach
  <2>2. CASE ~(k = f.id /\ ~(f.hlc < m[k].hlc))
    BY <2>2, ApplyEach DEF Covers
  <2> QED
    BY <2>1, <2>2
<1> QED
  BY <1>2 DEF Covers

\* The same record on top of both keeps the one covered by the other.
LEMMA CoversBothApply ==
    ASSUME NEW a \in [Keys -> Version], NEW b \in [Keys -> Version], NEW f \in Frame,
           Covers(a, b)
    PROVE  Covers(ApplyRecord(a, f), ApplyRecord(b, f))
<1> DEFINE x == ApplyRecord(a, f)
           y == ApplyRecord(b, f)
<1>1. \A k \in Keys : a[k].hlc \in Nat /\ b[k].hlc \in Nat
  BY HlcType
<1>2. /\ f.hlc \in Nat /\ VersionOf(f).hlc = f.hlc
      /\ \A k \in Keys :
           /\ x[k] = IF k = f.id /\ ~(f.hlc < a[k].hlc) THEN VersionOf(f) ELSE a[k]
           /\ y[k] = IF k = f.id /\ ~(f.hlc < b[k].hlc) THEN VersionOf(f) ELSE b[k]
  BY ApplyEach
<1> HIDE DEF x, y
<1>3. ASSUME NEW k \in Keys
      PROVE  x[k] = y[k] \/ x[k].hlc < y[k].hlc
  <2>1. a[k] = b[k] \/ a[k].hlc < b[k].hlc
    BY DEF Covers
  <2>2. CASE k # f.id
    BY <1>2, <2>1, <2>2
  <2>3. CASE k = f.id
    BY <1>1, <1>2, <2>1, <2>3
  <2> QED
    BY <2>2, <2>3
<1> QED
  BY <1>3 DEF Covers, x, y

-----------------------------------------------------------------------------
(* Types.                                                                  *)

LEMMA NothingTyped ==
    /\ NoSnapshot \in Snapshots /\ NoSnapshot.mem \in [Keys -> Version] /\ NoSnapshot.off = 0
    /\ \A k \in Keys : NoSnapshot.mem[k] = NoVersion
    /\ NoVersion \in Version
<1>1. NoVersion \in Version
  BY DEF Version
<1> QED
  BY <1>1 DEF NoSnapshot, Snapshots

LEMMA RecordTyped ==
    ASSUME NEW k \in Keys, NEW h \in 1 .. MaxHlc, NEW v \in Payloads
    PROVE  /\ Record(k, h, v) \in Frame /\ Record(k, h, v).intact
           /\ Record(k, h, v).id = k /\ Record(k, h, v).hlc = h
  BY DEF Record, Frame

LEMMA TornTyped ==
    ASSUME NEW f \in Frame
    PROVE  Torn(f) \in Frame /\ ~Torn(f).intact
  BY DEF Torn, Frame

\* What a crash leaves of the log.
LEMMA SurvivesTyped ==
    ASSUME log \in Seq(Frame), NEW n \in 0 .. Len(log), NEW torn \in BOOLEAN,
           torn => n < Len(log), Survives(n, torn)
    PROVE  /\ log' \in Seq(Frame) /\ Len(log') = IF torn THEN n + 1 ELSE n
           /\ Len(log') <= Len(log) /\ n <= Len(log') /\ Len(log') \in Nat
           /\ \A i \in 1 .. n : log'[i] = log[i]
           /\ torn => ~log'[n + 1].intact
           /\ ~torn => log' = SubSeq(log, 1, n)
<1> DEFINE p == SubSeq(log, 1, n)
           t == <<Torn(log[n + 1])>>
<1>0. Len(log) \in Nat /\ n \in Nat
  BY LenProperties
<1>1. p \in Seq(Frame) /\ Len(p) = n /\ \A i \in 1 .. n : p[i] = log[i]
  BY PrefixFrames
<1>2. log' = p \o (IF torn THEN t ELSE <<>>)
  BY DEF Survives
<1> HIDE DEF p
<1>3. CASE torn
  <2>1. n + 1 \in 1 .. Len(log)
    BY <1>0, <1>3
  <2>2. log[n + 1] \in Frame
    BY <2>1, ElementOfSeq
  <2>3. Torn(log[n + 1]) \in Frame /\ ~Torn(log[n + 1]).intact
    BY <2>2, TornTyped
  <2>4. t \in Seq(Frame) /\ Len(t) = 1 /\ t[1] = Torn(log[n + 1])
    BY <2>3
  <2> HIDE DEF t
  <2>5. /\ p \o t \in Seq(Frame) /\ Len(p \o t) = Len(p) + Len(t)
        /\ \A i \in 1 .. Len(p) + Len(t) : (p \o t)[i] = IF i <= Len(p) THEN p[i] ELSE t[i - Len(p)]
    BY <1>1, <2>4, ConcatProperties
  <2>6. /\ \A i \in 1 .. n : i \in 1 .. Len(p) + Len(t) /\ i <= Len(p)
        /\ n + 1 \in 1 .. Len(p) + Len(t) /\ ~(n + 1 <= Len(p)) /\ n + 1 - Len(p) = 1
    BY <1>0, <1>1, <2>4
  <2>7. log' = p \o t
    BY <1>2, <1>3
  <2>8. log'[n + 1] = t[1] /\ \A i \in 1 .. n : log'[i] = log[i]
    BY <1>1, <2>5, <2>6, <2>7
  <2> QED
    BY <1>0, <1>1, <1>3, <2>1, <2>3, <2>4, <2>5, <2>7, <2>8
<1>4. CASE ~torn
  <2>1. p \o <<>> = p
    BY <1>1
  <2>2. log' = p
    BY <1>2, <1>4, <2>1
  <2> QED
    BY <1>0, <1>1, <1>4, <2>2 DEF p
<1> QED
  BY <1>3, <1>4

LEMMA FlushTyped ==
    ASSUME TypeOK, Flush
    PROVE  /\ written' \in 0 .. Len(log) /\ synced' \in 0 .. written' /\ dirty' = FALSE
           /\ synced <= synced' /\ written <= written' /\ synced' \in Nat /\ written' \in Nat
           /\ dirty => written' = Len(log) /\ synced' = Len(log)
           /\ ~dirty => written' = written /\ synced' = synced
<1>1. Len(log) \in Nat /\ written \in 0 .. Len(log) /\ synced \in 0 .. written
  BY LenProperties DEF TypeOK
<1> QED
  BY <1>1 DEF Flush

LEMMA TypedInit == Init => Typed
<1> SUFFICES ASSUME Init
             PROVE  Typed
  OBVIOUS
<1>1. <<>> \in Seq(Frame) /\ Len(<<>>) = 0
  BY EmptySeq
<1>2. setup.maxLog \in Nat /\ setup \in Setups
  BY SetupsAssumption DEF Init, Setup
<1>3. log \in Seq(Frame) /\ Len(log) = 0 /\ Len(log) <= setup.maxLog
  BY <1>1, <1>2 DEF Init
<1>4. written \in 0 .. Len(log) /\ synced \in 0 .. written
  BY <1>3 DEF Init
<1>5. TypeOK
  BY <1>2, <1>3, <1>4, NothingTyped DEF Init, TypeOK
<1> QED
  BY <1>5 DEF Init, Typed, CallSteady

\* Facts about a typed state that every step uses.
LEMMA TypedFacts ==
    ASSUME Typed
    PROVE  /\ TypeOK /\ CallSteady /\ log \in Seq(Frame) /\ Len(log) \in Nat
           /\ Len(log) <= setup.maxLog /\ setup.maxLog \in Nat /\ setup \in Setups
           /\ written \in Nat /\ synced \in Nat /\ written <= Len(log) /\ synced <= written
           /\ mem \in [Keys -> Version] /\ acked \in [Keys -> Version]
           /\ snap \in Snapshots /\ snapSafe \in Snapshots /\ len \in Nat /\ lastSnap \in Nat
           /\ op \in Frame \cup {NoOp} /\ setup.keys \in SUBSET Keys
  BY LenProperties, SetupsAssumption DEF Typed, TypeOK, Setup

LEMMA WriteKeepsTyped == Typed /\ Write /\ UNCHANGED setup => Typed'
<1> SUFFICES ASSUME Typed, Write, UNCHANGED setup
             PROVE  Typed'
  OBVIOUS
<1> USE TypedFacts
<1>1. PICK k \in setup.keys, h \in 1 .. MaxHlc :
        \/ WriteStale(k, h)
        \/ \E v \in Payloads : WriteAppend(k, h, v) \/ AppendFails(k, h, v)
  BY DEF Write
<1>2. k \in Keys
  OBVIOUS
<1>3. CASE WriteStale(k, h)
  <2>1. acked' = [acked EXCEPT ![k] = mem[k]] /\ acked' \in [Keys -> Version]
    BY <1>2, <1>3 DEF WriteStale, Acknowledge
  <2> QED
    BY <1>3, <2>1 DEF WriteStale, Typed, TypeOK, CallSteady
<1>4. CASE \E v \in Payloads : WriteAppend(k, h, v)
  <2>1. PICK v \in Payloads : WriteAppend(k, h, v)
    BY <1>4
  <2> DEFINE f == Record(k, h, v)
  <2>2. f \in Frame /\ f.intact /\ f.id = k /\ f.hlc = h
    BY <1>2, RecordTyped
  <2>3. op' = f /\ log' = Append(log, f) /\ len' = len + FramedLen(f)
    BY <2>1 DEF WriteAppend
  <2> HIDE DEF f
  <2>4. log' \in Seq(Frame) /\ Len(log') = Len(log) + 1
    BY <2>2, <2>3, AppendProperties
  <2>5. Len(log) < setup.maxLog /\ mem[k].hlc < h
    <3>1. mem[k].hlc \in Nat /\ h \in Nat
      BY <1>2, HlcType, BoundsAssumption
    <3>2. Len(log) < setup.maxLog /\ ~(h <= mem[k].hlc)
      BY <2>1 DEF WriteAppend, IsStale
    <3> QED
      BY <3>1, <3>2
  <2>6. Len(log') <= setup'.maxLog /\ written \in 0 .. Len(log') /\ synced \in 0 .. written
    BY <2>4, <2>5
  <2>7. len' \in Nat
    BY <2>3, FramedLenType
  <2>8. pc' \in {"flush", "apply"}
    BY <2>1 DEF WriteAppend
  <2>9. TypeOK'
    BY <2>1, <2>2, <2>3, <2>4, <2>6, <2>7, <2>8 DEF WriteAppend, TypeOK
  <2>10. CallSteady'
    BY <2>1, <2>2, <2>3, <2>5, <2>8 DEF WriteAppend, CallSteady
  <2> QED
    BY <2>9, <2>10 DEF Typed
<1>5. CASE \E v \in Payloads : AppendFails(k, h, v)
  <2>1. PICK v \in Payloads : AppendFails(k, h, v)
    BY <1>5
  <2> DEFINE f == Torn(Record(k, h, v))
  <2>2. f \in Frame
    BY <1>2, RecordTyped, TornTyped
  <2>3. log' = Append(log, f) /\ written' = Len(log') /\ Len(log) < setup.maxLog
    BY <2>1 DEF AppendFails
  <2> HIDE DEF f
  <2>4. log' \in Seq(Frame) /\ Len(log') = Len(log) + 1
    BY <2>2, <2>3, AppendProperties
  <2>5. Len(log') <= setup'.maxLog /\ written' \in 0 .. Len(log') /\ synced \in 0 .. written'
    BY <2>3, <2>4
  <2>6. UNCHANGED <<pc, op, mem, synced, len, dirty, snap, snapSafe, lastSnap, acked>>
    BY <2>1 DEF AppendFails
  <2>7. TypeOK'
    BY <2>4, <2>5, <2>6 DEF TypeOK
  <2> QED
    BY <2>6, <2>7 DEF Typed, CallSteady
<1> QED
  BY <1>1, <1>3, <1>4, <1>5

\* The process ends with a typed log on disk.
LEMMA HaltKeepsTyped ==
    ASSUME Typed, UNCHANGED setup, Halt, log' \in Seq(Frame), Len(log') \in Nat,
           Len(log') <= Len(log), written' \in 0 .. Len(log'), synced' \in 0 .. written',
           snap' \in Snapshots, snapSafe' \in Snapshots, UNCHANGED acked
    PROVE  Typed'
<1> USE TypedFacts
<1>1. Len(log') <= setup'.maxLog
  OBVIOUS
<1>2. TypeOK'
  BY <1>1, NothingTyped DEF Halt, TypeOK
<1> QED
  BY <1>2 DEF Halt, Typed, CallSteady

LEMMA CrashKeepsTyped == Typed /\ (Crash \/ Shutdown) /\ UNCHANGED setup => Typed'
<1> SUFFICES ASSUME Typed, Crash \/ Shutdown, UNCHANGED setup
             PROVE  Typed'
  OBVIOUS
<1> USE TypedFacts
<1>1. ASSUME NEW n \in 0 .. Len(log), NEW torn \in BOOLEAN, Kill(n, torn)
      PROVE  Typed'
  <2>1. n >= written /\ (torn => n < Len(log)) /\ Survives(n, torn)
    BY <1>1 DEF Kill
  <2>2. log' \in Seq(Frame) /\ Len(log') \in Nat /\ Len(log') <= Len(log) /\ n <= Len(log')
    BY <2>1, SurvivesTyped
  <2>3. written' \in 0 .. Len(log') /\ synced' \in 0 .. written'
    BY <1>1, <2>1, <2>2 DEF Kill
  <2> QED
    BY <1>1, <2>2, <2>3, HaltKeepsTyped DEF Kill
<1>2. ASSUME NEW n \in 0 .. Len(log), NEW torn \in BOOLEAN, NEW s \in {snap, snapSafe},
             PowerLoss(n, torn, s)
      PROVE  Typed'
  <2>1. n >= synced /\ (torn => n < Len(log)) /\ Survives(n, torn)
    BY <1>2 DEF PowerLoss
  <2>2. log' \in Seq(Frame) /\ Len(log') \in Nat /\ Len(log') <= Len(log) /\ n <= Len(log')
    BY <2>1, SurvivesTyped
  <2>3. written' \in 0 .. Len(log') /\ synced' \in 0 .. written'
    BY <1>2, <2>1, <2>2 DEF PowerLoss
  <2>4. Halt /\ snap' \in Snapshots /\ snapSafe' \in Snapshots /\ UNCHANGED acked
    BY <1>2 DEF PowerLoss
  <2> QED
    BY <2>2, <2>3, <2>4, HaltKeepsTyped
<1>3. CASE Shutdown
  <2>1. Flush /\ Halt /\ UNCHANGED <<log, snap, snapSafe, acked>>
    BY <1>3 DEF Shutdown
  <2>2. written' \in 0 .. Len(log') /\ synced' \in 0 .. written'
    BY <2>1, FlushTyped
  <2> QED
    BY <2>1, <2>2, HaltKeepsTyped
<1> QED
  BY <1>1, <1>2, <1>3 DEF Crash

\* The steps of a call that leave the log alone.
LEMMA CallKeepsTyped ==
    ASSUME Typed, UNCHANGED setup,
           \/ WriteFlush \/ WriteApply \/ SnapshotNow \/ SnapFlush \/ SnapRename \/ SnapSync
           \/ FlushNow \/ FlushFails \/ SnapshotFails
    PROVE  Typed'
<1> USE TypedFacts
<1>1. CASE WriteFlush
  <2>1. Flush /\ UNCHANGED <<op, mem, log, len, snap, snapSafe, lastSnap, acked>>
        /\ pc = "flush" /\ pc' = "apply"
    BY <1>1 DEF WriteFlush
  <2>2. written' \in 0 .. Len(log) /\ synced' \in 0 .. written' /\ dirty' = FALSE
    BY <2>1, FlushTyped
  <2> QED
    BY <2>1, <2>2 DEF Typed, TypeOK, CallSteady
<1>2. CASE WriteApply
  <2>1. op \in Frame /\ op.id \in Keys /\ VersionOf(op) \in Version /\ pc = "apply"
    BY <1>2, ApplyTyped DEF WriteApply, CallSteady, Frame
  <2>2. mem' = [mem EXCEPT ![op.id] = VersionOf(op)] /\ mem' \in [Keys -> Version]
    BY <1>2, <2>1 DEF WriteApply
  <2>3. UNCHANGED <<log, written, synced, len, dirty, snap, snapSafe, lastSnap>>
    BY <1>2 DEF WriteApply
  <2>4. CASE pc' = "snapflush" /\ UNCHANGED <<op, acked>>
    BY <2>2, <2>3, <2>4 DEF Typed, TypeOK, CallSteady
  <2>5. CASE pc' = "idle" /\ op' = NoOp /\ Acknowledge(op.id)
    <3>1. acked' \in [Keys -> Version]
      BY <2>1, <2>2, <2>5 DEF Acknowledge
    <3> QED
      BY <2>2, <2>3, <2>5, <3>1 DEF Typed, TypeOK, CallSteady
  <2> QED
    BY <1>2, <2>4, <2>5 DEF WriteApply
<1>3. CASE SnapshotNow
  BY <1>3 DEF SnapshotNow, Typed, TypeOK, CallSteady
<1>4. CASE SnapFlush
  <2>1. Flush /\ UNCHANGED <<op, mem, log, len, snap, snapSafe, lastSnap, acked>>
        /\ pc = "snapflush" /\ pc' = "snapwrite"
    BY <1>4 DEF SnapFlush
  <2>2. written' \in 0 .. Len(log) /\ synced' \in 0 .. written' /\ dirty' = FALSE
    BY <2>1, FlushTyped
  <2> QED
    BY <2>1, <2>2 DEF Typed, TypeOK, CallSteady
<1>5. CASE SnapRename
  <2>1. [off |-> len, mem |-> mem] \in Snapshots
    BY DEF Snapshots
  <2> QED
    BY <1>5, <2>1 DEF SnapRename, Typed, TypeOK, CallSteady
<1>6. CASE SnapSync
  <2>1. acked' \in [Keys -> Version]
    <3>1. CASE op = NoOp
      BY <1>6, <3>1 DEF SnapSync
    <3>2. CASE op # NoOp
      <4>1. op.id \in Keys /\ acked' = [acked EXCEPT ![op.id] = mem[op.id]]
        BY <1>6, <3>2 DEF SnapSync, Acknowledge, Frame
      <4> QED
        BY <4>1
    <3> QED
      BY <3>1, <3>2
  <2>2. /\ pc' = "idle" /\ op' = NoOp /\ UNCHANGED <<mem, log, written, synced, len, dirty, snap>>
        /\ lastSnap' = len /\ snapSafe' \in Snapshots
    BY <1>6 DEF SnapSync
  <2> QED
    BY <2>1, <2>2 DEF Typed, TypeOK, CallSteady
<1>7. CASE FlushNow
  <2>1. Flush /\ UNCHANGED <<pc, op, mem, log, len, snap, snapSafe, lastSnap, acked>>
    BY <1>7 DEF FlushNow
  <2>2. written' \in 0 .. Len(log) /\ synced' \in 0 .. written' /\ dirty' = FALSE
    BY <2>1, FlushTyped
  <2> QED
    BY <2>1, <2>2 DEF Typed, TypeOK, CallSteady
<1>8. CASE FlushFails
  BY <1>8 DEF FlushFails, Typed, TypeOK, CallSteady
<1>9. CASE SnapshotFails
  BY <1>9 DEF SnapshotFails, Typed, TypeOK, CallSteady
<1> QED
  BY <1>1, <1>2, <1>3, <1>4, <1>5, <1>6, <1>7, <1>8, <1>9

LEMMA BitRotKeepsTyped ==
    ASSUME Typed, UNCHANGED setup, NEW i \in DOMAIN log, BitRot(i)
    PROVE  Typed'
<1> USE TypedFacts
<1>1. log' = [log EXCEPT ![i] = Torn(log[i])] /\ i \in 1 .. Len(log)
  BY LenProperties DEF BitRot
<1>2. Torn(log[i]) \in Frame
  BY <1>1, TornTyped, ElementOfSeq
<1>3. log' \in Seq(Frame) /\ Len(log') = Len(log)
  BY <1>1, <1>2, ExceptSeq
<1>4. PICK n \in 0 .. Len(log') : IntactPrefix(log') \in Seq(Frame)
  BY <1>3, IntactPrefixTyped
<1>5. Recovered(snap, log') \in [Keys -> Version]
  BY <1>4, ReplayTyped DEF Recovered
<1>6. acked' \in [Keys -> Version]
  <2> DEFINE r == Recovered(snap, log')
  <2>1. acked' = [k \in Keys |-> IF acked[k].hlc <= r[k].hlc THEN acked[k] ELSE r[k]]
    BY DEF BitRot
  <2>2. r \in [Keys -> Version]
    BY <1>5
  <2> HIDE DEF r
  <2> QED
    BY <2>1, <2>2
<1>7. UNCHANGED <<pc, op, mem, written, synced, len, dirty, snap, snapSafe, lastSnap>>
  BY DEF BitRot
<1> QED
  BY <1>3, <1>6, <1>7 DEF Typed, TypeOK, CallSteady

LEMMA OpenKeepsTyped ==
    ASSUME Typed, UNCHANGED setup, Open
    PROVE  Typed'
<1> USE TypedFacts
<1>1. log' = IntactPrefix(log) /\ written' = Len(log') /\ mem' = Replay(snap, log')
      /\ len' = EndOffset(log') /\ pc' = "idle" /\ pc = "down" /\ dirty' = FALSE
      /\ synced' = (IF Len(log') < Len(log) THEN Len(log') ELSE synced)
      /\ lastSnap' = snap.off /\ UNCHANGED <<op, snap, snapSafe, acked>>
  BY DEF Open
<1>2. PICK n \in 0 .. Len(log) : log' \in Seq(Frame) /\ Len(log') = n
  BY <1>1, IntactPrefixTyped
<1>3. mem' \in [Keys -> Version] /\ len' \in Nat
  BY <1>1, <1>2, ReplayTyped
<1>4. Len(log') <= setup'.maxLog /\ written' \in 0 .. Len(log') /\ synced' \in 0 .. written'
  BY <1>1, <1>2
<1>5. lastSnap' \in Nat
  BY <1>1 DEF Snapshots
<1>6. op = NoOp
  BY <1>1 DEF CallSteady
<1>7. TypeOK'
  BY <1>1, <1>2, <1>3, <1>4, <1>5 DEF TypeOK
<1> QED
  BY <1>1, <1>6, <1>7 DEF Typed, CallSteady

LEMMA TypedNext == Typed /\ [Next]_vars => Typed'
<1> SUFFICES ASSUME Typed, [Next]_vars
             PROVE  Typed'
  OBVIOUS
<1>1. CASE UNCHANGED vars
  BY <1>1 DEF vars, Typed, TypeOK, CallSteady
<1>2. CASE Next
  <2>1. UNCHANGED setup
    BY <1>2 DEF Next
  <2>2. CASE Write
    BY <2>1, <2>2, WriteKeepsTyped
  <2>3. CASE \/ WriteFlush \/ WriteApply \/ SnapshotNow \/ SnapFlush \/ SnapRename \/ SnapSync
             \/ FlushNow \/ FlushFails \/ SnapshotFails
    BY <2>1, <2>3, CallKeepsTyped
  <2>4. CASE Crash \/ Shutdown
    BY <2>1, <2>4, CrashKeepsTyped
  <2>5. CASE \E i \in DOMAIN log : BitRot(i)
    BY <2>1, <2>5, BitRotKeepsTyped
  <2>6. CASE Open
    BY <2>1, <2>6, OpenKeepsTyped
  <2> QED
    BY <1>2, <2>2, <2>3, <2>4, <2>5, <2>6 DEF Next
<1> QED
  BY <1>1, <1>2

\* Every variable of the shard keeps its type, whatever fails: the marks of the
\* log never pass its end nor each other.
THEOREM TypeCorrect == Spec => []TypeOK
<1>1. Typed => TypeOK
  BY DEF Typed
<1> QED
  BY <1>1, TypedInit, TypedNext, PTL DEF Spec

LEMMA StepAdvances ==
    ASSUME Typed, [Next]_vars, pc # "down", pc' # "down", NEW k \in Keys
    PROVE  mem'[k] = mem[k] \/ mem[k].hlc < mem'[k].hlc
<1> USE TypedFacts
<1>1. CASE WriteApply
  <2>1. op \in Frame /\ op.id \in Keys /\ mem[op.id].hlc < op.hlc /\ VersionOf(op).hlc = op.hlc
    BY <1>1 DEF WriteApply, CallSteady, Frame, VersionOf
  <2>2. mem' = [mem EXCEPT ![op.id] = VersionOf(op)]
    BY <1>1 DEF WriteApply
  <2> QED
    BY <2>1, <2>2
<1>2. CASE ~WriteApply
  <2>1. UNCHANGED mem
    BY <1>2 DEF Next, vars, Write, WriteStale, WriteAppend, AppendFails, WriteFlush, SnapshotNow,
       SnapFlush, SnapRename, SnapSync, FlushNow, FlushFails, SnapshotFails, Crash, Kill,
       PowerLoss, Halt, Shutdown, BitRot, Open
  <2> QED
    BY <2>1
<1> QED
  BY <1>1, <1>2

\* While the shard is open no version goes back, in any mode of operation: a
\* record is stored only if its stamp is newer than the one of its id, from the
\* stale check at the start of the call to the index update at its end.
THEOREM VersionsNeverGoBack == Spec => VersionsAdvance
<1>1. Typed /\ [Next]_vars =>
        [pc # "down" /\ pc' # "down" =>
            \A k \in Keys : mem'[k] = mem[k] \/ mem[k].hlc < mem'[k].hlc]_vars
  BY StepAdvances
<1> QED
  BY <1>1, TypedInit, TypedNext, PTL DEF Spec, VersionsAdvance

-----------------------------------------------------------------------------
(* What a crash may leave of the log, before and after each kind of step.  *)

LEMMA SafeIs ==
    ASSUME Typed
    PROVE  /\ Safe \in Nat /\ Safe <= Len(log)
           /\ Whole \in Nat /\ Whole <= Len(log) /\ Len(log) <= Whole + 1
           /\ Whole \in Keeps
<1> USE TypedFacts
<1>1. Safe \in Nat /\ Safe <= Len(log)
  BY DEF Safe
<1>2. Whole \in Nat /\ Whole <= Len(log) /\ Len(log) <= Whole + 1
  BY DEF Whole
<1>3. Whole \in 0 .. Whole
  BY <1>2
<1> QED
  BY <1>1, <1>2, <1>3 DEF Keeps

LEMMA WholeIs ==
    ASSUME Typed, LogSteady
    PROVE  /\ IntactUpTo(log, Whole)
           /\ pc # "down" => Whole = Len(log) /\ Upto(Whole) = log
           /\ pc = "down" \/ ~dirty => Keeps = {Whole}
<1> USE TypedFacts, SafeIs
<1>1. \A i \in 1 .. Len(log) : log[i].intact \/ (i = Len(log) /\ pc = "down")
  BY DEF LogSteady
<1>2. IntactUpTo(log, Whole)
  <2>1. CASE Len(log) > 0 /\ ~log[Len(log)].intact
    <3>1. Whole = Len(log) - 1 /\ Whole + 1 = Len(log)
      BY <2>1 DEF Whole
    <3>2. ~log[Whole + 1].intact
      BY <2>1, <3>1
    <3>3. \A i \in 1 .. Whole : i \in 1 .. Len(log) /\ i # Len(log)
      BY <3>1
    <3>4. \A i \in 1 .. Whole : log[i].intact
      BY <1>1, <3>3
    <3> QED
      BY <3>2, <3>4 DEF IntactUpTo
  <2>2. CASE ~(Len(log) > 0 /\ ~log[Len(log)].intact)
    <3>1. Whole = Len(log)
      BY <2>2 DEF Whole
    <3>2. \A i \in 1 .. Len(log) : log[i].intact
      BY <1>1, <2>2
    <3> QED
      BY <3>1, <3>2 DEF IntactUpTo
  <2> QED
    BY <2>1, <2>2
<1>3. ASSUME pc # "down"
      PROVE  Whole = Len(log) /\ Upto(Whole) = log
  <2>1. CASE Len(log) > 0
    <3>1. Len(log) \in 1 .. Len(log)
      BY <2>1
    <3>2. Whole = Len(log)
      BY <1>1, <1>3, <3>1 DEF Whole
    <3> QED
      BY <3>2, WholePrefix DEF Upto
  <2>2. CASE ~(Len(log) > 0)
    BY <2>2, WholePrefix DEF Upto, Whole
  <2> QED
    BY <2>1, <2>2
<1>4. ASSUME pc = "down" \/ ~dirty
      PROVE  Keeps = {Whole}
  <2>1. Safe = Len(log)
    BY <1>4 DEF LogSteady
  <2>2. \A n \in Keeps : n = Whole
    <3>1. \A n \in Keeps : n \in 0 .. Whole /\ (n >= Len(log) \/ n = Whole)
      BY <2>1 DEF Keeps
    <3> HIDE DEF Keeps
    <3> QED
      BY <3>1
  <2> QED
    BY <2>2
<1> QED
  BY <1>2, <1>3, <1>4

\* A step that leaves the log alone and syncs no less of it.
LEMMA CalmKeeps ==
    ASSUME Typed, UNCHANGED <<setup, log>>, synced <= synced', written <= written',
           synced' \in Nat, written' \in Nat
    PROVE  /\ Keeps' \subseteq Keeps /\ Whole' = Whole /\ Safe <= Safe' /\ Safe' \in Nat
           /\ \A n : SubSeq(log, 1, n)' = SubSeq(log, 1, n)
<1>1. Whole' = Whole
  BY DEF Whole
<1>2. Safe \in Nat /\ Safe' \in Nat /\ Safe <= Safe'
  BY TypedFacts DEF Safe
<1>3. Whole \in Nat
  BY SafeIs
<1>4. \A n \in 0 .. Whole : n >= Safe' => n >= Safe
  BY <1>2, <1>3
<1>5. Keeps' \subseteq Keeps
  BY <1>1, <1>4 DEF Keeps
<1> QED
  BY <1>1, <1>2, <1>5

\* An appended frame is one more thing that a crash may leave.
LEMMA AppendKeeps ==
    ASSUME Typed, LogSteady, UNCHANGED <<setup, written, synced>>, pc # "down",
           NEW f \in Frame, f.intact, log' = Append(log, f)
    PROVE  /\ log' \in Seq(Frame) /\ Len(log') = Len(log) + 1 /\ log'[Len(log')] = f
           /\ \A i \in 1 .. Len(log) : log'[i] = log[i]
           /\ \A n \in Keeps' :
                \/ Upto(n)' = log'
                \/ n \in Keeps /\ Upto(n)' = Upto(n)
<1> USE TypedFacts, SafeIs
<1>1. /\ log' \in Seq(Frame) /\ Len(log') = Len(log) + 1 /\ log'[Len(log')] = f
      /\ \A i \in 1 .. Len(log) : log'[i] = log[i]
  BY AppendProperties
<1>2. Whole' = Len(log')
  BY <1>1 DEF Whole
<1>3. Safe' = Safe /\ Whole = Len(log)
  BY WholeIs DEF Safe
<1>4. ASSUME NEW n \in Keeps'
      PROVE  \/ Upto(n)' = log'
             \/ n \in Keeps /\ Upto(n)' = Upto(n)
  <2>1. n \in 0 .. Len(log) + 1 /\ (n >= Safe \/ n = Len(log) + 1)
    BY <1>1, <1>2, <1>3 DEF Keeps
  <2>2. CASE n = Len(log) + 1
    BY <1>1, <2>2, WholePrefix DEF Upto
  <2>3. CASE n # Len(log) + 1
    <3>1. n \in 0 .. Len(log) /\ n >= Safe
      BY <2>1, <2>3
    <3>2. n \in Keeps
      BY <1>3, <3>1 DEF Keeps
    <3>3. SubSeq(log', 1, n) = SubSeq(log, 1, n)
      BY <3>1, ReplayAppend
    <3> QED
      BY <3>2, <3>3 DEF Upto
  <2> QED
    BY <2>2, <2>3
<1> QED
  BY <1>1, <1>4

\* A crash leaves one of the prefixes it may leave, and perhaps a torn frame.
LEMMA SurvivesKeeps ==
    ASSUME Typed, LogSteady, NEW n \in 0 .. Len(log), n >= Safe, NEW torn \in BOOLEAN,
           torn => n < Len(log), Survives(n, torn)
    PROVE  /\ Whole' \in Keeps /\ Whole' \in Nat /\ Whole' <= Len(log')
           /\ SubSeq(log', 1, Whole') = SubSeq(log, 1, Whole')
           /\ \A i \in 1 .. Len(log') : log'[i].intact \/ i = Len(log')
<1> USE TypedFacts, SafeIs
<1>1. /\ log' \in Seq(Frame) /\ Len(log') = IF torn THEN n + 1 ELSE n
      /\ Len(log') <= Len(log) /\ n <= Len(log') /\ Len(log') \in Nat
      /\ \A i \in 1 .. n : log'[i] = log[i]
      /\ torn => ~log'[n + 1].intact
  BY SurvivesTyped
<1>2. \A i \in 1 .. Len(log) : i # Len(log) => log[i].intact
  BY DEF LogSteady
<1>3. \A m \in Nat : m <= n => SubSeq(log', 1, m) = SubSeq(log, 1, m)
  <2>1. SUFFICES ASSUME NEW m \in Nat, m <= n
                 PROVE  SubSeq(log', 1, m) = SubSeq(log, 1, m)
    OBVIOUS
  <2>2. m \in 0 .. Len(log') /\ m <= Len(log) /\ \A i \in 1 .. m : i \in 1 .. n
    BY <1>1, <2>1
  <2>3. \A i \in 1 .. m : log'[i] = log[i]
    BY <1>1, <2>2
  <2> QED
    BY <1>1, <2>2, <2>3, SamePrefix
<1>4. CASE torn
  <2>1. Len(log') = n + 1 /\ n < Len(log) /\ ~log'[Len(log')].intact
    BY <1>1, <1>4
  <2>2. Whole' = n
    BY <1>1, <2>1 DEF Whole
  <2>3. n \in 0 .. Whole
    BY <2>1
  <2>4. n \in Keeps
    BY <2>3 DEF Keeps
  <2>5. ASSUME NEW i \in 1 .. Len(log'), i # Len(log')
        PROVE  log'[i].intact
    <3>1. i \in 1 .. n /\ i \in 1 .. Len(log) /\ i # Len(log)
      BY <2>1, <2>5
    <3>2. log[i].intact /\ log'[i] = log[i]
      BY <1>1, <1>2, <3>1, Zenon
    <3> QED
      BY <3>2
  <2>6. n \in Nat /\ n <= n /\ n <= Len(log')
    BY <1>1
  <2>7. SubSeq(log', 1, n) = SubSeq(log, 1, n)
    BY <1>3, <2>6
  <2> QED
    BY <2>2, <2>4, <2>5, <2>6, <2>7
<1>5. CASE ~torn
  <2>1. Len(log') = n
    BY <1>1, <1>5
  <2>2. ASSUME NEW i \in 1 .. Len(log'), i # Len(log')
        PROVE  log'[i].intact
    <3>1. i \in 1 .. n /\ i \in 1 .. Len(log) /\ i # Len(log)
      BY <2>1, <2>2
    <3>2. log[i].intact /\ log'[i] = log[i]
      BY <1>1, <1>2, <3>1, Zenon
    <3> QED
      BY <3>2
  <2>3. CASE n > 0 /\ ~log'[n].intact
    <3>1. n \in 1 .. n /\ n \in 1 .. Len(log)
      BY <2>3
    <3>2. ~log[n].intact
      BY <1>1, <2>3, <3>1
    <3>3. n = Len(log)
      BY <1>2, <3>1, <3>2
    <3>4. Whole' = n - 1 /\ Whole = n - 1
      BY <2>1, <2>3, <3>2, <3>3 DEF Whole
    <3>5. Whole \in Keeps /\ n - 1 \in Nat /\ n - 1 <= n
      BY <3>1
    <3>6. SubSeq(log', 1, n - 1) = SubSeq(log, 1, n - 1)
      BY <1>3, <3>5
    <3> QED
      BY <2>1, <2>2, <3>4, <3>5, <3>6
  <2>4. CASE ~(n > 0 /\ ~log'[n].intact)
    <3>1. Whole' = n
      BY <2>1, <2>4 DEF Whole
    <3>2. n <= Whole
      <4>1. CASE n = Len(log) /\ n > 0
        <5>1. n \in 1 .. n
          BY <4>1
        <5>2. log[n].intact
          BY <1>1, <2>4, <4>1, <5>1
        <5>3. Whole = Len(log)
          BY <4>1, <5>2 DEF Whole
        <5> QED
          BY <4>1, <5>3
      <4>2. CASE n # Len(log)
        BY <4>2
      <4>3. CASE ~(n > 0)
        BY <4>3
      <4> QED
        BY <4>1, <4>2, <4>3
    <3>3. n \in 0 .. Whole
      BY <3>2
    <3>4. n \in Keeps
      BY <3>3 DEF Keeps
    <3>5. n \in Nat /\ n <= n /\ n <= Len(log')
      BY <1>1
    <3>6. SubSeq(log', 1, n) = SubSeq(log, 1, n)
      BY <1>3, <3>5
    <3> QED
      BY <2>2, <3>1, <3>4, <3>5, <3>6
  <2> QED
    BY <2>3, <2>4
<1> QED
  BY <1>4, <1>5

LEMMA CrashKeeps ==
    ASSUME Typed, Sound, LogSteady, UNCHANGED setup, Crash \/ Shutdown
    PROVE  /\ Whole' \in Keeps /\ Keeps' = {Whole'} /\ Safe' = Len(log') /\ pc' = "down"
           /\ SubSeq(log', 1, Whole') = SubSeq(log, 1, Whole')
           /\ \A i \in 1 .. Len(log') : log'[i].intact \/ i = Len(log')
           /\ Snaps' \subseteq Snaps /\ snap' \in Snaps /\ UNCHANGED acked
           /\ Snaps' = {snap'} \/ (UNCHANGED <<log, snap>> /\ pc = "idle")
<1> USE TypedFacts, SafeIs
<1> DEFINE Left == /\ Whole' \in Keeps /\ Whole' \in Nat /\ Whole' <= Len(log')
                   /\ SubSeq(log', 1, Whole') = SubSeq(log, 1, Whole')
                   /\ \A i \in 1 .. Len(log') : log'[i].intact \/ i = Len(log')
           Down == /\ Safe' = Len(log') /\ pc' = "down" /\ UNCHANGED acked
                   /\ Snaps' \subseteq Snaps /\ snap' \in Snaps
                   /\ Snaps' = {snap'} \/ (UNCHANGED <<log, snap>> /\ pc = "idle")
<1>1. ASSUME NEW n \in 0 .. Len(log), NEW torn \in BOOLEAN, Kill(n, torn)
      PROVE  Left /\ Down
  <2>1. "kill" \in setup.crashes
    BY <1>1 DEF Kill
  <2>2. n >= Safe /\ (torn => n < Len(log)) /\ Survives(n, torn)
    BY <1>1, <2>1 DEF Kill, Safe
  <2>3. Left
    BY <2>2, SurvivesKeeps
  <2>4. Down
    BY <1>1, <2>1 DEF Kill, Halt, Safe, Snaps
  <2> QED
    BY <2>3, <2>4
<1>2. ASSUME NEW n \in 0 .. Len(log), NEW torn \in BOOLEAN, NEW s \in {snap, snapSafe},
             PowerLoss(n, torn, s)
      PROVE  Left /\ Down
  <2>1. "kill" \notin setup.crashes
    <3>1. "power" \in setup.crashes /\ setup.crashes # CrashKinds
      BY <1>2 DEF PowerLoss, Sound
    <3>2. setup.crashes \subseteq CrashKinds
      BY SetupsAssumption DEF Setup
    <3> QED
      BY <3>1, <3>2 DEF CrashKinds
  <2>2. n >= Safe /\ (torn => n < Len(log)) /\ Survives(n, torn)
    BY <1>2, <2>1 DEF PowerLoss, Safe
  <2>3. Left
    BY <2>2, SurvivesKeeps
  <2>4. Down
    BY <1>2, <2>1 DEF PowerLoss, Halt, Safe, Snaps
  <2> QED
    BY <2>3, <2>4
<1>3. ASSUME Shutdown
      PROVE  Left /\ Down
  <2>1. Flush /\ Halt /\ UNCHANGED <<log, snap, snapSafe, acked>> /\ pc = "idle"
    BY <1>3 DEF Shutdown
  <2>2. Whole' = Whole /\ \A i \in 1 .. Len(log) : log[i].intact
    BY <2>1 DEF Whole, LogSteady
  <2>3. Left
    BY <2>1, <2>2
  <2>4. Safe' = Len(log')
    BY <2>1, FlushTyped DEF Safe, LogSteady
  <2>5. Down
    BY <2>1, <2>4 DEF Halt, Snaps
  <2> QED
    BY <2>3, <2>5
<1>4. Left /\ Down
  <2> HIDE DEF Left, Down
  <2> QED
    BY <1>1, <1>2, <1>3 DEF Crash
<1>5. Keeps' = {Whole'}
  <2>1. Whole' \in Nat /\ Whole' <= Len(log') /\ Safe' = Len(log') /\ Len(log') \in Nat
    <3>1. log' \in Seq(Frame)
      BY CrashKeepsTyped DEF Typed, TypeOK
    <3> QED
      BY <1>4, <3>1, LenProperties
  <2>2. \A n \in 0 .. Whole' : (n >= Safe' \/ n = Whole') <=> n = Whole'
    BY <2>1
  <2>3. Whole' \in 0 .. Whole'
    BY <2>1
  <2> QED
    BY <2>2, <2>3 DEF Keeps
<1> QED
  BY <1>4, <1>5

\* Opening the shard keeps the frames that were left whole.
LEMMA OpenKeeps ==
    ASSUME Typed, Sound, LogSteady, UNCHANGED setup, Open
    PROVE  /\ log' = Upto(Whole) /\ Keeps = {Whole} /\ Keeps' = {Len(log')}
           /\ SubSeq(log', 1, Len(log')) = log' /\ Safe' = Len(log')
           /\ \A i \in 1 .. Len(log') : log'[i].intact
           /\ Snaps' = Snaps
<1> USE TypedFacts, SafeIs
<1>1. /\ log' = IntactPrefix(log) /\ written' = Len(log') /\ pc = "down"
      /\ synced' = (IF Len(log') < Len(log) THEN Len(log') ELSE synced)
      /\ UNCHANGED <<snap, snapSafe>>
  BY DEF Open
<1>2. Whole \in 0 .. Len(log) /\ IntactUpTo(log, Whole) /\ Keeps = {Whole}
  BY <1>1, WholeIs
<1>3. log' = SubSeq(log, 1, Whole)
  BY <1>1, <1>2, IntactPrefixIs
<1>4. log' \in Seq(Frame) /\ Len(log') = Whole /\ \A i \in 1 .. Whole : log'[i] = log[i]
  BY <1>2, <1>3, PrefixFrames
<1>5. \A i \in 1 .. Len(log') : log'[i].intact
  BY <1>2, <1>4 DEF IntactUpTo
<1>6. Safe' = Len(log')
  <2>1. Safe = Len(log)
    BY <1>1 DEF LogSteady
  <2>2. Len(log') < Len(log) \/ Len(log') = Len(log)
    BY <1>2, <1>4
  <2> QED
    BY <1>1, <2>1, <2>2 DEF Safe
<1>7. Whole' = Len(log')
  <2>1. Len(log') \in Nat
    BY <1>4
  <2>2. Len(log') > 0 => Len(log') \in 1 .. Len(log')
    BY <2>1
  <2> QED
    BY <1>5, <2>2 DEF Whole
<1>8. Keeps' = {Len(log')}
  <2>1. Len(log') \in Nat
    BY <1>4
  <2>2. \A n \in 0 .. Len(log') : (n >= Len(log') \/ n = Len(log')) <=> n = Len(log')
    BY <2>1
  <2>3. Len(log') \in 0 .. Len(log')
    BY <2>1
  <2> QED
    BY <1>6, <1>7, <2>2, <2>3 DEF Keeps
<1>9. SubSeq(log', 1, Len(log')) = log'
  BY <1>4, WholePrefix
<1> QED
  BY <1>1, <1>2, <1>3, <1>5, <1>6, <1>8, <1>9 DEF Upto, Snaps

-----------------------------------------------------------------------------
(* The log and its marks.                                                  *)

LEMMA LogSteadyInit == Init => LogSteady
<1> SUFFICES ASSUME Init
             PROVE  LogSteady
  OBVIOUS
<1> USE TypedInit, TypedFacts, SafeIs
<1>1. log = <<>> /\ Len(log) = 0 /\ pc = "idle" /\ dirty = FALSE /\ len = 0
  BY DEF Init
<1>2. EndOffset(log) = 0
  <2>1. SubSeq(log, 1, 0) = log
    BY <1>1, WholePrefix
  <2> QED
    BY <2>1, EndOffsetStep
<1>3. Safe = Len(log)
  BY <1>1
<1>4. ASSUME NEW s \in Snaps, NEW n \in Keeps
      PROVE  s.off <= EndOffset(Upto(n))
  <2>1. s.off = 0
    BY NothingTyped DEF Init, Snaps
  <2>2. n = 0
    BY <1>1 DEF Keeps
  <2> QED
    BY <2>1, <2>2, EndOffsetStep DEF Upto
<1> QED
  BY <1>1, <1>2, <1>3, <1>4 DEF LogSteady

LEMMA LogSteadySame ==
    ASSUME LogSteady,
           UNCHANGED <<setup, pc, op, log, written, synced, len, dirty, snap, snapSafe>>
    PROVE  LogSteady'
  BY DEF LogSteady, Safe, Snaps, Upto, Whole, Keeps

LEMMA LogSteadyWrite ==
    ASSUME Typed, Sound, LogSteady, UNCHANGED setup, Write
    PROVE  LogSteady'
<1> USE TypedFacts, SafeIs
<1>1. PICK k \in setup.keys, h \in 1 .. MaxHlc :
        \/ WriteStale(k, h)
        \/ \E v \in Payloads : WriteAppend(k, h, v) \/ AppendFails(k, h, v)
  BY DEF Write
<1>2. CASE WriteStale(k, h)
  BY <1>2, LogSteadySame DEF WriteStale
<1>3. ASSUME NEW v \in Payloads, WriteAppend(k, h, v)
      PROVE  LogSteady'
  <2> DEFINE f == Record(k, h, v)
  <2>1. f \in Frame /\ f.intact
    BY RecordTyped
  <2>2. /\ op' = f /\ log' = Append(log, f) /\ len' = len + FramedLen(f) /\ dirty' = TRUE
        /\ pc = "idle" /\ pc' = (IF setup.batch THEN "apply" ELSE "flush")
        /\ UNCHANGED <<written, synced, snap, snapSafe>>
    BY <1>3 DEF WriteAppend
  <2> HIDE DEF f
  <2>3. /\ log' \in Seq(Frame) /\ Len(log') = Len(log) + 1 /\ log'[Len(log')] = f
        /\ \A i \in 1 .. Len(log) : log'[i] = log[i]
        /\ \A n \in Keeps' : \/ Upto(n)' = log'
                             \/ n \in Keeps /\ Upto(n)' = Upto(n)
    BY <2>1, <2>2, AppendKeeps
  <2>4. \A i \in 1 .. Len(log') : log'[i].intact
    <3>1. \A i \in 1 .. Len(log') : i \in 1 .. Len(log) \/ i = Len(log')
      BY <2>3
    <3>2. \A i \in 1 .. Len(log) : log[i].intact
      BY <2>2 DEF LogSteady
    <3> QED
      BY <2>1, <2>3, <3>1, <3>2
  <2>5. EndOffset(log') = EndOffset(log) + FramedLen(f) /\ len = EndOffset(log)
    BY <2>1, <2>2, ReplayAppend DEF LogSteady
  <2>6. ASSUME NEW s \in Snaps', NEW n \in Keeps'
        PROVE  s.off <= EndOffset(Upto(n)')
    <3>1. s \in Snaps /\ s.off \in Nat
      BY <2>2 DEF Snaps, Snapshots
    <3>2. CASE Upto(n)' = log'
      <4>1. s.off <= EndOffset(log)
        <5>1. Whole \in Keeps /\ Upto(Whole) = log
          BY <2>2, WholeIs
        <5> QED
          BY <3>1, <5>1 DEF LogSteady
      <4> QED
        BY <2>5, <3>1, <3>2, <4>1, FramedLenType
    <3>3. CASE n \in Keeps /\ Upto(n)' = Upto(n)
      BY <3>1, <3>3 DEF LogSteady
    <3> QED
      BY <2>3, <3>2, <3>3
  <2>7. log' # <<>>
    BY <2>3
  <2>8. pc' \in {"apply", "flush"} /\ (pc' = "flush" => ~setup'.batch) /\ (pc' = "apply" => setup'.batch)
    BY <2>2
  <2>9. \A s \in Snaps', n \in Keeps' : s.off <= EndOffset(Upto(n)')
    BY <2>6
  <2>10. len' = EndOffset(log') /\ log'[Len(log')] = op' /\ dirty' = TRUE
    BY <2>2, <2>3, <2>5
  <2> QED
    BY <2>4, <2>7, <2>8, <2>9, <2>10 DEF LogSteady
<1>4. \A v : ~AppendFails(k, h, v)
  BY DEF AppendFails, Sound
<1> QED
  BY <1>1, <1>2, <1>3, <1>4

\* A step that leaves the log alone and adds no snapshot.
LEMMA OffsetsCalm ==
    ASSUME Typed, LogSteady, UNCHANGED <<setup, log>>, synced <= synced', written <= written',
           synced' \in Nat, written' \in Nat, Snaps' \subseteq Snaps
    PROVE  \A s \in Snaps', n \in Keeps' : s.off <= EndOffset(Upto(n)')
<1>1. Keeps' \subseteq Keeps
  BY CalmKeeps
<1> QED
  BY <1>1 DEF LogSteady, Upto

LEMMA LogSteadyCall ==
    ASSUME Typed, Sound, LogSteady, UNCHANGED setup,
           \/ WriteFlush \/ WriteApply \/ SnapshotNow \/ SnapFlush \/ SnapRename \/ SnapSync
           \/ FlushNow \/ FlushFails \/ SnapshotFails
    PROVE  LogSteady'
<1> USE TypedFacts, SafeIs
<1>1. ASSUME Flush, UNCHANGED <<op, log, len, snap, snapSafe>>,
             \/ pc = "flush" /\ pc' = "apply"
             \/ pc = "snapflush" /\ pc' = "snapwrite"
             \/ pc = "idle" /\ pc' = "idle"
      PROVE  LogSteady'
  <2>1. /\ written <= written' /\ synced <= synced' /\ synced' \in Nat /\ written' \in Nat
        /\ dirty' = FALSE
        /\ dirty => written' = Len(log) /\ synced' = Len(log)
        /\ ~dirty => written' = written /\ synced' = synced
    BY <1>1, FlushTyped
  <2>2. Safe' = Len(log)
    BY <2>1 DEF Safe, LogSteady
  <2>3. Snaps' = Snaps
    BY <1>1 DEF Snaps
  <2>4. \A s \in Snaps', n \in Keeps' : s.off <= EndOffset(Upto(n)')
    BY <1>1, <2>1, <2>3, OffsetsCalm
  <2> QED
    BY <1>1, <2>1, <2>2, <2>4 DEF LogSteady
<1>2. ASSUME UNCHANGED <<log, len, written, synced, dirty, snap, snapSafe>>,
             \/ pc \in {"flush", "apply", "snapflush", "snapwrite"} /\ pc' = "idle"
             \/ pc \in {"idle", "apply"} /\ pc' = "snapflush"
      PROVE  LogSteady'
  <2>1. \A s \in Snaps', n \in Keeps' : s.off <= EndOffset(Upto(n)')
    BY <1>2, OffsetsCalm DEF Snaps
  <2>2. Safe' = Safe
    BY <1>2 DEF Safe
  <2> QED
    BY <1>2, <2>1, <2>2 DEF LogSteady
<1>3. CASE WriteFlush
  BY <1>1, <1>3 DEF WriteFlush
<1>4. CASE WriteApply
  BY <1>2, <1>4 DEF WriteApply
<1>5. CASE SnapshotNow
  BY <1>2, <1>5 DEF SnapshotNow
<1>6. CASE SnapFlush
  BY <1>1, <1>6 DEF SnapFlush
<1>7. CASE SnapRename
  <2>1. /\ snap' = [off |-> len, mem |-> mem] /\ pc = "snapwrite" /\ pc' = "snapsync"
        /\ UNCHANGED <<op, mem, log, written, synced, len, dirty, snapSafe>>
    BY <1>7 DEF SnapRename
  <2>2. Keeps' = Keeps /\ Safe' = Safe /\ Whole' = Whole
    BY <2>1 DEF Keeps, Safe, Whole
  <2>3. ~dirty /\ len = EndOffset(log)
    BY <2>1 DEF LogSteady
  <2>4. Keeps = {Whole} /\ Upto(Whole) = log
    BY <2>1, <2>3, WholeIs
  <2>5. ASSUME NEW s \in Snaps', NEW n \in Keeps'
        PROVE  s.off <= EndOffset(Upto(n)')
    <3>1. n = Whole /\ Upto(n)' = log
      BY <2>1, <2>2, <2>4 DEF Upto
    <3>2. s \in Snaps \/ s.off = len
      BY <2>1 DEF Snaps
    <3>3. CASE s \in Snaps
      BY <2>4, <3>1, <3>3 DEF LogSteady
    <3>4. CASE s.off = len
      BY <2>3, <3>1, <3>4
    <3> QED
      BY <3>2, <3>3, <3>4
  <2> QED
    BY <2>1, <2>2, <2>3, <2>5 DEF LogSteady
<1>8. CASE SnapSync
  <2>1. /\ pc = "snapsync" /\ pc' = "idle" /\ (snapSafe' = snap \/ snapSafe' = snapSafe)
        /\ UNCHANGED <<log, written, synced, len, dirty, snap>>
    BY <1>8 DEF SnapSync
  <2>2. Snaps' \subseteq Snaps /\ Safe' = Safe
    BY <2>1 DEF Snaps, Safe
  <2>3. \A s \in Snaps', n \in Keeps' : s.off <= EndOffset(Upto(n)')
    BY <2>1, <2>2, OffsetsCalm
  <2> QED
    BY <2>1, <2>2, <2>3 DEF LogSteady
<1>9. CASE FlushNow
  BY <1>1, <1>9 DEF FlushNow
<1>10. CASE FlushFails
  BY <1>2, <1>10 DEF FlushFails
<1>11. CASE SnapshotFails
  BY <1>2, <1>11 DEF SnapshotFails
<1> QED
  BY <1>3, <1>4, <1>5, <1>6, <1>7, <1>8, <1>9, <1>10, <1>11

LEMMA LogSteadyNext ==
    ASSUME Typed, Sound, LogSteady, [Next]_vars
    PROVE  LogSteady'
<1>1. CASE UNCHANGED vars
  BY <1>1, LogSteadySame DEF vars
<1>2. CASE Next
  <2>1. UNCHANGED setup
    BY <1>2 DEF Next
  <2>2. CASE Write
    BY <2>1, <2>2, LogSteadyWrite
  <2>3. CASE \/ WriteFlush \/ WriteApply \/ SnapshotNow \/ SnapFlush \/ SnapRename \/ SnapSync
             \/ FlushNow \/ FlushFails \/ SnapshotFails
    BY <2>1, <2>3, LogSteadyCall
  <2>4. CASE Crash \/ Shutdown
    <3>1. /\ Whole' \in Keeps /\ Keeps' = {Whole'} /\ Safe' = Len(log') /\ pc' = "down"
          /\ SubSeq(log', 1, Whole') = SubSeq(log, 1, Whole')
          /\ \A i \in 1 .. Len(log') : log'[i].intact \/ i = Len(log')
          /\ Snaps' \subseteq Snaps
      BY <2>1, <2>4, CrashKeeps
    <3>2. \A s \in Snaps', n \in Keeps' : s.off <= EndOffset(Upto(n)')
      BY <3>1 DEF LogSteady, Upto
    <3> QED
      BY <3>1, <3>2 DEF LogSteady
  <2>5. CASE \E i \in DOMAIN log : BitRot(i)
    BY <2>5 DEF BitRot, Sound
  <2>6. CASE Open
    <3>1. /\ log' = Upto(Whole) /\ Keeps = {Whole} /\ Keeps' = {Len(log')}
          /\ SubSeq(log', 1, Len(log')) = log' /\ Safe' = Len(log')
          /\ \A i \in 1 .. Len(log') : log'[i].intact
          /\ Snaps' = Snaps
      BY <2>1, <2>6, OpenKeeps
    <3>2. \A s \in Snaps', n \in Keeps' : s.off <= EndOffset(Upto(n)')
      <4>1. \A s \in Snaps : s.off <= EndOffset(log')
        BY <3>1 DEF LogSteady
      <4>2. \A n \in Keeps' : Upto(n)' = log'
        BY <3>1 DEF Upto
      <4> QED
        BY <3>1, <4>1, <4>2
    <3>3. pc' = "idle" /\ len' = EndOffset(log') /\ dirty' = FALSE
      BY <2>6 DEF Open
    <3> QED
      BY <3>1, <3>2, <3>3 DEF LogSteady
  <2> QED
    BY <1>2, <2>2, <2>3, <2>4, <2>5, <2>6 DEF Next
<1> QED
  BY <1>1, <1>2

LEMMA SnapshotsWithin == Typed /\ (Sound => LogSteady) => SnapshotWithinStableWal
<1> SUFFICES ASSUME Typed, Sound => LogSteady, WholeAppends, "kill" \notin setup.crashes,
                    NEW s \in {snap, snapSafe}
             PROVE  s.off <= EndOffset(SubSeq(log, 1, synced))
  BY DEF SnapshotWithinStableWal
<1> USE TypedFacts, SafeIs
<1>1. LogSteady
  BY DEF Sound, WholeAppends, CrashKinds
<1>2. s \in Snaps /\ s.off \in Nat /\ Safe = synced
  BY DEF Snaps, Safe, Snapshots
<1>3. CASE synced <= Whole
  <2>1. synced \in Keeps
    BY <1>2, <1>3 DEF Keeps
  <2> QED
    BY <1>1, <1>2, <2>1 DEF LogSteady, Upto
<1>4. CASE ~(synced <= Whole)
  <2> DEFINE a == EndOffset(SubSeq(log, 1, Whole))
             b == EndOffset(SubSeq(log, 1, synced))
  <2>1. synced \in 0 .. Len(log) /\ Whole \in 0 .. synced /\ Whole \in 0 .. Len(log)
    BY <1>4
  <2>2. a \in Nat /\ b \in Nat /\ a <= b
    BY <2>1, EndOffsetGrows, EndOffsetStep
  <2>3. s.off <= a
    BY <1>1, <1>2 DEF LogSteady, Upto
  <2> QED
    BY <1>2, <2>2, <2>3
<1> QED
  BY <1>3, <1>4

LEMMA LogNext == Typed /\ (Sound => LogSteady) /\ [Next]_vars => (Sound => LogSteady)'
<1>1. [Next]_vars => (Sound' => Sound)
  BY DEF Next, vars, Sound
<1> QED
  BY <1>1, LogSteadyNext

\* With kills and failing appends aside, no snapshot in place, nor one a power
\* loss would bring back, claims a byte of the WAL that is not on stable storage.
THEOREM SnapshotsStayWithinStableWal == Spec => []SnapshotWithinStableWal
<1>1. Init => Typed /\ (Sound => LogSteady)
  BY TypedInit, LogSteadyInit
<1> QED
  BY <1>1, TypedNext, LogNext, SnapshotsWithin, PTL DEF Spec

-----------------------------------------------------------------------------
(* Replaying gives what is served.                                         *)

\* The snapshots are typed, and below the end of an open log.
LEMMA SnapsIs ==
    ASSUME Typed, LogSteady
    PROVE  /\ snap \in Snaps /\ \A s \in Snaps : s \in Snapshots
           /\ pc # "down" => \A s \in Snaps : s.off <= EndOffset(log)
<1>1. snap \in Snaps /\ \A s \in Snaps : s \in Snapshots
  BY TypedFacts DEF Snaps
<1>2. pc # "down" => Whole \in Keeps /\ Upto(Whole) = log
  BY WholeIs, SafeIs
<1> QED
  BY <1>1, <1>2 DEF LogSteady

LEMMA LiveSteadyInit == Init => LiveSteady
<1> SUFFICES ASSUME Init
             PROVE  LiveSteady
  OBVIOUS
<1>1. log \in Seq(Frame) /\ SubSeq(log, 1, 0) = log
  BY TypedInit, TypedFacts, WholePrefix DEF Init
<1>2. Replay(NoSnapshot, log) = NoSnapshot.mem
  BY <1>1, ReplayStep, NothingTyped
<1>3. \A s \in Snaps : s = NoSnapshot
  BY DEF Init, Snaps
<1>4. pc = "idle" /\ mem = NoSnapshot.mem
  BY DEF Init
<1> QED
  BY <1>2, <1>3, <1>4 DEF LiveSteady

\* A step that changes the snapshots at most by dropping one.
LEMMA LiveSteadySame ==
    ASSUME LiveSteady, UNCHANGED <<mem, log>>, Snaps' \subseteq Snaps, pc # "down", pc' # "down",
           op' = op \/ pc' \notin {"flush", "apply"},
           pc \in {"flush", "apply"} <=> pc' \in {"flush", "apply"},
           pc' \in {"idle", "flush", "apply", "snapflush", "snapwrite", "snapsync"},
           pc \in {"idle", "flush", "apply", "snapflush", "snapwrite", "snapsync"}
    PROVE  LiveSteady'
  BY DEF LiveSteady

LEMMA LiveSteadyNext ==
    ASSUME Typed, Sound, WholeAppends, LogSteady, LiveSteady, [Next]_vars
    PROVE  LiveSteady'
<1> USE TypedFacts, SafeIs
<1>0. pc \in {"down", "idle", "flush", "apply", "snapflush", "snapwrite", "snapsync"}
  BY DEF TypeOK
<1>1. CASE UNCHANGED vars
  BY <1>1 DEF vars, LiveSteady, Snaps, Upto, Whole
<1>2. ASSUME UNCHANGED setup, NEW k \in setup.keys, NEW h \in 1 .. MaxHlc, WriteStale(k, h)
      PROVE  LiveSteady'
  BY <1>2, LiveSteadySame DEF WriteStale, Snaps
<1>3. ASSUME UNCHANGED setup, NEW k \in setup.keys, NEW h \in 1 .. MaxHlc, NEW v \in Payloads,
             WriteAppend(k, h, v)
      PROVE  LiveSteady'
  <2> DEFINE f == Record(k, h, v)
  <2>1. f \in Frame /\ f.id = k /\ f.hlc = h /\ k \in Keys /\ h \in Nat
    BY RecordTyped, BoundsAssumption
  <2>2. /\ op' = f /\ log' = Append(log, f) /\ pc = "idle" /\ pc' \in {"flush", "apply"}
        /\ ~(h <= mem[k].hlc) /\ UNCHANGED <<mem, snap, snapSafe>>
    BY <1>3 DEF WriteAppend, IsStale
  <2> HIDE DEF f
  <2>3. mem[k].hlc \in Nat
    BY <2>1, HlcType
  <2>4. ApplyRecord(mem, f) = [mem EXCEPT ![f.id] = VersionOf(f)]
    BY <2>1, <2>2, <2>3 DEF ApplyRecord
  <2>5. ASSUME NEW s \in Snaps'
        PROVE  Replay(s, log') = [mem EXCEPT ![f.id] = VersionOf(f)]
    <3>1. s \in Snaps /\ s \in Snapshots /\ s.off <= EndOffset(log)
      BY <1>3, <2>2, SnapsIs DEF Snaps
    <3>2. Replay(s, log) = mem
      BY <2>2, <3>1 DEF LiveSteady
    <3> QED
      BY <2>1, <2>2, <2>4, <3>1, <3>2, ReplayAppend
  <2> QED
    BY <2>2, <2>5 DEF LiveSteady
<1>4. ASSUME UNCHANGED setup, WriteFlush
      PROVE  LiveSteady'
  BY <1>4, LiveSteadySame DEF WriteFlush, Snaps
<1>5. ASSUME UNCHANGED setup, WriteApply
      PROVE  LiveSteady'
  <2>1. /\ mem' = [mem EXCEPT ![op.id] = VersionOf(op)] /\ pc = "apply"
        /\ pc' \in {"idle", "snapflush"} /\ UNCHANGED <<log, snap, snapSafe>>
    BY <1>5 DEF WriteApply
  <2>2. Snaps' = Snaps
    BY <1>5, <2>1 DEF Snaps
  <2> QED
    BY <2>1, <2>2 DEF LiveSteady
<1>6. ASSUME UNCHANGED setup, SnapshotNow \/ SnapFlush \/ FlushNow \/ SnapshotFails
      PROVE  LiveSteady'
  <2>1. Snaps' = Snaps
    BY <1>6 DEF Snaps, SnapshotNow, SnapFlush, FlushNow, SnapshotFails
  <2> QED
    BY <1>6, <2>1, LiveSteadySame DEF SnapshotNow, SnapFlush, FlushNow, SnapshotFails
<1>7. ASSUME UNCHANGED setup, SnapRename
      PROVE  LiveSteady'
  <2> DEFINE sn == [off |-> len, mem |-> mem]
  <2>1. /\ snap' = sn /\ pc = "snapwrite" /\ pc' = "snapsync"
        /\ UNCHANGED <<mem, log, snapSafe>>
    BY <1>7 DEF SnapRename
  <2>2. sn \in Snapshots /\ sn.off = len /\ sn.mem = mem
    BY DEF Snapshots
  <2> HIDE DEF sn
  <2>3. EndOffset(log) = len
    BY <2>1 DEF LogSteady
  <2>4. Replay(sn, log) = mem
    BY <2>2, <2>3, ReplayCovered
  <2>5. \A s \in Snaps' : s = sn \/ s \in Snaps
    BY <1>7, <2>1 DEF Snaps
  <2>6. \A s \in Snaps : Replay(s, log) = mem
    BY <2>1 DEF LiveSteady
  <2> QED
    BY <2>1, <2>4, <2>5, <2>6 DEF LiveSteady
<1>8. ASSUME UNCHANGED setup, SnapSync
      PROVE  LiveSteady'
  <2>1. Snaps' \subseteq Snaps
    BY <1>8 DEF SnapSync, Snaps
  <2> QED
    BY <1>8, <2>1, LiveSteadySame DEF SnapSync
<1>9. ASSUME UNCHANGED setup, Crash \/ Shutdown
      PROVE  LiveSteady'
  <2>1. /\ pc' = "down" /\ Snaps' \subseteq Snaps
        /\ SubSeq(log', 1, Whole') = SubSeq(log, 1, Whole')
        /\ Snaps' = {snap'} \/ (UNCHANGED <<log, snap>> /\ pc = "idle")
    BY <1>9, CrashKeeps
  <2>2. CASE Snaps' = {snap'}
    BY <2>1, <2>2 DEF LiveSteady
  <2>3. CASE UNCHANGED <<log, snap>> /\ pc = "idle"
    <3>1. Whole' = Whole /\ Upto(Whole) = log /\ Upto(Whole)' = log
      BY <2>3, WholeIs DEF Whole, Upto
    <3>2. snap \in Snaps /\ \A s \in Snaps : Replay(s, log) = mem
      BY <2>3, SnapsIs DEF LiveSteady
    <3>3. \A s \in Snaps' : Replay(s, Upto(Whole)') = Replay(snap', Upto(Whole)')
      BY <2>1, <2>3, <3>1, <3>2
    <3> QED
      BY <2>1, <3>3 DEF LiveSteady
  <2> QED
    BY <2>1, <2>2, <2>3
<1>10. ASSUME UNCHANGED setup, Open
       PROVE  LiveSteady'
  <2>1. log' = Upto(Whole) /\ Snaps' = Snaps
    BY <1>10, OpenKeeps
  <2>2. pc = "down" /\ pc' = "idle" /\ mem' = Replay(snap, log')
    BY <1>10 DEF Open
  <2>3. \A s \in Snaps : Replay(s, log') = Replay(snap, log')
    BY <2>1, <2>2 DEF LiveSteady
  <2> QED
    BY <2>1, <2>2, <2>3 DEF LiveSteady
<1>11. ~FlushFails /\ (\A k, h, v : ~AppendFails(k, h, v)) /\ \A i : ~BitRot(i)
  BY DEF FlushFails, AppendFails, BitRot, WholeAppends
<1>12. CASE Next
  BY <1>2, <1>3, <1>4, <1>5, <1>6, <1>7, <1>8, <1>9, <1>10, <1>11, <1>12 DEF Next, Write
<1> QED
  BY <1>1, <1>12

\* An open log has no torn frame, so recovery would keep all of it.
LEMMA RecoveredWhole ==
    ASSUME Typed, LogSteady, pc # "down"
    PROVE  Recovered(snap, log) = Replay(snap, log)
<1>1. Whole \in 0 .. Len(log) /\ IntactUpTo(log, Whole) /\ SubSeq(log, 1, Whole) = log
  BY TypedFacts, SafeIs, WholeIs DEF Upto
<1>2. IntactPrefix(log) = log
  BY <1>1, TypedFacts, IntactPrefixIs
<1> QED
  BY <1>2 DEF Recovered

-----------------------------------------------------------------------------
(* What was acknowledged survives.                                         *)

\* What a crash may leave is a typed log.
LEMMA LeftTyped ==
    ASSUME Typed, LogSteady
    PROVE  \A s \in Snaps, n \in Keeps :
             Upto(n) \in Seq(Frame) /\ Replay(s, Upto(n)) \in [Keys -> Version]
<1>1. \A n \in Keeps : n \in 0 .. Len(log)
  BY TypedFacts, SafeIs DEF Keeps
<1>2. \A n \in Keeps : Upto(n) \in Seq(Frame)
  BY <1>1, TypedFacts, PrefixFrames DEF Upto
<1>3. \A s \in Snaps : s \in Snapshots
  BY SnapsIs
<1> QED
  BY <1>2, <1>3, ReplayTyped

LEMMA AckSteadyInit == Init => AckSteady
<1> SUFFICES ASSUME Init
             PROVE  AckSteady
  OBVIOUS
<1>1. log \in Seq(Frame) /\ Len(log) = 0
  BY TypedInit, TypedFacts DEF Init
<1>2. \A n \in Keeps : n = 0
  BY <1>1, TypedInit, SafeIs DEF Keeps
<1>3. \A s \in Snaps, n \in Keeps : Replay(s, Upto(n)) = NoSnapshot.mem
  <2>1. \A s \in Snaps : s = NoSnapshot
    BY DEF Init, Snaps
  <2>2. Replay(NoSnapshot, SubSeq(log, 1, 0)) = NoSnapshot.mem
    BY <1>1, ReplayStep, NothingTyped
  <2> QED
    BY <1>2, <2>1, <2>2 DEF Upto
<1>4. snap \in Snaps
  BY DEF Snaps
<1>5. pc = "idle" /\ mem = NoSnapshot.mem /\ acked = NoSnapshot.mem
  BY DEF Init
<1> QED
  BY <1>3, <1>4, <1>5, CoversReflexive DEF AckSteady

\* Acknowledging what is served keeps what was acknowledged covered.
LEMMA AcknowledgeCovers ==
    ASSUME Typed, NEW k \in Keys, NEW c \in [Keys -> Version], Covers(acked, c), Covers(mem, c)
    PROVE  Covers([acked EXCEPT ![k] = mem[k]], c)
  BY TypedFacts DEF Covers

\* A step of an open shard that leaves the log and the versions alone, and may
\* acknowledge an id.
LEMMA AckSteadyCalm ==
    ASSUME Typed, LogSteady, AckSteady, UNCHANGED <<setup, log, mem>>, Snaps' \subseteq Snaps,
           UNCHANGED snap, pc # "down", synced <= synced', written <= written',
           synced' \in Nat, written' \in Nat,
           pc' \in {"flush", "apply"} => pc \in {"flush", "apply"} /\ op' = op,
           acked' = acked \/ \E k \in Keys : acked' = [acked EXCEPT ![k] = mem[k]]
    PROVE  AckSteady'
<1> USE TypedFacts
<1>1. Keeps' \subseteq Keeps /\ \A n : Upto(n)' = Upto(n)
  BY CalmKeeps DEF Upto
<1>2. \A c \in [Keys -> Version] : Covers(acked, c) /\ Covers(mem, c) => Covers(acked', c)
  BY AcknowledgeCovers
<1>3. Covers(acked', mem')
  BY <1>2, CoversReflexive DEF AckSteady
<1>4. ASSUME NEW s \in Snaps', NEW n \in Keeps'
      PROVE  /\ Covers(acked', Replay(s, Upto(n)'))
             /\ Covers(mem', Replay(s, Upto(n)'))
             /\ Covers(Replay(snap', Upto(n)'), Replay(s, Upto(n)'))
  <2>1. s \in Snaps /\ n \in Keeps /\ Replay(s, Upto(n)) \in [Keys -> Version]
    BY <1>1, LeftTyped
  <2>2. /\ Covers(acked, Replay(s, Upto(n))) /\ Covers(mem, Replay(s, Upto(n)))
        /\ Covers(Replay(snap, Upto(n)), Replay(s, Upto(n)))
    BY <2>1 DEF AckSteady
  <2> QED
    BY <1>1, <1>2, <2>1, <2>2
<1>5. pc' \in {"flush", "apply"} =>
        \A s \in Snaps' : LET v == Replay(s, log')[op'.id]
                          IN  v = VersionOf(op') \/ op'.hlc < v.hlc
  BY DEF AckSteady
<1> QED
  BY <1>3, <1>4, <1>5 DEF AckSteady

LEMMA AckSteadyAppend ==
    ASSUME Typed, LogSteady, AckSteady, UNCHANGED setup,
           NEW k \in setup.keys, NEW h \in 1 .. MaxHlc, NEW v \in Payloads, WriteAppend(k, h, v)
    PROVE  AckSteady'
<1> USE TypedFacts
<1> DEFINE f == Record(k, h, v)
<1>1. f \in Frame /\ f.intact /\ f.id = k /\ f.hlc = h /\ k \in Keys /\ h \in Nat
  BY RecordTyped, BoundsAssumption
<1>2. /\ op' = f /\ log' = Append(log, f) /\ pc = "idle" /\ pc' \in {"flush", "apply"}
      /\ ~(h <= mem[k].hlc) /\ UNCHANGED <<mem, written, synced, snap, snapSafe, acked>>
  BY DEF WriteAppend, IsStale
<1> HIDE DEF f
<1>3. Covers(acked, mem) /\ acked[k].hlc < h /\ mem[k].hlc < h
  <2>1. Covers(acked, mem)
    BY <1>2 DEF AckSteady
  <2>2. mem[k].hlc \in Nat /\ acked[k].hlc \in Nat
    BY <1>1, HlcType
  <2> QED
    BY <1>1, <1>2, <2>1, <2>2 DEF Covers
<1>4. /\ log' \in Seq(Frame)
      /\ \A n \in Keeps' : \/ Upto(n)' = log'
                           \/ n \in Keeps /\ Upto(n)' = Upto(n)
  BY <1>1, <1>2, AppendKeeps
<1>5. Snaps' = Snaps /\ snap \in Snaps /\ \A s \in Snaps : s \in Snapshots /\ s.off <= EndOffset(log)
  BY <1>2, SnapsIs DEF Snaps
<1>6. Whole \in Keeps /\ Upto(Whole) = log
  BY <1>2, SafeIs, WholeIs
<1>7. \A s \in Snaps : /\ Replay(s, log) \in [Keys -> Version]
                       /\ Replay(s, log') = ApplyRecord(Replay(s, log), f)
  BY <1>1, <1>2, <1>5, ReplayAppend, ReplayTyped
<1>8. ASSUME NEW s \in Snaps
      PROVE  /\ Covers(acked, Replay(s, log')) /\ Covers(mem, Replay(s, log'))
             /\ Covers(Replay(snap, log'), Replay(s, log'))
  <2> DEFINE a == Replay(snap, log)
             b == Replay(s, log)
  <2>1. a \in [Keys -> Version] /\ b \in [Keys -> Version]
    BY <1>5, <1>7
  <2>2. Covers(acked, b) /\ Covers(mem, b) /\ Covers(a, b)
    BY <1>2, <1>6 DEF AckSteady
  <2>3. Replay(s, log') = ApplyRecord(b, f) /\ Replay(snap, log') = ApplyRecord(a, f)
    BY <1>5, <1>7
  <2> HIDE DEF a, b
  <2>4. Covers(acked, ApplyRecord(b, f)) /\ Covers(mem, ApplyRecord(b, f))
    BY <1>1, <1>3, <2>1, <2>2, CoversApply
  <2>5. Covers(ApplyRecord(a, f), ApplyRecord(b, f))
    BY <1>1, <2>1, <2>2, CoversBothApply
  <2> QED
    BY <2>3, <2>4, <2>5
<1>9. ASSUME NEW s \in Snaps', NEW n \in Keeps'
      PROVE  /\ Covers(acked', Replay(s, Upto(n)'))
             /\ Covers(mem', Replay(s, Upto(n)'))
             /\ Covers(Replay(snap', Upto(n)'), Replay(s, Upto(n)'))
  <2>1. CASE Upto(n)' = log'
    BY <1>2, <1>5, <1>8, <2>1
  <2>2. CASE n \in Keeps /\ Upto(n)' = Upto(n)
    BY <1>2, <1>5, <2>2 DEF AckSteady
  <2> QED
    BY <1>4, <2>1, <2>2
<1>10. ASSUME NEW s \in Snaps'
       PROVE  Replay(s, log')[f.id] = VersionOf(f) \/ f.hlc < Replay(s, log')[f.id].hlc
  <2> DEFINE b == Replay(s, log)
  <2>1. b \in [Keys -> Version] /\ Replay(s, log') = ApplyRecord(b, f)
    BY <1>5, <1>7
  <2> HIDE DEF b
  <2> QED
    BY <1>1, <2>1, ApplyEach
<1>11. Covers(acked', mem')
  BY <1>2, <1>3
<1> QED
  BY <1>2, <1>9, <1>10, <1>11 DEF AckSteady

LEMMA AckSteadyApply ==
    ASSUME Typed, LogSteady, AckSteady, ~setup.batch, UNCHANGED setup, WriteApply
    PROVE  AckSteady'
<1> USE TypedFacts
<1> DEFINE m == [mem EXCEPT ![op.id] = VersionOf(op)]
<1>1. op \in Frame /\ op.id \in Keys /\ mem[op.id].hlc < op.hlc /\ VersionOf(op).hlc = op.hlc
  BY DEF WriteApply, CallSteady, Frame, VersionOf
<1>2. /\ mem' = m /\ pc = "apply" /\ pc' \in {"idle", "snapflush"}
      /\ UNCHANGED <<log, written, synced, dirty, snap, snapSafe>>
      /\ acked' = acked \/ acked' = [acked EXCEPT ![op.id] = m[op.id]]
  BY DEF WriteApply, Acknowledge
<1>3. VersionOf(op) \in Version /\ op.hlc \in Nat
  BY <1>1, ApplyTyped, ApplyEach
<1>4. m \in [Keys -> Version] /\ m[op.id] = VersionOf(op) /\ \A k \in Keys : k # op.id => m[k] = mem[k]
  BY <1>1, <1>3
<1> HIDE DEF m
<1>5. Keeps = {Whole} /\ Upto(Whole) = log
  BY <1>2, WholeIs DEF LogSteady
<1>6. Keeps' \subseteq Keeps /\ (\A n : Upto(n)' = Upto(n)) /\ Snaps' = Snaps
  BY <1>2, CalmKeeps DEF Upto, Snaps
<1>7. Covers(acked, m)
  <2>1. Covers(acked, mem)
    BY <1>2 DEF AckSteady
  <2>2. \A k \in Keys : acked[k].hlc \in Nat /\ mem[k].hlc \in Nat
    BY HlcType
  <2> QED
    BY <1>1, <1>3, <1>4, <2>1, <2>2 DEF Covers
<1>8. \A c \in [Keys -> Version] : Covers(m, c) => Covers(acked', c)
  <2>1. SUFFICES ASSUME NEW c \in [Keys -> Version], Covers(m, c)
                 PROVE  Covers(acked', c)
    OBVIOUS
  <2>2. Covers(acked, c)
    BY <1>4, <1>7, <2>1, CoversTransitive
  <2> QED
    BY <1>1, <1>2, <2>1, <2>2 DEF Covers
<1>9. ASSUME NEW s \in Snaps
      PROVE  Covers(m, Replay(s, log)) /\ Covers(Replay(snap, log), Replay(s, log))
             /\ Replay(s, log) \in [Keys -> Version]
  <2>1. Covers(mem, Replay(s, log)) /\ Covers(Replay(snap, log), Replay(s, log))
    BY <1>2, <1>5 DEF AckSteady
  <2>2. Replay(s, log)[op.id] = VersionOf(op) \/ op.hlc < Replay(s, log)[op.id].hlc
    BY <1>2 DEF AckSteady
  <2>3. Replay(s, log) \in [Keys -> Version]
    BY SnapsIs, ReplayTyped
  <2> QED
    BY <1>1, <1>4, <2>1, <2>2, <2>3 DEF Covers
<1>10. Covers(acked', mem')
  BY <1>2, <1>4, <1>8, CoversReflexive
<1>11. ASSUME NEW s \in Snaps', NEW n \in Keeps'
       PROVE  /\ Covers(acked', Replay(s, Upto(n)'))
              /\ Covers(mem', Replay(s, Upto(n)'))
              /\ Covers(Replay(snap', Upto(n)'), Replay(s, Upto(n)'))
  <2>1. s \in Snaps /\ Upto(n)' = log
    BY <1>5, <1>6
  <2> QED
    BY <1>2, <1>8, <1>9, <2>1
<1> QED
  BY <1>2, <1>10, <1>11 DEF AckSteady

LEMMA AckSteadyRename ==
    ASSUME Typed, LogSteady, AckSteady, UNCHANGED setup, SnapRename
    PROVE  AckSteady'
<1> USE TypedFacts
<1> DEFINE sn == [off |-> len, mem |-> mem]
<1>1. /\ snap' = sn /\ pc = "snapwrite" /\ pc' = "snapsync"
      /\ UNCHANGED <<mem, log, written, synced, snapSafe, acked>>
  BY DEF SnapRename
<1>2. sn \in Snapshots /\ sn.off = len /\ sn.mem = mem
  BY DEF Snapshots
<1> HIDE DEF sn
<1>3. EndOffset(log) = len /\ Keeps = {Whole} /\ Upto(Whole) = log
  BY <1>1, WholeIs DEF LogSteady
<1>4. Replay(sn, log) = mem
  BY <1>2, <1>3, ReplayCovered
<1>5. Keeps' \subseteq Keeps /\ (\A n : Upto(n)' = Upto(n))
  BY <1>1, CalmKeeps DEF Upto
<1>6. \A s \in Snaps' : s = sn \/ s \in Snaps
  BY <1>1 DEF Snaps
<1>7. Covers(acked, mem) /\ \A s \in Snaps : Covers(acked, Replay(s, log)) /\ Covers(mem, Replay(s, log))
  BY <1>1, <1>3 DEF AckSteady
<1>8. ASSUME NEW s \in Snaps', NEW n \in Keeps'
      PROVE  /\ Covers(acked', Replay(s, Upto(n)'))
             /\ Covers(mem', Replay(s, Upto(n)'))
             /\ Covers(Replay(snap', Upto(n)'), Replay(s, Upto(n)'))
  <2>1. Upto(n)' = log
    BY <1>3, <1>5
  <2>2. Covers(acked, Replay(s, log)) /\ Covers(mem, Replay(s, log))
    BY <1>4, <1>6, <1>7, CoversReflexive
  <2> QED
    BY <1>1, <1>4, <2>1, <2>2
<1> QED
  BY <1>1, <1>7, <1>8 DEF AckSteady

LEMMA AckSteadyNext ==
    ASSUME Typed, Lossless, LogSteady, AckSteady, [Next]_vars
    PROVE  AckSteady'
<1> USE TypedFacts
<1>0. Sound /\ ~setup.batch
  BY DEF Lossless, Sound
<1>1. CASE UNCHANGED vars
  BY <1>1 DEF vars, AckSteady, Snaps, Keeps, Safe, Whole, Upto
<1>2. ASSUME UNCHANGED setup, NEW k \in setup.keys, NEW h \in 1 .. MaxHlc, WriteStale(k, h)
      PROVE  AckSteady'
  <2>1. k \in Keys /\ acked' = [acked EXCEPT ![k] = mem[k]] /\ pc = "idle" /\ pc' = "idle"
        /\ UNCHANGED <<mem, log, written, synced, snap, snapSafe>>
    BY <1>2 DEF WriteStale, Acknowledge
  <2>2. Snaps' = Snaps
    BY <1>2, <2>1 DEF Snaps
  <2>3. \E i \in Keys : acked' = [acked EXCEPT ![i] = mem[i]]
    BY <2>1
  <2>4. synced <= synced' /\ written <= written' /\ synced' \in Nat /\ written' \in Nat
    BY <2>1
  <2>5. pc # "down" /\ pc' \notin {"flush", "apply"} /\ UNCHANGED <<setup, log, mem, snap>>
    BY <1>2, <2>1
  <2> QED
    BY <2>2, <2>3, <2>4, <2>5, AckSteadyCalm
<1>3. ASSUME UNCHANGED setup, NEW k \in setup.keys, NEW h \in 1 .. MaxHlc, NEW v \in Payloads,
             WriteAppend(k, h, v)
      PROVE  AckSteady'
  BY <1>3, AckSteadyAppend
<1>4. ASSUME UNCHANGED setup, WriteFlush \/ SnapFlush \/ FlushNow
      PROVE  AckSteady'
  <2>1. /\ Flush /\ UNCHANGED <<op, mem, log, snap, snapSafe, acked>> /\ pc # "down"
        /\ pc' \in {"flush", "apply"} => pc \in {"flush", "apply"}
    BY <1>4 DEF WriteFlush, SnapFlush, FlushNow
  <2>2. synced <= synced' /\ written <= written' /\ synced' \in Nat /\ written' \in Nat
    BY <2>1, FlushTyped
  <2>3. Snaps' = Snaps
    BY <1>4, <2>1 DEF Snaps
  <2> QED
    BY <1>4, <2>1, <2>2, <2>3, AckSteadyCalm
<1>5. ASSUME UNCHANGED setup, WriteApply
      PROVE  AckSteady'
  BY <1>0, <1>5, AckSteadyApply
<1>6. ASSUME UNCHANGED setup, SnapshotNow \/ FlushFails \/ SnapshotFails
      PROVE  AckSteady'
  <2>1. /\ UNCHANGED <<mem, log, written, synced, snap, snapSafe, acked>> /\ pc # "down"
        /\ pc' \in {"idle", "snapflush"}
    BY <1>6 DEF SnapshotNow, FlushFails, SnapshotFails
  <2>2. Snaps' = Snaps
    BY <1>6, <2>1 DEF Snaps
  <2> QED
    BY <1>6, <2>1, <2>2, AckSteadyCalm
<1>7. ASSUME UNCHANGED setup, SnapRename
      PROVE  AckSteady'
  BY <1>7, AckSteadyRename
<1>8. ASSUME UNCHANGED setup, SnapSync
      PROVE  AckSteady'
  <2>1. UNCHANGED <<mem, log, written, synced, snap>> /\ pc = "snapsync" /\ pc' = "idle"
    BY <1>8 DEF SnapSync
  <2>2. Snaps' \subseteq Snaps
    BY <1>8 DEF SnapSync, Snaps
  <2>3. acked' = acked \/ \E k \in Keys : acked' = [acked EXCEPT ![k] = mem[k]]
    <3>1. CASE op = NoOp
      BY <1>8, <3>1 DEF SnapSync
    <3>2. CASE op # NoOp
      <4>1. op.id \in Keys /\ acked' = [acked EXCEPT ![op.id] = mem[op.id]]
        BY <1>8, <3>2 DEF SnapSync, Acknowledge, Frame
      <4> QED
        BY <4>1
    <3> QED
      BY <3>1, <3>2
  <2> QED
    BY <1>8, <2>1, <2>2, <2>3, AckSteadyCalm
<1>9. ASSUME UNCHANGED setup, Crash \/ Shutdown
      PROVE  AckSteady'
  <2>1. /\ Whole' \in Keeps /\ Keeps' = {Whole'} /\ pc' = "down" /\ UNCHANGED acked
        /\ SubSeq(log', 1, Whole') = SubSeq(log, 1, Whole') /\ Snaps' \subseteq Snaps
        /\ Snaps' = {snap'} \/ UNCHANGED snap
    BY <1>0, <1>9, CrashKeeps
  <2>2. ASSUME NEW s \in Snaps', NEW n \in Keeps'
        PROVE  /\ Covers(acked', Replay(s, Upto(n)'))
               /\ Covers(Replay(snap', Upto(n)'), Replay(s, Upto(n)'))
    <3>1. s \in Snaps /\ n \in Keeps /\ Upto(n)' = Upto(n)
      BY <2>1 DEF Upto
    <3>2. Covers(acked, Replay(s, Upto(n))) /\ Covers(Replay(snap, Upto(n)), Replay(s, Upto(n)))
      BY <3>1 DEF AckSteady
    <3>3. s = snap' \/ snap' = snap
      BY <2>1
    <3> QED
      BY <2>1, <3>1, <3>2, <3>3, CoversReflexive
  <2> QED
    BY <2>1, <2>2 DEF AckSteady
<1>10. ASSUME UNCHANGED setup, Open
       PROVE  AckSteady'
  <2>1. /\ log' = Upto(Whole) /\ Keeps = {Whole} /\ Keeps' = {Len(log')}
        /\ SubSeq(log', 1, Len(log')) = log' /\ Snaps' = Snaps
    BY <1>0, <1>10, OpenKeeps
  <2>2. pc' = "idle" /\ mem' = Replay(snap, log') /\ UNCHANGED <<snap, acked>>
    BY <1>10 DEF Open
  <2>3. \A s \in Snaps : /\ Covers(acked, Replay(s, log'))
                         /\ Covers(Replay(snap, log'), Replay(s, log'))
    BY <2>1 DEF AckSteady
  <2>4. snap \in Snaps
    BY SnapsIs
  <2>5. ASSUME NEW s \in Snaps', NEW n \in Keeps'
        PROVE  /\ Covers(acked', Replay(s, Upto(n)'))
               /\ Covers(mem', Replay(s, Upto(n)'))
               /\ Covers(Replay(snap', Upto(n)'), Replay(s, Upto(n)'))
    <3>1. s \in Snaps /\ Upto(n)' = log'
      BY <2>1 DEF Upto
    <3> QED
      BY <2>2, <2>3, <3>1
  <2>6. Covers(acked', mem')
    BY <2>2, <2>3, <2>4
  <2> QED
    BY <2>2, <2>5, <2>6 DEF AckSteady
<1>11. (\A k, h, v : ~AppendFails(k, h, v)) /\ \A i : ~BitRot(i)
  BY <1>0 DEF AppendFails, BitRot, Sound
<1>12. CASE Next
  BY <1>2, <1>3, <1>4, <1>5, <1>6, <1>7, <1>8, <1>9, <1>10, <1>11, <1>12 DEF Next, Write
<1> QED
  BY <1>1, <1>12

-----------------------------------------------------------------------------
(* The durable map.                                                        *)

LEMMA PromiseIs ==
    ASSUME PromisesMap
    PROVE  /\ Sound /\ WholeAppends /\ Lossless /\ ~setup.batch
           /\ Safe = synced /\ Snaps = {snap, snapSafe}
           /\ ~FlushFails /\ (\A k, h, v : ~AppendFails(k, h, v)) /\ \A i : ~BitRot(i)
           /\ \A n, torn : ~Kill(n, torn)
<1>1. Sound /\ WholeAppends /\ Lossless /\ ~setup.batch
  BY DEF PromisesMap, Lossless, Sound
<1>2. Safe = synced /\ Snaps = {snap, snapSafe}
  BY DEF PromisesMap, Safe, Snaps
<1>3. ~FlushFails /\ (\A k, h, v : ~AppendFails(k, h, v)) /\ \A i : ~BitRot(i)
  BY <1>1 DEF WholeAppends, FlushFails, AppendFails, BitRot
<1>4. \A n, torn : ~Kill(n, torn)
  BY DEF PromisesMap, Kill
<1> QED
  BY <1>1, <1>2, <1>3, <1>4

LEMMA MapSteadyNext ==
    ASSUME Typed, PromisesMap, LogSteady, LiveSteady, MapSteady, [Next]_vars
    PROVE  MapSteady'
<1> USE TypedFacts, PromiseIs
<1>1. CASE UNCHANGED vars
  BY <1>1 DEF vars, MapSteady, Snaps, Upto
<1>2. ASSUME UNCHANGED setup, NEW k \in setup.keys, NEW h \in 1 .. MaxHlc, NEW v \in Payloads,
             WriteAppend(k, h, v)
      PROVE  MapSteady'
  <2> DEFINE f == Record(k, h, v)
  <2>1. f \in Frame
    BY RecordTyped
  <2>2. /\ log' = Append(log, f) /\ pc = "idle" /\ pc' = "flush"
        /\ UNCHANGED <<mem, synced, snap, snapSafe>>
    BY <1>2 DEF WriteAppend
  <2> HIDE DEF f
  <2>3. synced = Len(log) /\ Len(log') = Len(log) + 1
    BY <2>1, <2>2, AppendProperties DEF MapSteady, LogSteady
  <2>4. Upto(synced)' = log
    <3>1. Len(log) \in 0 .. Len(log)
      OBVIOUS
    <3>2. SubSeq(Append(log, f), 1, Len(log)) = SubSeq(log, 1, Len(log))
      BY <2>1, <3>1, ReplayAppend
    <3>3. SubSeq(log, 1, Len(log)) = log
      BY WholePrefix
    <3> QED
      BY <2>2, <2>3, <3>2, <3>3 DEF Upto
  <2>5. Snaps' = Snaps /\ \A s \in Snaps : Replay(s, log) = mem
    BY <1>2, <2>2 DEF Snaps, LiveSteady
  <2> QED
    BY <2>2, <2>3, <2>4, <2>5 DEF MapSteady
<1>3. ASSUME pc' # "flush", dirty' = dirty \/ dirty' = FALSE, pc # "flush"
      PROVE  MapSteady'
  BY <1>3 DEF MapSteady
<1>4. ASSUME UNCHANGED setup, NEW k \in setup.keys, NEW h \in 1 .. MaxHlc, WriteStale(k, h)
      PROVE  MapSteady'
  BY <1>3, <1>4 DEF WriteStale
<1>5. CASE WriteFlush
  BY <1>5 DEF WriteFlush, Flush, MapSteady
<1>6. CASE WriteApply
  BY <1>3, <1>6 DEF WriteApply
<1>7. CASE SnapshotNow \/ SnapRename \/ SnapSync \/ SnapshotFails
  BY <1>3, <1>7 DEF SnapshotNow, SnapRename, SnapSync, SnapshotFails
<1>8. CASE SnapFlush \/ FlushNow
  BY <1>3, <1>8 DEF SnapFlush, FlushNow, Flush
<1>9. CASE Crash \/ Shutdown
  BY <1>9 DEF Crash, PowerLoss, Shutdown, Halt, MapSteady
<1>10. CASE Open
  BY <1>10 DEF Open, MapSteady
<1>11. CASE Next
  BY <1>2, <1>4, <1>5, <1>6, <1>7, <1>8, <1>9, <1>10, <1>11 DEF Next, Write
<1> QED
  BY <1>1, <1>11

LEMMA IInvInit == Init => IInv
  BY TypedInit, LogSteadyInit, AckSteadyInit, LiveSteadyInit DEF IInv, MapSteady, Init

LEMMA IInvNext == IInv /\ [Next]_vars => IInv'
<1> SUFFICES ASSUME IInv, [Next]_vars
             PROVE  IInv'
  OBVIOUS
<1>1. UNCHANGED setup
  BY DEF Next, vars
<1>2. /\ (Sound' => Sound) /\ (Lossless' => Lossless)
      /\ (WholeAppends' => WholeAppends) /\ (PromisesMap' => PromisesMap)
  BY <1>1 DEF Sound, Lossless, WholeAppends, PromisesMap
<1>3. (Lossless => Sound) /\ (PromisesMap => Sound /\ WholeAppends)
  BY PromiseIs DEF Lossless, Sound
<1>4. Typed'
  BY TypedNext DEF IInv
<1>5. Sound' => LogSteady'
  BY LogNext DEF IInv
<1>6. Lossless' => AckSteady'
  BY <1>2, <1>3, AckSteadyNext DEF IInv
<1>7. WholeAppends' /\ Sound' => LiveSteady'
  BY <1>2, LiveSteadyNext DEF IInv
<1>8. PromisesMap' => MapSteady'
  BY <1>2, <1>3, MapSteadyNext DEF IInv
<1> QED
  BY <1>4, <1>5, <1>6, <1>7, <1>8 DEF IInv

\* Reopening the shard would rebuild exactly what it serves, for any log and any
\* number of snapshots, crashes and failed snapshots, as long as no append fails
\* and power losses do not follow kills: the record order in the WAL, the image
\* of the snapshot and its byte offset agree.
THEOREM LiveStaysReplay == Spec => []LiveIsReplay
<1>1. IInv => LiveIsReplay
  <2> SUFFICES ASSUME IInv, WholeAppends, setup.crashes # CrashKinds,
                      pc \in {"idle", "snapflush", "snapwrite", "snapsync"}
               PROVE  Recovered(snap, log) = mem
    BY DEF LiveIsReplay
  <2>1. Sound /\ Typed /\ LogSteady /\ LiveSteady
    BY DEF IInv, Sound, WholeAppends
  <2>2. snap \in Snaps /\ Recovered(snap, log) = Replay(snap, log)
    BY <2>1, SnapsIs, RecoveredWhole
  <2> QED
    BY <2>1, <2>2 DEF LiveSteady
<1> QED
  BY <1>1, IInvInit, IInvNext, PTL DEF Spec

\* No acknowledged write is lost when every append is fsynced: through any
\* number of kills or of power losses, failed flushes, failed snapshots and
\* recoveries, and for any log, the shard serves the version last acknowledged
\* for each id or a newer one.
THEOREM AckedStaysDurable == Spec => []AckedDurable
<1>1. IInv => AckedDurable
  BY DEF IInv, AckSteady, AckedDurable, Covers
<1> QED
  BY <1>1, IInvInit, IInvNext, PTL DEF Spec

\* What the shard promises to keep: the versions it serves, the record being
\* stored once it is synced, and while it is down what opening it gives.
View ==
    IF pc = "down" THEN Replay(snap, Upto(Whole))
    ELSE IF pc = "apply" THEN [mem EXCEPT ![op.id] = VersionOf(op)]
    ELSE mem

\* The refinement mapping is that view.
Mapped == PromisesMap => Stable = View

LEMMA StableIs == IInv /\ PromisesMap => Stable = View
<1> SUFFICES ASSUME IInv, PromisesMap
             PROVE  Stable = View
  OBVIOUS
<1>0. Typed /\ LogSteady /\ LiveSteady /\ MapSteady
  BY PromiseIs DEF IInv
<1> USE <1>0, TypedFacts, PromiseIs, SafeIs
<1>1. Stable = Replay(snapSafe, IntactPrefix(SubSeq(log, 1, synced)))
  BY DEF Stable, Recovered
<1>2. Whole \in 0 .. Len(log) /\ IntactUpTo(log, Whole)
  BY WholeIs
<1>3. CASE pc = "down"
  <2>1. synced = Len(log) /\ SubSeq(log, 1, synced) = log
    BY <1>3, WholePrefix DEF LogSteady
  <2>2. IntactPrefix(log) = Upto(Whole)
    BY <1>2, IntactPrefixIs DEF Upto
  <2> QED
    BY <1>1, <1>3, <2>1, <2>2 DEF LiveSteady, View
<1>4. ASSUME pc # "down"
      PROVE  IntactPrefix(SubSeq(log, 1, synced)) = SubSeq(log, 1, synced)
  <2> DEFINE p == SubSeq(log, 1, synced)
  <2>1. synced \in 0 .. Len(log)
    OBVIOUS
  <2>2. p \in Seq(Frame) /\ Len(p) = synced /\ \A i \in 1 .. synced : p[i] = log[i]
    BY <2>1, PrefixFrames
  <2>3. \A i \in 1 .. synced : i \in 1 .. Len(log)
    OBVIOUS
  <2>4. \A i \in 1 .. Len(log) : log[i].intact
    BY <1>4 DEF LogSteady
  <2> HIDE DEF p
  <2>5. IntactUpTo(p, synced) /\ synced \in 0 .. Len(p)
    <3>1. \A i \in 1 .. synced : p[i].intact
      BY <2>2, <2>3, <2>4
    <3>2. synced = Len(p) /\ synced \in 0 .. Len(p)
      BY <2>2
    <3> QED
      BY <3>1, <3>2 DEF IntactUpTo
  <2>6. IntactPrefix(p) = SubSeq(p, 1, synced)
    BY <2>2, <2>5, IntactPrefixIs
  <2>7. SubSeq(p, 1, synced) = p
    BY <2>2, WholePrefix
  <2> QED
    BY <2>6, <2>7 DEF p
<1>5. CASE pc = "flush"
  BY <1>1, <1>4, <1>5 DEF MapSteady, Upto, View
<1>6. CASE pc \notin {"down", "flush"}
  <2>1. synced = Len(log) /\ SubSeq(log, 1, synced) = log
    BY <1>6, WholePrefix DEF LogSteady, MapSteady
  <2>2. pc \in {"idle", "apply", "snapflush", "snapwrite", "snapsync"}
    BY <1>6 DEF TypeOK
  <2> QED
    BY <1>1, <1>4, <1>6, <2>1, <2>2 DEF LiveSteady, View
<1> QED
  BY <1>3, <1>5, <1>6

\* A step of the map, or one that leaves it alone, on a view of it.
MapStep(a, b, x, y) ==
    \/ b = a /\ y = x
    \/ \E k \in Keys : b = a /\ y = [x EXCEPT ![k] = a[k]]
    \/ \E k \in Keys, v \in Version : a[k].hlc < v.hlc /\ b = [a EXCEPT ![k] = v] /\ y = x

\* A crash takes away at most the record whose append was in progress.
LEMMA CrashMaps ==
    ASSUME Typed, PromisesMap, LogSteady, LiveSteady, MapSteady, UNCHANGED setup, Crash \/ Shutdown
    PROVE  MapStep(View, View', acked, acked')
<1> USE TypedFacts, PromiseIs, SafeIs
<1>1. /\ pc' = "down" /\ Whole' \in Keeps /\ snap' \in Snaps /\ UNCHANGED acked
      /\ SubSeq(log', 1, Whole') = SubSeq(log, 1, Whole')
  BY CrashKeeps
<1>2. View' = Replay(snap', Upto(Whole'))
  BY <1>1 DEF View, Upto
<1>3. CASE pc = "down"
  <2>1. Whole' = Whole
    BY <1>1, <1>3, WholeIs
  <2>2. View' = View
    BY <1>1, <1>2, <1>3, <2>1 DEF View, LiveSteady
  <2> QED
    BY <1>1, <2>2 DEF MapStep
<1>4. CASE pc \notin {"down", "flush"}
  <2>1. Keeps = {Whole} /\ Upto(Whole) = log
    BY <1>4, WholeIs DEF MapSteady
  <2>2. pc \in {"idle", "apply", "snapflush", "snapwrite", "snapsync"}
    BY <1>4 DEF TypeOK
  <2>3. View' = Replay(snap', log)
    BY <1>1, <1>2, <2>1
  <2>4. View' = View
    BY <1>1, <2>2, <2>3 DEF View, LiveSteady
  <2> QED
    BY <1>1, <2>4 DEF MapStep
<1>5. CASE pc = "flush"
  <2>1. View = mem /\ Len(log) = synced + 1 /\ Whole = Len(log) /\ Upto(Whole) = log
    BY <1>5, WholeIs DEF View, MapSteady
  <2>2. Whole' \in 0 .. Len(log) /\ (Whole' >= synced \/ Whole' = Len(log))
    BY <1>1, <2>1 DEF Keeps
  <2>3. Whole' = synced \/ Whole' = Len(log)
    BY <2>1, <2>2
  <2>4. CASE Whole' = synced
    <3>1. View' = mem
      BY <1>1, <1>2, <1>5, <2>4 DEF MapSteady
    <3> QED
      BY <1>1, <2>1, <3>1 DEF MapStep
  <2>5. CASE Whole' = Len(log)
    <3>1. View' = [mem EXCEPT ![op.id] = VersionOf(op)]
      BY <1>1, <1>2, <1>5, <2>1, <2>5 DEF LiveSteady
    <3>2. op \in Frame /\ mem[op.id].hlc < op.hlc
      BY <1>5 DEF CallSteady
    <3>3. op.id \in Keys /\ VersionOf(op).hlc = op.hlc /\ VersionOf(op) \in Version
      BY <3>2, ApplyEach, ApplyTyped
    <3> QED
      BY <1>1, <2>1, <3>1, <3>2, <3>3 DEF MapStep
  <2> QED
    BY <2>3, <2>4, <2>5
<1> QED
  BY <1>3, <1>4, <1>5

LEMMA StepMaps ==
    ASSUME IInv, PromisesMap, [Next]_vars
    PROVE  MapStep(View, View', acked, acked')
<1>0. Typed /\ LogSteady /\ LiveSteady /\ MapSteady
  BY PromiseIs DEF IInv
<1> USE <1>0, TypedFacts, PromiseIs
<1>1. CASE UNCHANGED vars
  BY <1>1 DEF vars, View, Upto, Whole, MapStep
<1>2. ASSUME NEW k \in setup.keys, NEW h \in 1 .. MaxHlc, WriteStale(k, h)
      PROVE  MapStep(View, View', acked, acked')
  <2>1. View = mem /\ View' = mem /\ acked' = [acked EXCEPT ![k] = mem[k]] /\ k \in Keys
    BY <1>2 DEF WriteStale, View, Acknowledge
  <2> QED
    BY <2>1 DEF MapStep
<1>3. ASSUME NEW k \in setup.keys, NEW h \in 1 .. MaxHlc, NEW v \in Payloads, WriteAppend(k, h, v)
      PROVE  MapStep(View, View', acked, acked')
  BY <1>3 DEF WriteAppend, View, MapStep
<1>4. ASSUME op \in Frame, mem[op.id].hlc < op.hlc
      PROVE  op.id \in Keys /\ VersionOf(op).hlc = op.hlc /\ VersionOf(op) \in Version
  BY <1>4, ApplyEach, ApplyTyped
<1>5. CASE WriteFlush
  <2>1. View = mem /\ View' = [mem EXCEPT ![op.id] = VersionOf(op)] /\ UNCHANGED acked
    BY <1>5 DEF WriteFlush, View
  <2>2. op \in Frame /\ mem[op.id].hlc < op.hlc
    BY <1>5 DEF WriteFlush, CallSteady
  <2> QED
    BY <1>4, <2>1, <2>2 DEF MapStep
<1>6. CASE WriteApply
  <2> DEFINE m == [mem EXCEPT ![op.id] = VersionOf(op)]
  <2>1. View = m /\ View' = m
    BY <1>6 DEF WriteApply, View
  <2>2. acked' = acked \/ acked' = [acked EXCEPT ![op.id] = m[op.id]]
    BY <1>6 DEF WriteApply, Acknowledge
  <2>3. op.id \in Keys
    BY <1>4, <1>6 DEF WriteApply, CallSteady
  <2> HIDE DEF m
  <2> QED
    BY <2>1, <2>2, <2>3 DEF MapStep
<1>7. CASE SnapshotNow \/ SnapFlush \/ SnapRename \/ SnapshotFails \/ FlushNow
  <2>1. View = mem /\ View' = mem /\ UNCHANGED acked
    BY <1>7 DEF SnapshotNow, SnapFlush, SnapRename, SnapshotFails, FlushNow, View
  <2> QED
    BY <2>1 DEF MapStep
<1>8. CASE SnapSync
  <2>1. View = mem /\ View' = mem
    BY <1>8 DEF SnapSync, View
  <2>2. CASE op = NoOp
    BY <1>8, <2>1, <2>2 DEF SnapSync, MapStep
  <2>3. CASE op # NoOp
    <3>1. op.id \in Keys /\ acked' = [acked EXCEPT ![op.id] = mem[op.id]]
      BY <1>8, <2>3 DEF SnapSync, Acknowledge, Frame
    <3> QED
      BY <2>1, <3>1 DEF MapStep
  <2> QED
    BY <2>2, <2>3
<1>9. CASE Next /\ (Crash \/ Shutdown)
  BY <1>9, CrashMaps DEF Next
<1>10. CASE Next /\ Open
  <2>1. log' = Upto(Whole)
    BY <1>10, OpenKeeps DEF Next
  <2>2. View = Replay(snap, Upto(Whole)) /\ View' = Replay(snap, log') /\ UNCHANGED acked
    BY <1>10 DEF Open, View
  <2> QED
    BY <2>1, <2>2 DEF MapStep
<1>11. CASE Next
  BY <1>2, <1>3, <1>5, <1>6, <1>7, <1>8, <1>9, <1>10, <1>11 DEF Next, Write
<1> QED
  BY <1>1, <1>11

\* A setup that does not promise a map maps to one that never changes.
LEMMA MapNext ==
    ASSUME IInv, IInv', PromisesMap' => Stable' = View', [Next]_vars
    PROVE  [DurableMap!Next]_<<Stable, Promised>>
<1>1. PromisesMap' <=> PromisesMap
  <2>1. UNCHANGED setup
    BY DEF Next, vars
  <2> QED
    BY <2>1 DEF PromisesMap, Lossless, WholeAppends
<1>2. CASE ~PromisesMap
  BY <1>1, <1>2 DEF Stable, Promised
<1>3. CASE PromisesMap
  <2>1. Stable = View /\ Stable' = View' /\ Promised = acked /\ Promised' = acked'
    BY <1>1, <1>3, StableIs DEF Promised
  <2>2. MapStep(Stable, Stable', Promised, Promised')
    BY <1>3, <2>1, StepMaps
  <2>3. DurableMap!Version = Version
    BY DEF DurableMap!Version, Version, DurableMap!NoVersion, NoVersion
  <2>4. CASE Stable' = Stable /\ Promised' = Promised
    BY <2>4
  <2>5. ASSUME NEW k \in Keys, Stable' = Stable, Promised' = [Promised EXCEPT ![k] = Stable[k]]
        PROVE  DurableMap!Next
    BY <2>5 DEF DurableMap!Next, DurableMap!Ack
  <2>6. ASSUME NEW k \in Keys, NEW v \in Version, Stable[k].hlc < v.hlc,
               Stable' = [Stable EXCEPT ![k] = v], Promised' = Promised
        PROVE  DurableMap!Next
    BY <2>3, <2>6 DEF DurableMap!Next, DurableMap!Write
  <2> QED
    BY <2>2, <2>4, <2>5, <2>6 DEF MapStep
<1> QED
  BY <1>2, <1>3

LEMMA MapInit == Init => DurableMap!Init
<1> SUFFICES ASSUME Init
             PROVE  DurableMap!Init
  OBVIOUS
<1>1. NoSnapshot.mem = [k \in Keys |-> DurableMap!NoVersion]
  BY DEF NoSnapshot, NoVersion, DurableMap!NoVersion
<1>2. Stable = NoSnapshot.mem /\ Promised = NoSnapshot.mem
  <2>1. PromisesMap => Stable = View
    BY IInvInit, StableIs
  <2>2. View = NoSnapshot.mem /\ acked = NoSnapshot.mem
    BY DEF Init, View
  <2> QED
    BY <2>1, <2>2 DEF Stable, Promised
<1> QED
  BY <1>1, <1>2 DEF DurableMap!Init

\* The shard is a durable last-writer-wins map wherever it promises one: every
\* step of its code, the crash and recovery steps included, is one atomic write
\* of a newer version, one acknowledgement of what is durable, or no step of the
\* map at all.
THEOREM ShardImplementsDurableMap == Spec => ImplementsDurableMap
<1>1. IInv => Mapped
  BY StableIs DEF Mapped
<1>2. IInv /\ IInv' /\ Mapped' /\ [Next]_vars => [DurableMap!Next]_(DurableMap!vars)
  BY MapNext DEF Mapped, DurableMap!vars
<1> QED
  BY <1>1, <1>2, MapInit, IInvInit, IInvNext, PTL DEF Spec, ImplementsDurableMap, DurableMap!Spec
=============================================================================
