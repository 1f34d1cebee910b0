--------------------------- MODULE HintLogProofs ---------------------------
(***************************************************************************)
(* Theorems about the hint file, for any number of hints, frames, passes,  *)
(* crashes and failed appends.                                             *)
(***************************************************************************)
EXTENDS HintLog, SequenceTheorems, FiniteSetTheorems, TLAPS

-----------------------------------------------------------------------------
(* The inductive invariant.                                                *)

\* Who holds the lock, and what the file and the kept hints look like then: an
\* append waits for its fsync with its frame at the end of the file, and the
\* frames that were there before the pass leave room for the kept hints.
LockSteady ==
    /\ pc \in {"append", "reappend"} =>
          cur \in Hints /\ synced < Len(file) /\ file[Len(file)] = Encoded(cur)
    /\ pc \in {"rewrite", "reappend"} => keep # <<>> /\ ~passing
    /\ pc = "rewrite" => Len(file) + Len(keep) <= MaxFrames
    /\ pc = "reappend" => cur = Head(keep) /\ Len(file) + Len(keep) <= MaxFrames + 1
    /\ pc \in {"free", "append"} /\ ~passing => keep = <<>>
    /\ IF passing THEN Len(taken) + Len(keep) <= MaxFrames ELSE taken = <<>>

Typed == TypeOK /\ LockSteady

\* The hints of the frames in the file.
Written == {file[i].hint : i \in 1 .. Len(file)}

\* What a rewrite has still to append.
Unwritten == IF pc \in {"rewrite", "reappend"} THEN Range(keep) ELSE {}

\* Without failures every frame is whole, a pass has taken all the hints that
\* were in the file when it began, and the file has them until it is removed.
Unharmed ==
    failures = 0 =>
        /\ \A i \in 1 .. Len(file) : file[i].intact
        /\ passing => owed \ late \subseteq Range(taken) \cup Range(keep)
        /\ owed \ late \subseteq Written \cup Unwritten

IInv == Typed /\ AckedOnDisk /\ Unharmed

-----------------------------------------------------------------------------
(* Facts about sequences of frames.                                        *)

LEMMA FrameType ==
    ASSUME NEW h \in Hints
    PROVE  /\ Encoded(h) \in Frame /\ Torn(h) \in Frame
           /\ Encoded(h).hint = h /\ Encoded(h).intact
  BY DEF Encoded, Torn, Frame

LEMMA AppendFrame ==
    ASSUME NEW S, NEW s \in Seq(S), NEW e \in S
    PROVE  /\ Append(s, e) \in Seq(S) /\ Len(Append(s, e)) = Len(s) + 1
           /\ \A i \in 1 .. Len(s) : Append(s, e)[i] = s[i]
           /\ Append(s, e)[Len(s) + 1] = e
  BY AppendProperties

LEMMA PrefixFrames ==
    ASSUME NEW S, NEW s \in Seq(S), NEW n \in 0 .. Len(s)
    PROVE  /\ SubSeq(s, 1, n) \in Seq(S) /\ Len(SubSeq(s, 1, n)) = n
           /\ \A i \in 1 .. n : SubSeq(s, 1, n)[i] = s[i]
<1>1. /\ 1 \in Int /\ n \in Int /\ Len(s) \in Nat
      /\ \A i \in 1 .. n : s[i] \in S
  BY LenProperties, ElementOfSeq
<1>2. /\ SubSeq(s, 1, n) \in Seq(S)
      /\ Len(SubSeq(s, 1, n)) = IF 1 <= n THEN n - 1 + 1 ELSE 0
      /\ \A i \in 1 .. n - 1 + 1 : SubSeq(s, 1, n)[i] = s[1 + i - 1]
  BY <1>1, SubSeqProperties
<1> QED
  BY <1>1, <1>2

\* What follows the frames up to n, when at most one more frame comes after them.
LEMMA PrefixThenOne ==
    ASSUME NEW s \in Seq(Frame), NEW n \in 0 .. Len(s), NEW t \in Seq(Frame), Len(t) <= 1
    PROVE  /\ SubSeq(s, 1, n) \o t \in Seq(Frame)
           /\ Len(SubSeq(s, 1, n) \o t) = n + Len(t)
           /\ \A i \in 1 .. n : (SubSeq(s, 1, n) \o t)[i] = s[i]
<1> DEFINE p == SubSeq(s, 1, n)
<1>1. p \in Seq(Frame) /\ Len(p) = n /\ \A i \in 1 .. n : p[i] = s[i]
  BY PrefixFrames
<1> HIDE DEF p
<1>2. /\ p \o t \in Seq(Frame) /\ Len(p \o t) = Len(p) + Len(t)
      /\ \A i \in 1 .. Len(p) + Len(t) : (p \o t)[i] = IF i <= Len(p) THEN p[i] ELSE t[i - Len(p)]
  BY <1>1, ConcatProperties
<1>3. n \in Nat /\ Len(t) \in Nat /\ Len(s) \in Nat
  BY LenProperties
<1>4. \A i \in 1 .. n : i \in 1 .. Len(p) + Len(t) /\ i <= Len(p)
  BY <1>1, <1>3
<1> QED
  BY <1>1, <1>2, <1>4 DEF p

LEMMA HeadAndTail ==
    ASSUME NEW s \in Seq(Hints), s # <<>>
    PROVE  /\ Head(s) \in Hints /\ Tail(s) \in Seq(Hints) /\ Len(Tail(s)) = Len(s) - 1
           /\ Len(s) \in Nat \ {0} /\ Range(s) \subseteq {Head(s)} \cup Range(Tail(s))
<1>1. /\ Head(s) \in Hints /\ Tail(s) \in Seq(Hints) /\ Len(Tail(s)) = Len(s) - 1
      /\ \A i \in 1 .. Len(Tail(s)) : Tail(s)[i] = s[i + 1]
  BY HeadTailProperties
<1>2. Len(s) \in Nat \ {0} /\ DOMAIN s = 1 .. Len(s)
  BY EmptySeq, LenProperties
<1>3. Head(s) = s[1]
  OBVIOUS
<1>4. DOMAIN Tail(s) = 1 .. Len(Tail(s))
  BY <1>1, LenProperties
<1>5. ASSUME NEW i \in DOMAIN s
      PROVE  s[i] \in {Head(s)} \cup Range(Tail(s))
  <2>1. CASE i = 1
    BY <1>3, <2>1
  <2>2. CASE i # 1
    <3>1. i - 1 \in 1 .. Len(Tail(s)) /\ (i - 1) + 1 = i
      BY <1>1, <1>2, <2>2
    <3>2. Tail(s)[i - 1] = s[i]
      BY <1>1, <3>1
    <3> QED
      BY <1>4, <3>1, <3>2 DEF Range
  <2> QED
    BY <2>1, <2>2
<1> QED
  BY <1>1, <1>2, <1>5 DEF Range

LEMMA RangeAppend ==
    ASSUME NEW s \in Seq(Hints), NEW h \in Hints
    PROVE  Range(s) \cup {h} \subseteq Range(Append(s, h))
<1>1. /\ Append(s, h) \in Seq(Hints) /\ Len(Append(s, h)) = Len(s) + 1
      /\ \A i \in 1 .. Len(s) : Append(s, h)[i] = s[i]
      /\ Append(s, h)[Len(s) + 1] = h
  BY AppendFrame
<1>2. DOMAIN s = 1 .. Len(s) /\ Len(s) \in Nat
  BY LenProperties
<1>3. DOMAIN Append(s, h) = 1 .. Len(s) + 1
  BY <1>1, LenProperties
<1>4. Len(s) + 1 \in DOMAIN Append(s, h) /\ \A i \in DOMAIN s : i \in DOMAIN Append(s, h)
  BY <1>2, <1>3
<1> QED
  BY <1>1, <1>2, <1>4 DEF Range

\* read_all yields hints, no more than there are frames, and all of them when
\* every frame is whole.
LEMMA ReadAllYields ==
    ASSUME NEW frames \in Seq(Frame)
    PROVE  /\ ReadAll(frames) \in Seq(Hints) /\ Len(ReadAll(frames)) <= Len(frames)
           /\ (\A i \in 1 .. Len(frames) : frames[i].intact) =>
                 Range(ReadAll(frames)) = {frames[i].hint : i \in 1 .. Len(frames)}
<1> DEFINE good == {i \in DOMAIN frames : \A j \in 1 .. i : frames[j].intact}
           c == Cardinality(good)
           n == Len(frames)
<1>1. n \in Nat /\ DOMAIN frames = 1 .. n /\ \A i \in 1 .. n : frames[i] \in Frame
  BY LenProperties, ElementOfSeq
<1>2. IsFiniteSet(1 .. n) /\ Cardinality(1 .. n) = n
  <2>1. 1 \in Int /\ n \in Int
    BY <1>1
  <2> HIDE DEF n
  <2>2. IsFiniteSet(1 .. n) /\ Cardinality(1 .. n) = IF 1 > n THEN 0 ELSE n - 1 + 1
    BY <2>1, FS_Interval
  <2> QED
    BY <1>1, <2>2
<1>3. c \in Nat /\ c <= n
  <2>1. good \subseteq 1 .. n
    BY <1>1
  <2> HIDE DEF good
  <2>2. IsFiniteSet(good) /\ Cardinality(good) <= Cardinality(1 .. n)
    BY <1>2, <2>1, FS_Subset
  <2> QED
    BY <1>2, <2>2, FS_CardinalityType
<1>4. ReadAll(frames) = [i \in 1 .. c |-> frames[i].hint]
  BY DEF ReadAll
<1> HIDE DEF good, c, n
<1>5. \A i \in 1 .. c : frames[i].hint \in Hints
  BY <1>1, <1>3 DEF Frame
<1>6. ReadAll(frames) \in Seq(Hints) /\ Len(ReadAll(frames)) = c
  BY <1>3, <1>4, <1>5
<1>7. ASSUME \A i \in 1 .. n : frames[i].intact
      PROVE  Range(ReadAll(frames)) = {frames[i].hint : i \in 1 .. n}
  <2>1. good = 1 .. n
    BY <1>1, <1>7 DEF good
  <2>2. c = n
    BY <1>2, <2>1 DEF c
  <2> QED
    BY <1>4, <2>2 DEF Range
<1> QED
  BY <1>3, <1>6, <1>7 DEF n

-----------------------------------------------------------------------------
(* Every step keeps the invariant.                                         *)

LEMMA IInvInit == Init => IInv
<1> SUFFICES ASSUME Init
             PROVE  IInv
  OBVIOUS
<1>1. <<>> \in Seq(Frame) /\ <<>> \in Seq(Hints) /\ Len(<<>>) = 0
  BY EmptySeq
<1>2. TypeOK
  <2>1. 0 \in 0 .. 0 /\ 0 \in 0 .. MaxPasses /\ 0 \in 0 .. MaxFailures /\ 0 <= MaxFrames
    BY LimitsAssumption
  <2> QED
    BY <1>1, <2>1 DEF Init, TypeOK
<1>3. LockSteady
  BY DEF Init, LockSteady
<1>4. AckedOnDisk /\ owed \ late = {}
  BY DEF Init, AckedOnDisk
<1>5. 1 .. Len(file) = {}
  BY <1>1 DEF Init
<1> QED
  BY <1>2, <1>3, <1>4, <1>5 DEF IInv, Typed, Unharmed, Init

\* The frames that are not fsynced yet may change; the stable ones do not.
LEMMA StableFramesStay ==
    ASSUME Typed, AckedOnDisk, synced' \in Nat, synced <= synced', fresh' \subseteq fresh,
           \A i \in 1 .. synced : file'[i] = file[i]
    PROVE  AckedOnDisk'
<1>1. synced \in Nat
  BY DEF Typed, TypeOK
<1>2. \A i \in 1 .. synced : i \in 1 .. synced'
  BY <1>1
<1> QED
  BY <1>2 DEF AckedOnDisk

\* An append that returns has its frame in the stable part.
LEMMA AppendDoneIsStable ==
    ASSUME Typed, AckedOnDisk, pc \in {"append", "reappend"}, Flush, UNCHANGED file,
           fresh' = fresh \cup {cur}
    PROVE  AckedOnDisk'
<1>1. /\ synced \in Nat /\ Len(file) \in Nat /\ synced < Len(file) /\ synced' = Len(file)
      /\ file[Len(file)] = Encoded(cur)
  BY LenProperties DEF Typed, TypeOK, LockSteady, Flush
<1>2. \A i \in 1 .. synced : i \in 1 .. synced'
  BY <1>1
<1>3. \A h \in fresh : \E i \in 1 .. synced' : file'[i] = Encoded(h)
  BY <1>2 DEF AckedOnDisk
<1>4. Len(file) \in 1 .. synced' /\ file'[Len(file)] = Encoded(cur)
  BY <1>1
<1> QED
  BY <1>3, <1>4 DEF AckedOnDisk

LEMMA IInvNext == IInv /\ [Next]_vars => IInv'
<1> SUFFICES ASSUME IInv, [Next]_vars
             PROVE  IInv'
  OBVIOUS
<1>0. /\ Typed /\ AckedOnDisk /\ Unharmed /\ TypeOK /\ LockSteady
      /\ file \in Seq(Frame) /\ Len(file) \in Nat /\ synced \in Nat /\ synced <= Len(file)
      /\ Len(file) <= MaxFrames /\ taken \in Seq(Hints) /\ keep \in Seq(Hints)
      /\ Len(taken) \in Nat /\ Len(keep) \in Nat
  BY LenProperties DEF IInv, Typed, TypeOK
<1>a. <<>> \in Seq(Frame) /\ <<>> \in Seq(Hints) /\ Len(<<>>) = 0 /\ Range(<<>>) = {}
  BY EmptySeq DEF Range
<1>1. ASSUME NEW h \in Hints, BufferHint(h)
      PROVE  IInv'
  <2>1. /\ pc = "free" /\ pc' = "append" /\ cur' = h /\ file' = Append(file, Encoded(h))
        /\ Len(file) < MaxFrames
        /\ UNCHANGED <<synced, passing, taken, keep, owed, late, fresh, passes, failures>>
    BY <1>1 DEF BufferHint
  <2>2. Encoded(h) \in Frame /\ Encoded(h).intact
    BY FrameType
  <2>3. /\ file' \in Seq(Frame) /\ Len(file') = Len(file) + 1
        /\ \A i \in 1 .. Len(file) : file'[i] = file[i]
        /\ file'[Len(file')] = Encoded(h)
    BY <1>0, <2>1, <2>2, AppendFrame
  <2>4. Typed'
    <3>1. TypeOK'
      BY <1>0, <2>1, <2>3, LimitsAssumption DEF TypeOK
    <3>2. LockSteady'
      BY <1>0, <2>1, <2>3 DEF LockSteady
    <3> QED
      BY <3>1, <3>2 DEF Typed
  <2>5. AckedOnDisk'
    BY <1>0, <2>1, <2>3, StableFramesStay
  <2>6. Unharmed'
    <3>1. Written \subseteq Written'
      BY <1>0, <2>3 DEF Written
    <3>2. \A i \in 1 .. Len(file') : i \in 1 .. Len(file) \/ i = Len(file')
      BY <1>0, <2>3
    <3> QED
      BY <1>0, <2>1, <2>2, <2>3, <3>1, <3>2 DEF Unharmed, Unwritten
  <2> QED
    BY <2>4, <2>5, <2>6 DEF IInv
<1>2. CASE BufferHintDone
  <2>1. /\ pc = "append" /\ pc' = "free" /\ cur' = None /\ synced' = Len(file)
        /\ owed' = owed \cup {cur} /\ fresh' = fresh \cup {cur}
        /\ late' = IF passing THEN late \cup {cur} ELSE late \ {cur}
        /\ UNCHANGED <<file, passing, taken, keep, passes, failures>>
    BY <1>2 DEF BufferHintDone, Flush
  <2>2. cur \in Hints /\ file[Len(file)] = Encoded(cur) /\ synced < Len(file)
    BY <1>0, <2>1 DEF LockSteady
  <2>3. Typed'
    <3>1. TypeOK'
      BY <1>0, <2>1, <2>2 DEF TypeOK
    <3>2. LockSteady'
      BY <1>0, <2>1 DEF LockSteady
    <3> QED
      BY <3>1, <3>2 DEF Typed
  <2>4. AckedOnDisk'
    BY <1>0, <1>2, <2>1, AppendDoneIsStable DEF BufferHintDone
  <2>5. Unharmed'
    <3>1. cur \in Written
      <4>1. Len(file) \in 1 .. Len(file) /\ file[Len(file)].hint = cur
        BY <1>0, <2>2, FrameType
      <4> QED
        BY <4>1 DEF Written
    <3>2. Written' = Written
      BY <2>1 DEF Written
    <3>3. CASE passing
      BY <1>0, <2>1, <3>2, <3>3 DEF Unharmed, Unwritten
    <3>4. CASE ~passing
      BY <1>0, <2>1, <3>1, <3>2, <3>4 DEF Unharmed, Unwritten
    <3> QED
      BY <3>3, <3>4
  <2> QED
    BY <2>3, <2>4, <2>5 DEF IInv
<1>3. ASSUME NEW left \in {<<>>, <<Torn(cur)>>, <<Encoded(cur)>>}, AppendFails(left)
      PROVE  IInv'
  <2>1. /\ pc \in {"append", "reappend"} /\ pc' = "free" /\ cur' = None
        /\ failures < MaxFailures /\ failures' = failures + 1
        /\ file' = Front(file) \o left /\ keep' = IF pc = "reappend" THEN <<>> ELSE keep
        /\ UNCHANGED <<synced, passing, taken, owed, late, fresh, passes>>
    BY <1>3 DEF AppendFails
  <2>2. cur \in Hints /\ synced < Len(file)
    BY <1>0, <2>1 DEF LockSteady
  <2>3. left \in Seq(Frame) /\ Len(left) \in Nat /\ Len(left) <= 1
    <3>1. Torn(cur) \in Frame /\ Encoded(cur) \in Frame
      BY <2>2, FrameType
    <3>2. \A f \in Frame : <<f>> \in Seq(Frame) /\ Len(<<f>>) = 1
      OBVIOUS
    <3>3. CASE left = <<>>
      BY <1>a, <3>3
    <3>4. CASE left = <<Torn(cur)>>
      BY <3>1, <3>2, <3>4
    <3>5. CASE left = <<Encoded(cur)>>
      BY <3>1, <3>2, <3>5
    <3> QED
      BY <3>3, <3>4, <3>5
  <2>4. Len(file) - 1 \in 0 .. Len(file) /\ Front(file) = SubSeq(file, 1, Len(file) - 1)
    BY <1>0, <2>2 DEF Front
  <2>5. /\ file' \in Seq(Frame) /\ Len(file') = Len(file) - 1 + Len(left)
        /\ \A i \in 1 .. Len(file) - 1 : file'[i] = file[i]
    BY <1>0, <2>1, <2>3, <2>4, PrefixThenOne
  <2>6. Typed'
    <3>1. TypeOK'
      <4>1. Len(file') \in Nat /\ Len(file') <= Len(file) /\ synced <= Len(file')
        BY <1>0, <2>2, <2>3, <2>5
      <4>2. failures' \in 0 .. MaxFailures
        BY <1>0, <2>1, LimitsAssumption DEF TypeOK
      <4>3. keep' \in Seq(Hints)
        BY <1>0, <1>a, <2>1
      <4> QED
        BY <1>0, <2>1, <2>5, <4>1, <4>2, <4>3, LimitsAssumption DEF TypeOK
    <3>2. LockSteady'
      BY <1>0, <1>a, <2>1 DEF LockSteady
    <3> QED
      BY <3>1, <3>2 DEF Typed
  <2>7. AckedOnDisk'
    <3>1. \A i \in 1 .. synced : file'[i] = file[i]
      BY <1>0, <2>2, <2>5
    <3>2. synced' \in Nat /\ synced <= synced' /\ fresh' \subseteq fresh
      BY <1>0, <2>1
    <3> QED
      BY <1>0, <3>1, <3>2, StableFramesStay
  <2>8. Unharmed'
    BY <1>0, <2>1 DEF Unharmed, Unwritten, TypeOK
  <2> QED
    BY <2>6, <2>7, <2>8 DEF IInv
<1>4. CASE StartPass
  <2>1. /\ pc = "free" /\ ~passing /\ passes < MaxPasses /\ taken' = ReadAll(file)
        /\ passing' = TRUE /\ passes' = passes + 1
        /\ UNCHANGED <<pc, cur, file, synced, keep, owed, late, fresh, failures>>
    BY <1>4 DEF StartPass
  <2>2. /\ ReadAll(file) \in Seq(Hints) /\ Len(ReadAll(file)) <= Len(file)
        /\ (\A i \in 1 .. Len(file) : file[i].intact) => Range(ReadAll(file)) = Written
    BY <1>0, ReadAllYields DEF Written
  <2>3. keep = <<>> /\ taken = <<>>
    BY <1>0, <2>1 DEF LockSteady
  <2>4. Typed'
    <3>1. TypeOK'
      <4>1. passes' \in 0 .. MaxPasses
        BY <1>0, <2>1, LimitsAssumption DEF TypeOK
      <4> QED
        BY <1>0, <2>1, <2>2, <4>1 DEF TypeOK
    <3>2. LockSteady'
      <4>1. Len(ReadAll(file)) \in Nat
        BY <2>2, LenProperties
      <4>2. Len(taken') + Len(keep') <= MaxFrames
        BY <1>0, <1>a, <2>1, <2>2, <2>3, <4>1, LimitsAssumption
      <4> QED
        BY <1>0, <2>1, <4>2 DEF LockSteady
    <3> QED
      BY <3>1, <3>2 DEF Typed
  <2>5. AckedOnDisk'
    BY <1>0, <2>1, StableFramesStay
  <2>6. Unharmed'
    <3>1. Written' = Written /\ Unwritten' = Unwritten
      BY <2>1, <2>3 DEF Written, Unwritten
    <3> QED
      BY <3>1, <1>0, <1>a, <2>1, <2>2, <2>3 DEF Unharmed, Unwritten
  <2> QED
    BY <2>4, <2>5, <2>6 DEF IInv
<1>5. CASE PushHint
  <2>1. /\ taken # <<>> /\ owed' = owed \ {Head(taken)} /\ taken' = Tail(taken)
        /\ UNCHANGED <<pc, cur, file, synced, passing, keep, late, fresh, passes, failures>>
    BY <1>5 DEF PushHint
  <2>2. /\ taken' \in Seq(Hints) /\ Len(taken') = Len(taken) - 1
        /\ Range(taken) \subseteq {Head(taken)} \cup Range(taken')
    BY <1>0, <2>1, HeadAndTail
  <2>3. passing
    BY <1>0, <2>1 DEF LockSteady
  <2>4. Typed'
    <3>1. TypeOK'
      BY <1>0, <2>1, <2>2 DEF TypeOK
    <3>2. Len(taken') + Len(keep) <= MaxFrames
      BY <1>0, <2>2, <2>3, LimitsAssumption DEF LockSteady
    <3>3. LockSteady'
      BY <1>0, <2>1, <2>3, <3>2 DEF LockSteady
    <3> QED
      BY <3>1, <3>3 DEF Typed
  <2>5. AckedOnDisk'
    BY <1>0, <2>1, StableFramesStay
  <2>6. Unharmed'
    <3>1. Written' = Written /\ Unwritten' = Unwritten
      BY <2>1 DEF Written, Unwritten
    <3> QED
      BY <3>1, <1>0, <2>1, <2>2, <2>3 DEF Unharmed, Unwritten
  <2> QED
    BY <2>4, <2>5, <2>6 DEF IInv
<1>6. CASE PushHintFails
  <2>1. /\ taken # <<>> /\ keep' = Append(keep, Head(taken)) /\ taken' = Tail(taken)
        /\ UNCHANGED <<pc, cur, file, synced, passing, owed, late, fresh, passes, failures>>
    BY <1>6 DEF PushHintFails
  <2>2. /\ taken' \in Seq(Hints) /\ Len(taken') = Len(taken) - 1 /\ Head(taken) \in Hints
        /\ Range(taken) \subseteq {Head(taken)} \cup Range(taken')
    BY <1>0, <2>1, HeadAndTail
  <2>3. /\ keep' \in Seq(Hints) /\ Len(keep') = Len(keep) + 1
        /\ Range(keep) \cup {Head(taken)} \subseteq Range(keep')
    BY <1>0, <2>1, <2>2, AppendFrame, RangeAppend
  <2>4. passing
    BY <1>0, <2>1 DEF LockSteady
  <2>5. Typed'
    <3>1. TypeOK'
      BY <1>0, <2>1, <2>2, <2>3 DEF TypeOK
    <3>2. Len(taken') + Len(keep') <= MaxFrames
      BY <1>0, <2>2, <2>3, <2>4, LimitsAssumption DEF LockSteady
    <3>3. LockSteady'
      BY <1>0, <2>1, <2>4, <3>2 DEF LockSteady
    <3> QED
      BY <3>1, <3>3 DEF Typed
  <2>6. AckedOnDisk'
    BY <1>0, <2>1, StableFramesStay
  <2>7. Unharmed'
    <3>1. Written' = Written /\ Unwritten' = Unwritten
      BY <1>0, <2>1, <2>4 DEF Written, Unwritten, LockSteady
    <3> QED
      BY <3>1, <1>0, <2>1, <2>2, <2>3, <2>4 DEF Unharmed, Unwritten
  <2> QED
    BY <2>5, <2>6, <2>7 DEF IInv
<1>7. CASE RewriteHints
  <2>1. /\ pc = "free" /\ passing /\ taken = <<>> /\ file' = <<>> /\ synced' = 0
        /\ fresh' = {} /\ passing' = FALSE /\ pc' = IF keep = <<>> THEN "free" ELSE "rewrite"
        /\ UNCHANGED <<cur, taken, keep, owed, late, passes, failures>>
    BY <1>7 DEF RewriteHints, Clear
  <2>2. Typed'
    <3>1. TypeOK'
      <4>1. pc' \in {"free", "append", "rewrite", "reappend"}
        BY <2>1
      <4>2. file' \in Seq(Frame) /\ Len(file') <= MaxFrames /\ synced' \in 0 .. Len(file')
        BY <1>a, <2>1, LimitsAssumption
      <4> QED
        BY <1>0, <2>1, <4>1, <4>2 DEF TypeOK
    <3>2. Len(file') + Len(keep') <= MaxFrames
      BY <1>0, <1>a, <2>1, LimitsAssumption DEF LockSteady
    <3>3. LockSteady'
      BY <1>0, <2>1, <3>2 DEF LockSteady
    <3> QED
      BY <3>1, <3>3 DEF Typed
  <2>3. AckedOnDisk'
    BY <2>1 DEF AckedOnDisk
  <2>4. Unharmed'
    BY <1>0, <1>a, <2>1 DEF Unharmed, Unwritten
  <2> QED
    BY <2>2, <2>3, <2>4 DEF IInv
<1>8. CASE Reappend
  <2>1. /\ pc = "rewrite" /\ pc' = "reappend" /\ cur' = Head(keep)
        /\ file' = Append(file, Encoded(Head(keep)))
        /\ UNCHANGED <<synced, passing, taken, keep, owed, late, fresh, passes, failures>>
    BY <1>8 DEF Reappend
  <2>2. keep # <<>> /\ ~passing /\ Len(file) + Len(keep) <= MaxFrames
    BY <1>0, <2>1 DEF LockSteady
  <2>3. /\ Head(keep) \in Hints /\ Len(keep) \in Nat \ {0}
        /\ Encoded(Head(keep)) \in Frame /\ Encoded(Head(keep)).intact
    BY <1>0, <2>2, HeadAndTail, FrameType
  <2>4. /\ file' \in Seq(Frame) /\ Len(file') = Len(file) + 1
        /\ \A i \in 1 .. Len(file) : file'[i] = file[i]
        /\ file'[Len(file')] = Encoded(cur')
    BY <1>0, <2>1, <2>3, AppendFrame
  <2>5. Typed'
    <3>1. TypeOK'
      <4>1. Len(file') <= MaxFrames /\ synced \in 0 .. Len(file')
        BY <1>0, <2>2, <2>3, <2>4, LimitsAssumption
      <4> QED
        BY <1>0, <2>1, <2>3, <2>4, <4>1 DEF TypeOK
    <3>2. Len(file') + Len(keep) <= MaxFrames + 1 /\ synced < Len(file')
      BY <1>0, <2>2, <2>4, LimitsAssumption
    <3>3. LockSteady'
      BY <1>0, <2>1, <2>2, <2>3, <2>4, <3>2 DEF LockSteady
    <3> QED
      BY <3>1, <3>3 DEF Typed
  <2>6. AckedOnDisk'
    <3>1. \A i \in 1 .. synced : file'[i] = file[i]
      BY <1>0, <2>4
    <3> QED
      BY <1>0, <2>1, <3>1, StableFramesStay
  <2>7. Unharmed'
    <3>1. Written \subseteq Written'
      BY <1>0, <2>4 DEF Written
    <3>2. \A i \in 1 .. Len(file') : i \in 1 .. Len(file) \/ i = Len(file')
      BY <1>0, <2>4
    <3> QED
      BY <1>0, <2>1, <2>3, <2>4, <3>1, <3>2 DEF Unharmed, Unwritten
  <2> QED
    BY <2>5, <2>6, <2>7 DEF IInv
<1>9. CASE ReappendDone
  <2>1. /\ pc = "reappend" /\ cur' = None /\ synced' = Len(file) /\ fresh' = fresh \cup {cur}
        /\ keep' = Tail(keep) /\ pc' = IF keep' = <<>> THEN "free" ELSE "rewrite"
        /\ UNCHANGED <<file, passing, taken, owed, late, passes, failures>>
    BY <1>9 DEF ReappendDone, Flush
  <2>2. /\ keep # <<>> /\ ~passing /\ cur \in Hints /\ cur = Head(keep)
        /\ file[Len(file)] = Encoded(cur) /\ synced < Len(file)
        /\ Len(file) + Len(keep) <= MaxFrames + 1
    BY <1>0, <2>1 DEF LockSteady
  <2>3. /\ keep' \in Seq(Hints) /\ Len(keep') = Len(keep) - 1
        /\ Range(keep) \subseteq {cur} \cup Range(keep')
    BY <1>0, <2>1, <2>2, HeadAndTail
  <2>4. Typed'
    <3>1. TypeOK'
      BY <1>0, <2>1, <2>2, <2>3 DEF TypeOK
    <3>2. Len(file) + Len(keep') <= MaxFrames
      BY <1>0, <2>2, <2>3, LimitsAssumption
    <3>3. LockSteady'
      BY <1>0, <2>1, <2>2, <3>2 DEF LockSteady
    <3> QED
      BY <3>1, <3>3 DEF Typed
  <2>5. AckedOnDisk'
    BY <1>0, <1>9, <2>1, AppendDoneIsStable DEF ReappendDone
  <2>6. Unharmed'
    <3>1. Len(file) \in 1 .. Len(file) /\ file[Len(file)].hint = cur
      BY <1>0, <2>2, FrameType
    <3>2. cur \in Written /\ Written' = Written
      BY <2>1, <3>1 DEF Written
    <3>3. Unwritten \subseteq {cur} \cup Unwritten'
      BY <1>a, <2>1, <2>3 DEF Unwritten
    <3> QED
      BY <1>0, <2>1, <2>2, <2>3, <3>2, <3>3 DEF Unharmed, Unwritten
  <2> QED
    BY <2>4, <2>5, <2>6 DEF IInv
<1>10. ASSUME NEW n \in 0 .. Len(file), NEW torn \in BOOLEAN, Crash(n, torn)
       PROVE  IInv'
  <2> DEFINE t == IF torn THEN <<Torn(file[n + 1].hint)>> ELSE <<>>
  <2>1. /\ failures < MaxFailures /\ failures' = failures + 1
        /\ n \in synced .. Len(file) /\ (torn => n < Len(file))
        /\ file' = SubSeq(file, 1, n) \o t /\ synced' = Len(file')
        /\ pc' = "free" /\ cur' = None /\ passing' = FALSE /\ taken' = <<>> /\ keep' = <<>>
        /\ UNCHANGED <<owed, late, fresh, passes>>
    BY <1>10 DEF Crash
  <2>2. t \in Seq(Frame) /\ Len(t) \in Nat /\ Len(t) <= 1 /\ n + Len(t) <= Len(file)
    <3>1. CASE torn
      <4>1. n + 1 \in 1 .. Len(file)
        BY <1>0, <2>1, <3>1
      <4>2. file[n + 1] \in Frame
        BY <1>0, <4>1, ElementOfSeq
      <4>3. Torn(file[n + 1].hint) \in Frame
        BY <4>2, FrameType DEF Frame
      <4> QED
        BY <1>0, <2>1, <3>1, <4>3
    <3>2. CASE ~torn
      BY <1>0, <1>a, <3>2
    <3> QED
      BY <3>1, <3>2
  <2> HIDE DEF t
  <2>3. /\ file' \in Seq(Frame) /\ Len(file') = n + Len(t)
        /\ \A i \in 1 .. n : file'[i] = file[i]
    BY <1>0, <2>1, <2>2, PrefixThenOne
  <2>4. Typed'
    <3>1. TypeOK'
      <4>1. Len(file') \in Nat /\ Len(file') <= MaxFrames
        BY <1>0, <2>2, <2>3, LimitsAssumption
      <4>2. failures' \in 0 .. MaxFailures
        BY <1>0, <2>1, LimitsAssumption DEF TypeOK
      <4>3. synced' \in 0 .. Len(file')
        BY <2>1, <4>1
      <4> QED
        BY <1>0, <1>a, <2>1, <2>3, <4>1, <4>2, <4>3 DEF TypeOK
    <3>2. LockSteady'
      BY <2>1 DEF LockSteady
    <3> QED
      BY <3>1, <3>2 DEF Typed
  <2>5. AckedOnDisk'
    <3>1. \A i \in 1 .. synced : file'[i] = file[i]
      BY <1>0, <2>1, <2>3
    <3>2. synced' \in Nat /\ synced <= synced'
      BY <1>0, <2>1, <2>2, <2>3
    <3> QED
      BY <1>0, <2>1, <3>1, <3>2, StableFramesStay
  <2>6. Unharmed'
    BY <1>0, <2>1 DEF Unharmed, Unwritten, TypeOK
  <2> QED
    BY <2>4, <2>5, <2>6 DEF IInv
<1>11. CASE UNCHANGED vars
  BY <1>11 DEF vars, IInv, Typed, TypeOK, LockSteady, AckedOnDisk, Unharmed, Unwritten, Written
<1>12. CASE ClearFails
  <2>1. /\ pc = "free" /\ passing /\ taken = <<>> /\ failures < MaxFailures
        /\ failures' = failures + 1 /\ passing' = FALSE /\ keep' = <<>>
        /\ UNCHANGED <<pc, cur, file, synced, taken, owed, late, fresh, passes>>
    BY <1>12 DEF ClearFails
  <2>2. Typed'
    <3>1. failures' \in 0 .. MaxFailures
      BY <1>0, <2>1, LimitsAssumption DEF TypeOK
    <3>2. TypeOK'
      BY <1>0, <1>a, <2>1, <3>1 DEF TypeOK
    <3>3. LockSteady'
      BY <2>1 DEF LockSteady
    <3> QED
      BY <3>2, <3>3 DEF Typed
  <2>3. AckedOnDisk'
    BY <1>0, <2>1, StableFramesStay
  <2>4. Unharmed'
    BY <1>0, <2>1 DEF Unharmed, TypeOK
  <2> QED
    BY <2>2, <2>3, <2>4 DEF IInv
<1> QED
  BY <1>1, <1>2, <1>3, <1>4, <1>5, <1>6, <1>7, <1>8, <1>9, <1>10, <1>11, <1>12 DEF Next

\* Every state has the types of TypeOK; rewriting the log after a pass never
\* makes it longer than it was.
THEOREM TypeCorrect == Spec => []TypeOK
<1>1. IInv => TypeOK
  BY DEF IInv, Typed
<1> QED
  BY <1>1, IInvInit, IInvNext, PTL DEF Spec

\* A hint whose append has returned is whole in the stable part of the file for
\* as long as the file exists, for any crashes and failed appends.
THEOREM AckedStaysOnDisk == Spec => []AckedOnDisk
<1>1. IInv => AckedOnDisk
  BY DEF IInv
<1> QED
  BY <1>1, IInvInit, IInvNext, PTL DEF Spec

\* Without crashes and I/O errors, after any number of partial replays: read_all
\* yields every hint that was buffered while no pass ran and is not yet delivered,
\* unless a rewrite has removed the file and not yet appended the hint again.
\* Nothing is claimed of hints buffered during a pass, which its rewrite wipes.
THEOREM OwedStaysReadable == Spec => []OwedIsReadable
<1>1. IInv => OwedIsReadable
  <2> SUFFICES ASSUME IInv, failures = 0
               PROVE  owed \ late \subseteq Range(ReadAll(file)) \cup Unwritten
    BY DEF OwedIsReadable, Unwritten
  <2>1. /\ \A i \in 1 .. Len(file) : file[i].intact
        /\ owed \ late \subseteq Written \cup Unwritten
    BY DEF IInv, Unharmed
  <2>2. Range(ReadAll(file)) = Written
    BY <2>1, ReadAllYields DEF IInv, Typed, TypeOK, Written
  <2> QED
    BY <2>1, <2>2
<1> QED
  BY <1>1, IInvInit, IInvNext, PTL DEF Spec
=============================================================================
