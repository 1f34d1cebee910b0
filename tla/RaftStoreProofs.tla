-------------------------- MODULE RaftStoreProofs --------------------------
(***************************************************************************)
(* Theorems about the durable storage of the metadata plane, for any       *)
(* number of terms, log indexes, crashes and failed writes.                *)
(***************************************************************************)
EXTENDS RaftStore, SequenceTheorems, TLAPS

-----------------------------------------------------------------------------
(* The inductive invariant.                                                *)

Image == LogImage \cup SmImage

\* TypeOK, with the domains that it leaves open.
Typed ==
    /\ TypeOK
    /\ mem \in [Files -> Image] /\ seen \in [Files -> Image]
    /\ stable \in [Files -> Image] /\ promised \in [Files -> Image]

\* What is committed in a log image is in it, or was purged from it, and is
\* what the cluster chose.
LogSound(l) == l.committed <= LastIndex(l) /\ Agrees(l, l.committed)

LogsSound == LogSound(mem["log"]) /\ LogSound(seen["log"]) /\ LogSound(stable["log"])

\* The state of an image is the chosen log up to the applied index.
SmSound(sm) == sm.state = SubSeq(chosen, 1, sm.applied)

SmsSound == SmSound(mem["sm"]) /\ SmSound(seen["sm"]) /\ SmSound(stable["sm"])

SInv == Typed /\ LogsSound /\ SmsSound

\* Where the images of a file stand between two calls, before the rename and
\* after it: only the call in progress tells them apart.
FileSteady(f) ==
    /\ busy[f] \in {"no", "temp"} => seen[f] = promised[f] /\ stable[f] = promised[f]
    /\ busy[f] = "no" /\ running => mem[f] = promised[f]
    /\ busy[f] = "renamed" => seen[f] = mem[f] /\ stable[f] \in {promised[f], mem[f]}

\* The snapshot in memory separates the purge mark of every log image from the
\* applied index of every state image.
SnapshotBetween ==
    /\ \A l \in {mem["log"], seen["log"], stable["log"]} : l.purged <= snapshot
    /\ \A sm \in {mem["sm"], seen["sm"], stable["sm"]} : snapshot <= sm.applied

DInv == budget.dir = 0 => (\A f \in Files : FileSteady(f)) /\ SnapshotBetween

-----------------------------------------------------------------------------
(* What the calls of openraft make of an image.                            *)

LEMMA LogFields ==
    ASSUME NEW l \in LogImage
    PROVE  /\ l.vote \in 0 .. MaxTerm /\ l.purged \in 0 .. MaxIndex
           /\ l.committed \in 0 .. MaxIndex /\ l.entries \in Seq(Terms)
           /\ Len(l.entries) \in Nat /\ LastIndex(l) \in Nat
           /\ LastIndex(l) = l.purged + Len(l.entries)
  BY LimitsAssumption DEF LogImage, LastIndex

LEMMA VoteSound ==
    ASSUME NEW l \in LogImage, LogSound(l), NEW t \in Terms
    PROVE  [l EXCEPT !.vote = t] \in LogImage /\ LogSound([l EXCEPT !.vote = t])
<1> DEFINE k == [l EXCEPT !.vote = t]
<1>0. t \in 0 .. MaxTerm
  BY LimitsAssumption DEF Terms
<1>1. k \in LogImage
  BY <1>0 DEF LogImage
<1>2. k.purged = l.purged /\ k.entries = l.entries /\ k.committed = l.committed
  BY DEF LogImage
<1> HIDE DEF k
<1>3. LogSound(k)
  BY <1>2 DEF LogSound, Agrees, LastIndex
<1> QED
  BY <1>1, <1>3 DEF k

LEMMA AppendSound ==
    ASSUME NEW l \in LogImage, LogSound(l), NEW t \in Terms
    PROVE  /\ [l EXCEPT !.entries = Append(@, t)] \in LogImage
           /\ LogSound([l EXCEPT !.entries = Append(@, t)])
<1> DEFINE k == [l EXCEPT !.entries = Append(@, t)]
<1>1. k \in LogImage
  BY DEF LogImage
<1>2. k.purged = l.purged /\ k.entries = Append(l.entries, t) /\ k.committed = l.committed
  BY DEF LogImage
<1>3. Len(Append(l.entries, t)) = Len(l.entries) + 1
  BY LogFields
<1>4. \A i \in 1 .. Len(l.entries) : Append(l.entries, t)[i] = l.entries[i]
  BY LogFields
<1> HIDE DEF k
<1>5. LogSound(k)
  <2>1. k.committed <= LastIndex(k)
    BY <1>1, <1>2, <1>3, LogFields DEF LogSound
  <2>2. ASSUME NEW j \in 1 .. k.committed, j > k.purged
        PROVE  k.entries[j - k.purged] = chosen[j]
    <3>1. j - l.purged \in 1 .. Len(l.entries)
      BY <1>2, <2>2, LogFields DEF LogSound
    <3> QED
      BY <1>2, <1>4, <2>2, <3>1 DEF LogSound, Agrees
  <2> QED
    BY <2>1, <2>2 DEF LogSound, Agrees
<1> QED
  BY <1>1, <1>5 DEF k

\* Truncation stops above the committed entries.
LEMMA TruncateSound ==
    ASSUME NEW l \in LogImage, LogSound(l), NEW i \in 1 .. MaxIndex,
           i \in l.committed + 1 .. LastIndex(l), i > l.purged
    PROVE  TruncateFrom(l, i) \in LogImage /\ LogSound(TruncateFrom(l, i))
<1> DEFINE n == i - 1 - l.purged
           es == SubSeq(l.entries, 1, n)
           k == TruncateFrom(l, i)
<1>1. n \in 0 .. Len(l.entries)
  BY LogFields
<1>2. /\ es \in Seq(Terms) /\ Len(es) = n
      /\ \A j \in 1 .. n : es[j] = l.entries[j]
  <2>1. \A j \in 1 .. n : l.entries[j] \in Terms
    BY <1>1, LogFields, ElementOfSeq
  <2>2. 1 \in Int /\ n \in Int
    BY <1>1
  <2> HIDE DEF n
  <2>3. /\ SubSeq(l.entries, 1, n) \in Seq(Terms)
        /\ Len(SubSeq(l.entries, 1, n)) = IF 1 <= n THEN n - 1 + 1 ELSE 0
        /\ \A j \in 1 .. n - 1 + 1 : SubSeq(l.entries, 1, n)[j] = l.entries[1 + j - 1]
    BY <2>1, <2>2, SubSeqProperties
  <2> QED
    BY <1>1, <2>3
<1>3. k = [l EXCEPT !.entries = es]
  BY DEF TruncateFrom
<1> HIDE DEF n, es, k
<1>4. k \in LogImage /\ k.purged = l.purged /\ k.committed = l.committed /\ k.entries = es
  BY <1>2, <1>3 DEF LogImage
<1>5. LogSound(k)
  <2>1. k.committed <= LastIndex(k)
    BY <1>1, <1>2, <1>4, LogFields DEF n
  <2>2. ASSUME NEW j \in 1 .. k.committed, j > k.purged
        PROVE  k.entries[j - k.purged] = chosen[j]
    <3>1. j - l.purged \in 1 .. n
      BY <1>1, <1>4, <2>2, LogFields DEF n
    <3> QED
      BY <1>2, <1>4, <2>2, <3>1 DEF LogSound, Agrees
  <2> QED
    BY <2>1, <2>2 DEF LogSound, Agrees
<1> QED
  BY <1>4, <1>5 DEF k

LEMMA CommitSound ==
    ASSUME NEW l \in LogImage, NEW i \in 1 .. MaxIndex, i <= LastIndex(l), Agrees(l, i)
    PROVE  /\ [l EXCEPT !.committed = i] \in LogImage
           /\ LogSound([l EXCEPT !.committed = i])
<1> DEFINE k == [l EXCEPT !.committed = i]
<1>1. k \in LogImage
  BY LimitsAssumption DEF LogImage
<1>2. k.purged = l.purged /\ k.entries = l.entries /\ k.committed = i
  BY DEF LogImage
<1> HIDE DEF k
<1>3. LogSound(k)
  BY <1>2 DEF LogSound, Agrees, LastIndex
<1> QED
  BY <1>1, <1>3 DEF k

\* A purge may reach beyond the last entry, and beyond the committed index.
LEMMA PurgeSound ==
    ASSUME NEW l \in LogImage, LogSound(l), NEW i \in 1 .. MaxIndex, i > l.purged
    PROVE  /\ PurgeUpTo(l, i) \in LogImage /\ LogSound(PurgeUpTo(l, i))
           /\ PurgeUpTo(l, i).purged = i
<1> DEFINE a == i + 1 - l.purged
           es == IF i >= LastIndex(l) THEN <<>> ELSE SubSeq(l.entries, a, Len(l.entries))
           k == PurgeUpTo(l, i)
<1>1. /\ es \in Seq(Terms)
      /\ i >= LastIndex(l) => Len(es) = 0
      /\ i < LastIndex(l) =>
            /\ Len(es) = LastIndex(l) - i
            /\ \A j \in 1 .. LastIndex(l) - i : es[j] = l.entries[i - l.purged + j]
  <2>1. CASE i >= LastIndex(l)
    <3>1. es = <<>>
      BY <2>1
    <3>2. ~(i < LastIndex(l))
      BY <2>1, LogFields
    <3> HIDE DEF es
    <3> QED
      BY <3>1, <3>2
  <2>2. CASE ~(i >= LastIndex(l))
    <3>1. a \in Int /\ a >= 2 /\ a <= Len(l.entries)
      BY <2>2, LogFields
    <3>2. \A j \in a .. Len(l.entries) : l.entries[j] \in Terms
      BY <3>1, LogFields, ElementOfSeq
    <3> DEFINE n == Len(l.entries)
    <3>3. n \in Int
      BY LogFields
    <3> HIDE DEF a, n
    <3>4. /\ SubSeq(l.entries, a, n) \in Seq(Terms)
          /\ Len(SubSeq(l.entries, a, n)) = IF a <= n THEN n - a + 1 ELSE 0
          /\ \A j \in 1 .. n - a + 1 : SubSeq(l.entries, a, n)[j] = l.entries[a + j - 1]
      BY <3>1, <3>2, <3>3, SubSeqProperties DEF n
    <3>5. es = SubSeq(l.entries, a, n)
      BY <2>2 DEF n
    <3>6. n - a + 1 = LastIndex(l) - i
      BY LogFields DEF n, a
    <3>7. \A j \in 1 .. LastIndex(l) - i : a + j - 1 = i - l.purged + j
      BY LogFields DEF a
    <3> HIDE DEF es
    <3> QED
      BY <2>2, <3>1, <3>4, <3>5, <3>6, <3>7 DEF n
  <2> QED
    BY <2>1, <2>2
<1>2. k = [l EXCEPT !.purged = i, !.entries = es]
  BY DEF PurgeUpTo
<1> HIDE DEF a, es, k
<1>3. k \in LogImage /\ k.purged = i /\ k.committed = l.committed /\ k.entries = es
  <2>1. i \in 0 .. MaxIndex
    BY LimitsAssumption
  <2> QED
    BY <1>1, <1>2, <2>1 DEF LogImage
<1>4. LogSound(k)
  <2>1. k.committed <= LastIndex(k)
    BY <1>1, <1>3, LogFields DEF LogSound
  <2>2. ASSUME NEW j \in 1 .. k.committed, j > k.purged
        PROVE  k.entries[j - k.purged] = chosen[j]
    <3>1. i < LastIndex(l) /\ j \in 1 .. l.committed /\ j > l.purged
      BY <1>3, <2>2, LogFields DEF LogSound
    <3>2. j - i \in 1 .. LastIndex(l) - i /\ i - l.purged + (j - i) = j - l.purged
      BY <1>3, <2>2, <3>1, LogFields DEF LogSound
    <3>3. es[j - i] = l.entries[j - l.purged]
      BY <1>1, <3>1, <3>2
    <3> QED
      BY <1>3, <3>1, <3>3 DEF LogSound, Agrees
  <2> QED
    BY <2>1, <2>2 DEF LogSound, Agrees
<1> QED
  BY <1>3, <1>4 DEF k

\* A prefix of the chosen log.
LEMMA ChosenPrefix ==
    ASSUME chosen \in [1 .. MaxIndex -> Terms], NEW i \in 0 .. MaxIndex
    PROVE  /\ SubSeq(chosen, 1, i) \in Seq(Terms) /\ Len(SubSeq(chosen, 1, i)) = i
           /\ \A j \in 1 .. i : SubSeq(chosen, 1, i)[j] = chosen[j]
<1>1. /\ 1 \in Int /\ i \in Int
      /\ \A j \in 1 .. i : chosen[j] \in Terms
  BY LimitsAssumption
<1>2. /\ SubSeq(chosen, 1, i) \in Seq(Terms)
      /\ Len(SubSeq(chosen, 1, i)) = IF 1 <= i THEN i - 1 + 1 ELSE 0
      /\ \A j \in 1 .. i - 1 + 1 : SubSeq(chosen, 1, i)[j] = chosen[1 + j - 1]
  BY <1>1, SubSeqProperties
<1> QED
  BY <1>2

\* A batch of committed entries extends a state that is a prefix of the chosen
\* log to a longer prefix: it is the part of the log that comes next.
LEMMA ApplySound ==
    ASSUME chosen \in [1 .. MaxIndex -> Terms],
           NEW l \in LogImage, LogSound(l), NEW sm \in SmImage, SmSound(sm),
           NEW i \in 1 .. MaxIndex, i \in sm.applied + 1 .. l.committed,
           sm.applied >= l.purged
    PROVE  LET es == SubSeq(l.entries, sm.applied + 1 - l.purged, i - l.purged)
           IN  /\ ApplyEntries(sm, es) \in SmImage /\ SmSound(ApplyEntries(sm, es))
               /\ ApplyEntries(sm, es).applied = i
<1> DEFINE p == l.purged
           q == sm.applied
           a == q + 1 - p
           b == i - p
           es == SubSeq(l.entries, a, b)
<1>0. sm.applied \in 0 .. MaxIndex /\ sm.state \in Seq(Terms)
  BY DEF SmImage
<1>a. /\ p \in Nat /\ q \in Nat /\ i \in Nat /\ l.committed \in Nat
      /\ Len(l.entries) \in Nat /\ p <= q /\ q < i /\ i <= l.committed
      /\ l.committed <= p + Len(l.entries) /\ i \in 0 .. MaxIndex
  BY <1>0, LogFields DEF LogSound
<1> HIDE DEF p, q
<1>1. /\ a \in Int /\ b \in Int /\ 1 <= a /\ a <= b /\ b <= Len(l.entries)
      /\ b - a + 1 = i - q
  BY <1>a
<1>2. /\ es \in Seq(Terms) /\ Len(es) = i - q
      /\ \A j \in 1 .. i - q : es[j] = l.entries[a + j - 1]
  <2>1. \A j \in a .. b : l.entries[j] \in Terms
    BY <1>1, LogFields, ElementOfSeq
  <2> HIDE DEF a, b
  <2>3. /\ SubSeq(l.entries, a, b) \in Seq(Terms)
        /\ Len(SubSeq(l.entries, a, b)) = IF a <= b THEN b - a + 1 ELSE 0
        /\ \A j \in 1 .. b - a + 1 : SubSeq(l.entries, a, b)[j] = l.entries[a + j - 1]
    BY <1>1, <2>1, SubSeqProperties
  <2> QED
    BY <1>1, <2>3
<1> HIDE DEF es
<1>3. ApplyEntries(sm, es) = [applied |-> i, state |-> sm.state \o es]
  <2>1. q + Len(es) = i
    BY <1>a, <1>2
  <2> QED
    BY <2>1 DEF ApplyEntries, q
<1>4. /\ sm.state \o es \in Seq(Terms) /\ Len(sm.state \o es) = i
      /\ \A j \in 1 .. i : (sm.state \o es)[j] =
             IF j <= q THEN sm.state[j] ELSE es[j - q]
  <2>1. Len(sm.state) = q
    BY <1>0, ChosenPrefix DEF SmSound, q
  <2>2. /\ sm.state \o es \in Seq(Terms)
        /\ Len(sm.state \o es) = Len(sm.state) + Len(es)
        /\ \A j \in 1 .. Len(sm.state) + Len(es) : (sm.state \o es)[j] =
               IF j <= Len(sm.state) THEN sm.state[j] ELSE es[j - Len(sm.state)]
    BY <1>0, <1>2, ConcatProperties
  <2>3. Len(sm.state) + Len(es) = i
    BY <1>a, <1>2, <2>1
  <2> QED
    BY <2>1, <2>2, <2>3
<1>5. \A j \in 1 .. i : (sm.state \o es)[j] = chosen[j]
  <2> SUFFICES ASSUME NEW j \in 1 .. i
               PROVE  (sm.state \o es)[j] = chosen[j]
    OBVIOUS
  <2>1. CASE j <= q
    <3>1. j \in 1 .. q /\ sm.state[j] = SubSeq(chosen, 1, q)[j]
      BY <1>a, <2>1 DEF SmSound, q
    <3>2. q \in 0 .. MaxIndex
      BY <1>0 DEF q
    <3> QED
      BY <1>4, <2>1, <3>1, <3>2, ChosenPrefix
  <2>2. CASE ~(j <= q)
    <3>1. /\ j - q \in 1 .. i - q /\ a + (j - q) - 1 = j - p
          /\ j \in 1 .. l.committed /\ j > p
      BY <1>a, <2>2
    <3>2. es[j - q] = l.entries[j - p]
      BY <1>2, <3>1
    <3> QED
      BY <1>4, <2>2, <3>1, <3>2 DEF LogSound, Agrees, p
  <2> QED
    BY <2>1, <2>2
<1>6. sm.state \o es = SubSeq(chosen, 1, i)
  <2> DEFINE s == sm.state \o es
             t == SubSeq(chosen, 1, i)
  <2>2. t \in Seq(Terms) /\ Len(t) = i /\ \A j \in 1 .. i : t[j] = chosen[j]
    BY <1>a, ChosenPrefix
  <2>3. s \in Seq(Terms) /\ Len(s) = i /\ \A j \in 1 .. i : s[j] = chosen[j]
    BY <1>4, <1>5
  <2> HIDE DEF s, t
  <2>4. s = t
    BY <2>2, <2>3, SeqEqual
  <2> QED
    BY <2>4 DEF s, t
<1>7. ApplyEntries(sm, es) \in SmImage
  <2> DEFINE s == sm.state \o es
  <2>1. s \in Seq(Terms) /\ ApplyEntries(sm, es) = [applied |-> i, state |-> s]
    BY <1>3, <1>4
  <2> HIDE DEF s
  <2> QED
    BY <1>a, <2>1 DEF SmImage
<1>8. ApplyEntries(sm, es).applied = i /\ SmSound(ApplyEntries(sm, es))
  <2>1. ApplyEntries(sm, es).applied = i /\ ApplyEntries(sm, es).state = sm.state \o es
    BY <1>3
  <2> QED
    BY <1>6, <2>1 DEF SmSound
<1> QED
  BY <1>7, <1>8 DEF es, p, q

LEMMA InstallSound ==
    ASSUME chosen \in [1 .. MaxIndex -> Terms], NEW i \in 1 .. MaxIndex
    PROVE  /\ [applied |-> i, state |-> SubSeq(chosen, 1, i)] \in SmImage
           /\ SmSound([applied |-> i, state |-> SubSeq(chosen, 1, i)])
<1>1. i \in 0 .. MaxIndex
  OBVIOUS
<1> QED
  BY <1>1, ChosenPrefix DEF SmImage, SmSound

-----------------------------------------------------------------------------
(* Sound images, through every call, error and crash.                      *)

LEMMA SInvInit == Init => SInv
<1> SUFFICES ASSUME Init
             PROVE  SInv
  OBVIOUS
<1>1. /\ Blank["log"] = NoLog /\ Blank["sm"] = NoSm
      /\ NoLog \in LogImage /\ NoSm \in SmImage
  BY LimitsAssumption DEF Blank, Files, NoLog, NoSm, LogImage, SmImage
<1>2. Blank \in [Files -> Image]
  BY <1>1 DEF Blank, Image
<1>3. Typed
  BY <1>1, <1>2, LimitsAssumption DEF Init, Typed, TypeOK
<1>4. LogSound(NoLog)
  BY DEF LogSound, NoLog, LastIndex, Agrees
<1>5. SmSound(NoSm)
  BY SubSeqEmpty DEF SmSound, NoSm
<1> QED
  BY <1>1, <1>3, <1>4, <1>5 DEF Init, SInv, LogsSound, SmsSound

\* A call that starts to write a sound image of the log.
LEMMA BeginLogSound ==
    ASSUME SInv, NEW l \in LogImage, LogSound(l), Begin("log", l),
           snapshot' \in 0 .. MaxIndex
    PROVE  SInv'
<1>1. /\ mem'["log"] = l /\ mem'["sm"] = mem["sm"] /\ mem' \in [Files -> Image]
      /\ busy' \in [Files -> {"no", "temp", "renamed"}]
      /\ chosen' = chosen /\ seen' = seen /\ stable' = stable /\ promised' = promised
      /\ running' = running /\ budget' = budget
  BY DEF SInv, Typed, TypeOK, Begin, diskVars, Files, Image
<1>2. Typed'
  BY <1>1 DEF SInv, Typed, TypeOK
<1>3. LogsSound' /\ SmsSound'
  BY <1>1 DEF SInv, LogsSound, SmsSound, LogSound, SmSound, Agrees, LastIndex
<1> QED
  BY <1>2, <1>3 DEF SInv

\* A call that starts to write a sound image of the state machine.
LEMMA BeginSmSound ==
    ASSUME SInv, NEW sm \in SmImage, SmSound(sm), Begin("sm", sm),
           snapshot' \in 0 .. MaxIndex
    PROVE  SInv'
<1>1. /\ mem'["sm"] = sm /\ mem'["log"] = mem["log"] /\ mem' \in [Files -> Image]
      /\ busy' \in [Files -> {"no", "temp", "renamed"}]
      /\ chosen' = chosen /\ seen' = seen /\ stable' = stable /\ promised' = promised
      /\ running' = running /\ budget' = budget
  BY DEF SInv, Typed, TypeOK, Begin, diskVars, Files, Image
<1>2. Typed'
  BY <1>1 DEF SInv, Typed, TypeOK
<1>3. LogsSound' /\ SmsSound'
  BY <1>1 DEF SInv, LogsSound, SmsSound, LogSound, SmSound, Agrees, LastIndex
<1> QED
  BY <1>2, <1>3 DEF SInv

\* Every step keeps the images sound.
LEMMA SInvNext == SInv /\ [Next]_vars => SInv'
<1> SUFFICES ASSUME SInv, [Next]_vars
             PROVE  SInv'
  OBVIOUS
<1>0. /\ mem["log"] \in LogImage /\ LogSound(mem["log"])
      /\ mem["sm"] \in SmImage /\ SmSound(mem["sm"])
      /\ chosen \in [1 .. MaxIndex -> Terms] /\ snapshot \in 0 .. MaxIndex
  BY DEF SInv, Typed, TypeOK, LogsSound, SmsSound
<1>1. ASSUME NEW t \in Terms, SaveVote(t)
      PROVE  SInv'
  BY <1>0, <1>1, VoteSound, BeginLogSound DEF SaveVote
<1>2. ASSUME NEW t \in Terms, AppendEntry(t)
      PROVE  SInv'
  BY <1>0, <1>2, AppendSound, BeginLogSound DEF AppendEntry
<1>3. ASSUME NEW i \in 1 .. MaxIndex, Truncate(i)
      PROVE  SInv'
  BY <1>0, <1>3, TruncateSound, BeginLogSound DEF Truncate
<1>4. ASSUME NEW i \in 1 .. MaxIndex, SaveCommitted(i)
      PROVE  SInv'
  <2>1. i <= LastIndex(mem["log"])
    BY <1>0, <1>4, LogFields DEF SaveCommitted
  <2> QED
    BY <1>0, <1>4, <2>1, CommitSound, BeginLogSound DEF SaveCommitted
<1>5. ASSUME NEW i \in 1 .. MaxIndex, Purge(i)
      PROVE  SInv'
  <2>1. i > mem["log"].purged
    BY <1>0, <1>5, LogFields DEF Purge
  <2> QED
    BY <1>0, <1>5, <2>1, PurgeSound, BeginLogSound DEF Purge
<1>6. ASSUME NEW i \in 1 .. MaxIndex, Apply(i)
      PROVE  SInv'
  BY <1>0, <1>6, ApplySound, BeginSmSound DEF Apply
<1>7. ASSUME NEW i \in 1 .. MaxIndex, InstallSnapshot(i)
      PROVE  SInv'
  BY <1>0, <1>7, InstallSound, BeginSmSound DEF InstallSnapshot
<1>8. CASE BuildSnapshot
  <2>1. snapshot' \in 0 .. MaxIndex
    BY <1>0, <1>8 DEF BuildSnapshot, SmImage
  <2> QED
    BY <1>8, <2>1 DEF BuildSnapshot, diskVars, SInv, Typed, TypeOK, LogsSound, SmsSound,
                      LogSound, SmSound, Agrees, LastIndex
<1>9. ASSUME NEW f \in Files, Rename(f)
      PROVE  SInv'
  <2>1. /\ seen' \in [Files -> Image]
        /\ seen'["log"] \in {seen["log"], mem["log"]} /\ seen'["sm"] \in {seen["sm"], mem["sm"]}
        /\ busy' \in [Files -> {"no", "temp", "renamed"}]
    BY <1>9 DEF Rename, SInv, Typed, TypeOK, Files
  <2>2. chosen' = chosen /\ mem' = mem /\ stable' = stable /\ promised' = promised
        /\ snapshot' = snapshot /\ running' = running /\ budget' = budget
    BY <1>9 DEF Rename
  <2>3. Typed'
    BY <2>1, <2>2 DEF SInv, Typed, TypeOK
  <2>4. LogsSound' /\ SmsSound'
    BY <2>1, <2>2 DEF SInv, LogsSound, SmsSound, LogSound, SmSound, Agrees, LastIndex
  <2> QED
    BY <2>3, <2>4 DEF SInv
<1>10. ASSUME NEW f \in Files, SyncDir(f)
       PROVE  SInv'
  <2>1. /\ promised' \in [Files -> Image]
        /\ promised'["log"] \in LogImage /\ promised'["sm"] \in SmImage
        /\ busy' \in [Files -> {"no", "temp", "renamed"}]
    BY <1>10 DEF SyncDir, SInv, Typed, TypeOK, Files
  <2>2. chosen' = chosen /\ mem' = mem /\ seen' = seen /\ stable' = seen
        /\ snapshot' = snapshot /\ running' = running /\ budget' = budget
    BY <1>10 DEF SyncDir
  <2>3. Typed'
    BY <2>1, <2>2 DEF SInv, Typed, TypeOK
  <2>4. LogsSound' /\ SmsSound'
    BY <2>1, <2>2 DEF SInv, LogsSound, SmsSound, LogSound, SmSound, Agrees, LastIndex
  <2> QED
    BY <2>3, <2>4 DEF SInv
<1>11. ASSUME NEW f \in Files, SyncDirFails(f)
       PROVE  SInv'
  <2>1. /\ promised' \in [Files -> Image]
        /\ promised'["log"] \in LogImage /\ promised'["sm"] \in SmImage
        /\ busy' \in [Files -> {"no", "temp", "renamed"}]
    BY <1>11 DEF SyncDirFails, SInv, Typed, TypeOK, Files
  <2>2. budget' \in [crashes : 0 .. MaxCrashes, errors : 0 .. MaxErrors, dir : 0 .. MaxDirErrors]
    <3>1. budget.dir + 1 \in 0 .. MaxDirErrors
      BY <1>11, LimitsAssumption DEF SyncDirFails, SInv, Typed, TypeOK
    <3> QED
      BY <1>11, <3>1 DEF SyncDirFails, SInv, Typed, TypeOK
  <2>3. chosen' = chosen /\ mem' = mem /\ seen' = seen /\ stable' = stable
        /\ snapshot' = snapshot /\ running' = running
    BY <1>11 DEF SyncDirFails
  <2>4. Typed'
    BY <2>1, <2>2, <2>3 DEF SInv, Typed, TypeOK
  <2>5. LogsSound' /\ SmsSound'
    BY <2>3 DEF SInv, LogsSound, SmsSound, LogSound, SmSound, Agrees, LastIndex
  <2> QED
    BY <2>4, <2>5 DEF SInv
<1>12. ASSUME NEW f \in Files, PersistFails(f)
       PROVE  SInv'
  <2>1. budget' \in [crashes : 0 .. MaxCrashes, errors : 0 .. MaxErrors, dir : 0 .. MaxDirErrors]
    <3>1. budget.errors + 1 \in 0 .. MaxErrors
      BY <1>12, LimitsAssumption DEF PersistFails, SInv, Typed, TypeOK
    <3> QED
      BY <1>12, <3>1 DEF PersistFails, SInv, Typed, TypeOK
  <2>2. chosen' = chosen /\ mem' = mem /\ seen' = seen /\ stable' = stable
        /\ promised' = promised /\ snapshot' = snapshot /\ running' \in BOOLEAN
    BY <1>12 DEF PersistFails
  <2>3. busy' \in [Files -> {"no", "temp", "renamed"}]
    BY <1>12 DEF PersistFails, SInv, Typed, TypeOK
  <2>4. Typed'
    BY <2>1, <2>2, <2>3 DEF SInv, Typed, TypeOK
  <2>5. LogsSound' /\ SmsSound'
    BY <2>2 DEF SInv, LogsSound, SmsSound, LogSound, SmSound, Agrees, LastIndex
  <2> QED
    BY <2>4, <2>5 DEF SInv
<1>13. ASSUME NEW kept \in SUBSET Files, Crash(kept)
       PROVE  SInv'
  <2>1. /\ mem' \in [Files -> Image] /\ seen' = mem' /\ stable' = mem' /\ promised' = mem'
        /\ mem'["log"] \in {seen["log"], stable["log"]}
        /\ mem'["sm"] \in {seen["sm"], stable["sm"]}
        /\ busy' \in [Files -> {"no", "temp", "renamed"}]
    BY <1>13 DEF Crash, SInv, Typed, TypeOK, Files
  <2>2. mem'["log"] \in LogImage /\ mem'["sm"] \in SmImage
    BY <2>1 DEF SInv, Typed, TypeOK
  <2>3. chosen' = chosen /\ snapshot' = mem'["sm"].applied /\ running' = TRUE
    BY <1>13 DEF Crash
  <2>4. snapshot' \in 0 .. MaxIndex
    BY <2>2, <2>3 DEF SmImage
  <2>5. budget' \in [crashes : 0 .. MaxCrashes, errors : 0 .. MaxErrors, dir : 0 .. MaxDirErrors]
    <3>1. budget.crashes + 1 \in 0 .. MaxCrashes
      BY <1>13, LimitsAssumption DEF Crash, SInv, Typed, TypeOK
    <3> QED
      BY <1>13, <3>1 DEF Crash, SInv, Typed, TypeOK
  <2>6. Typed'
    BY <2>1, <2>2, <2>3, <2>4, <2>5 DEF SInv, Typed, TypeOK
  <2>7. LogsSound' /\ SmsSound'
    BY <2>1, <2>3 DEF SInv, LogsSound, SmsSound, LogSound, SmSound, Agrees, LastIndex
  <2> QED
    BY <2>6, <2>7 DEF SInv
<1>14. CASE UNCHANGED vars
  BY <1>14 DEF vars, SInv, Typed, TypeOK, LogsSound, SmsSound, LogSound, SmSound, Agrees, LastIndex
<1> QED
  BY <1>1, <1>2, <1>3, <1>4, <1>5, <1>6, <1>7, <1>8, <1>9, <1>10, <1>11, <1>12, <1>13, <1>14
     DEF Next, LogCall, SmCall

\* Every state has the types of TypeOK: no call, error or crash leaves a file
\* or an image in memory that is not a log or a state.
THEOREM TypeCorrect == Spec => []TypeOK
<1>1. SInv => TypeOK
  BY DEF SInv, Typed
<1> QED
  BY <1>1, SInvInit, SInvNext, PTL DEF Spec

\* In memory and in every image a crash may leave, the metadata is the chosen
\* log up to the applied index: requests are applied in order, each once, for
\* any batches, snapshots, purges, write errors and crashes.
THEOREM AppliedStaysChosen == Spec => []AppliedIsChosen
<1>1. SInv => AppliedIsChosen
  BY DEF SInv, SmsSound, SmSound, AppliedIsChosen
<1> QED
  BY <1>1, SInvInit, SInvNext, PTL DEF Spec

-----------------------------------------------------------------------------
(* Durability, while every fsync of the directory succeeds.                *)

\* The image that a call writes keeps the snapshot between the files.
LEMMA BeginSteady ==
    ASSUME SInv, budget.dir = 0, DInv, NEW f \in Files, NEW image, Begin(f, image),
           f = "log" => image.purged <= snapshot,
           f = "sm" => snapshot <= image.applied,
           UNCHANGED snapshot
    PROVE  DInv'
<1>1. /\ mem' = [mem EXCEPT ![f] = image] /\ busy' = [busy EXCEPT ![f] = "temp"]
      /\ seen' = seen /\ stable' = stable /\ promised' = promised /\ running' = running
      /\ busy[f] = "no" /\ mem \in [Files -> Image]
      /\ busy \in [Files -> {"no", "temp", "renamed"}]
  BY DEF Begin, diskVars, SInv, Typed, TypeOK
<1>2. \A g \in Files : FileSteady(g)'
  BY <1>1 DEF DInv, FileSteady
<1>3. SnapshotBetween'
  <2>1. CASE f = "log"
    <3>1. mem'["log"] = image /\ mem'["sm"] = mem["sm"]
      BY <1>1, <2>1 DEF Files
    <3> QED
      BY <1>1, <2>1, <3>1 DEF DInv, SnapshotBetween
  <2>2. CASE f = "sm"
    <3>1. mem'["sm"] = image /\ mem'["log"] = mem["log"]
      BY <1>1, <2>2 DEF Files
    <3> QED
      BY <1>1, <2>2, <3>1 DEF DInv, SnapshotBetween
  <2> QED
    BY <2>1, <2>2 DEF Files
<1> QED
  BY <1>2, <1>3 DEF DInv

LEMMA DInvInit == Init => DInv
<1> SUFFICES ASSUME Init
             PROVE  DInv
  OBVIOUS
<1>1. Blank["log"].purged = 0 /\ Blank["sm"].applied = 0
  BY DEF Blank, Files, NoLog, NoSm
<1> QED
  BY <1>1 DEF Init, DInv, FileSteady, SnapshotBetween

LEMMA DInvNext == SInv /\ DInv /\ [Next]_vars => DInv'
<1> SUFFICES ASSUME SInv, DInv, [Next]_vars, budget'.dir = 0
             PROVE  DInv'
  BY DEF DInv
<1> USE DEF Files
<1>0. /\ mem["log"] \in LogImage /\ mem["sm"] \in SmImage
      /\ mem["log"].purged \in Nat /\ mem["sm"].applied \in Nat /\ snapshot \in Nat
      /\ mem \in [Files -> Image] /\ seen \in [Files -> Image]
      /\ stable \in [Files -> Image] /\ promised \in [Files -> Image]
      /\ busy \in [Files -> {"no", "temp", "renamed"}]
      /\ budget \in [crashes : 0 .. MaxCrashes, errors : 0 .. MaxErrors, dir : 0 .. MaxDirErrors]
  BY LogFields DEF SInv, Typed, TypeOK, SmImage
<1>a. budget.dir = 0 => (\A f \in Files : FileSteady(f)) /\ SnapshotBetween
  BY DEF DInv
<1>b. mem["log"].purged <= snapshot \/ budget.dir # 0
  BY <1>a DEF SnapshotBetween
<1>c. snapshot <= mem["sm"].applied \/ budget.dir # 0
  BY <1>a DEF SnapshotBetween
<1>1. ASSUME NEW t \in Terms, SaveVote(t)
      PROVE  DInv'
  <2>1. [mem["log"] EXCEPT !.vote = t].purged = mem["log"].purged
    BY <1>0 DEF LogImage
  <2>2. budget.dir = 0
    BY <1>1 DEF SaveVote, Begin, diskVars
  <2> QED
    BY <1>1, <1>b, <2>1, <2>2, BeginSteady DEF SaveVote
<1>2. ASSUME NEW t \in Terms, AppendEntry(t)
      PROVE  DInv'
  <2>1. [mem["log"] EXCEPT !.entries = Append(@, t)].purged = mem["log"].purged
    BY <1>0 DEF LogImage
  <2>2. budget.dir = 0
    BY <1>2 DEF AppendEntry, Begin, diskVars
  <2> QED
    BY <1>2, <1>b, <2>1, <2>2, BeginSteady DEF AppendEntry
<1>3. ASSUME NEW i \in 1 .. MaxIndex, Truncate(i)
      PROVE  DInv'
  <2>1. TruncateFrom(mem["log"], i).purged = mem["log"].purged
    BY <1>0 DEF LogImage, TruncateFrom
  <2>2. budget.dir = 0
    BY <1>3 DEF Truncate, Begin, diskVars
  <2> QED
    BY <1>3, <1>b, <2>1, <2>2, BeginSteady DEF Truncate
<1>4. ASSUME NEW i \in 1 .. MaxIndex, SaveCommitted(i)
      PROVE  DInv'
  <2>1. [mem["log"] EXCEPT !.committed = i].purged = mem["log"].purged
    BY <1>0 DEF LogImage
  <2>2. budget.dir = 0
    BY <1>4 DEF SaveCommitted, Begin, diskVars
  <2> QED
    BY <1>4, <1>b, <2>1, <2>2, BeginSteady DEF SaveCommitted
<1>5. ASSUME NEW i \in 1 .. MaxIndex, Purge(i)
      PROVE  DInv'
  <2>1. i > mem["log"].purged /\ i <= snapshot
    BY <1>0, <1>5 DEF Purge
  <2>2. PurgeUpTo(mem["log"], i).purged = i
    BY <1>0, <2>1, PurgeSound DEF SInv, LogsSound
  <2>3. budget.dir = 0
    BY <1>5 DEF Purge, Begin, diskVars
  <2> QED
    BY <1>5, <2>1, <2>2, <2>3, BeginSteady DEF Purge
<1>6. ASSUME NEW i \in 1 .. MaxIndex, Apply(i)
      PROVE  DInv'
  <2> DEFINE l == mem["log"]
             sm == mem["sm"]
             es == SubSeq(l.entries, sm.applied + 1 - l.purged, i - l.purged)
  <2>1. ApplyEntries(sm, es).applied = i
    <3>1. /\ i \in sm.applied + 1 .. l.committed /\ sm.applied >= l.purged
          /\ LogSound(l) /\ SmSound(sm) /\ chosen \in [1 .. MaxIndex -> Terms]
      BY <1>6 DEF Apply, SInv, LogsSound, SmsSound, Typed, TypeOK
    <3> QED
      BY <1>0, <3>1, ApplySound
  <2>2. budget.dir = 0 /\ UNCHANGED snapshot /\ Begin("sm", ApplyEntries(sm, es))
    BY <1>6 DEF Apply, Begin, diskVars
  <2>3. l.committed \in Nat
    BY <1>0, LogFields
  <2>4. snapshot <= i
    BY <1>0, <1>6, <1>c, <2>2, <2>3 DEF Apply
  <2> HIDE DEF es, l, sm
  <2> QED
    BY <2>1, <2>2, <2>4, BeginSteady
<1>7. ASSUME NEW i \in 1 .. MaxIndex, InstallSnapshot(i)
      PROVE  DInv'
  <2>1. /\ budget.dir = 0 /\ UNCHANGED snapshot
        /\ Begin("sm", [applied |-> i, state |-> SubSeq(chosen, 1, i)])
    BY <1>7 DEF InstallSnapshot, Begin, diskVars
  <2>2. snapshot <= i
    BY <1>0, <1>7, <1>c, <2>1, LimitsAssumption DEF InstallSnapshot
  <2> QED
    BY <2>1, <2>2, BeginSteady
<1>8. CASE BuildSnapshot
  <2>1. /\ running /\ busy["sm"] = "no" /\ mem["sm"].applied > snapshot
        /\ snapshot' = mem["sm"].applied /\ budget.dir = 0
        /\ UNCHANGED <<mem, seen, stable, promised, busy, running>>
    BY <1>8 DEF BuildSnapshot, diskVars
  <2>2. seen["sm"] = mem["sm"] /\ stable["sm"] = mem["sm"]
    BY <1>a, <2>1 DEF FileSteady
  <2>3. \A l \in {mem["log"], seen["log"], stable["log"]} : l.purged <= snapshot'
    <3>1. seen["log"] \in LogImage /\ stable["log"] \in LogImage
      BY DEF SInv, Typed, TypeOK
    <3>2. seen["log"].purged \in Nat /\ stable["log"].purged \in Nat
      BY <3>1, LogFields
    <3> QED
      BY <1>0, <1>a, <2>1, <3>2 DEF SnapshotBetween
  <2>4. SnapshotBetween'
    BY <1>0, <2>1, <2>2, <2>3 DEF SnapshotBetween
  <2> QED
    BY <1>a, <2>1, <2>4 DEF DInv, FileSteady
<1>9. ASSUME NEW f \in Files, Rename(f)
      PROVE  DInv'
  <2>1. /\ busy[f] = "temp" /\ seen' = [seen EXCEPT ![f] = mem[f]]
        /\ busy' = [busy EXCEPT ![f] = "renamed"] /\ budget.dir = 0
        /\ UNCHANGED <<mem, stable, promised, running, snapshot>>
    BY <1>9 DEF Rename
  <2>2. \A g \in Files : FileSteady(g)'
    BY <1>0, <1>a, <2>1 DEF FileSteady
  <2>3. seen'["log"] \in {seen["log"], mem["log"]} /\ seen'["sm"] \in {seen["sm"], mem["sm"]}
    BY <1>0, <2>1
  <2>4. SnapshotBetween'
    BY <1>a, <2>1, <2>3 DEF SnapshotBetween
  <2> QED
    BY <2>2, <2>4 DEF DInv
<1>10. ASSUME NEW f \in Files, SyncDir(f)
       PROVE  DInv'
  <2>1. /\ busy[f] = "renamed" /\ stable' = seen /\ promised' = [promised EXCEPT ![f] = mem[f]]
        /\ busy' = [busy EXCEPT ![f] = "no"] /\ budget.dir = 0
        /\ UNCHANGED <<mem, seen, running, snapshot>>
    BY <1>10 DEF SyncDir
  <2>2. \A g \in Files : FileSteady(g)'
    BY <1>0, <1>a, <2>1 DEF FileSteady
  <2>3. SnapshotBetween'
    BY <1>a, <2>1 DEF SnapshotBetween
  <2> QED
    BY <2>2, <2>3 DEF DInv
<1>11. ASSUME NEW f \in Files, SyncDirFails(f)
       PROVE  DInv'
  <2>1. budget'.dir = budget.dir + 1 /\ budget.dir \in Nat
    BY <1>0, <1>11, LimitsAssumption DEF SyncDirFails
  <2> QED
    BY <2>1
<1>12. ASSUME NEW f \in Files, PersistFails(f)
       PROVE  DInv'
  <2>1. /\ busy[f] = "temp" /\ busy' = [busy EXCEPT ![f] = "no"] /\ running' = FALSE
        /\ UNCHANGED <<mem, seen, stable, promised, snapshot>>
    BY <1>12 DEF PersistFails
  <2>2. budget.dir = 0
    BY <1>0, <1>12 DEF PersistFails
  <2>3. \A g \in Files : FileSteady(g)'
    BY <1>0, <1>a, <2>1, <2>2 DEF FileSteady
  <2> QED
    BY <1>a, <2>1, <2>2, <2>3 DEF DInv, SnapshotBetween
<1>13. ASSUME NEW kept \in SUBSET Files, Crash(kept)
       PROVE  DInv'
  <2>1. /\ seen' = mem' /\ stable' = mem' /\ promised' = mem'
        /\ mem'["log"] \in {seen["log"], stable["log"]}
        /\ mem'["sm"] \in {seen["sm"], stable["sm"]}
        /\ busy' = [g \in Files |-> "no"] /\ snapshot' = mem'["sm"].applied
    BY <1>13 DEF Crash
  <2>2. budget.dir = 0
    BY <1>0, <1>13 DEF Crash
  <2>3. mem'["log"] \in LogImage /\ mem'["sm"] \in SmImage
    BY <2>1 DEF SInv, Typed, TypeOK
  <2>4. mem'["log"].purged \in Nat /\ mem'["sm"].applied \in Nat
    BY <2>3, LogFields DEF SmImage
  <2>5. mem'["log"].purged <= snapshot /\ snapshot <= mem'["sm"].applied
    BY <1>a, <2>1, <2>2 DEF SnapshotBetween
  <2>6. mem'["log"].purged <= mem'["sm"].applied
    BY <1>0, <2>4, <2>5
  <2>7. SnapshotBetween'
    BY <2>1, <2>4, <2>6 DEF SnapshotBetween
  <2>8. \A g \in Files : FileSteady(g)'
    BY <2>1 DEF FileSteady
  <2> QED
    BY <2>7, <2>8 DEF DInv
<1>14. CASE UNCHANGED vars
  BY <1>14 DEF vars, DInv, FileSteady, SnapshotBetween
<1> QED
  BY <1>1, <1>2, <1>3, <1>4, <1>5, <1>6, <1>7, <1>8, <1>9, <1>10, <1>11, <1>12, <1>13, <1>14
     DEF Next, LogCall, SmCall

\* As long as no fsync of the directory has failed, a crash brings back, for
\* each file, what the last completed call wrote or what the call in progress
\* was writing.
THEOREM CallsStayDurable == Spec => []CallsAreDurable
<1>1. SInv /\ DInv => CallsAreDurable
  BY DEF SInv, Typed, TypeOK, DInv, FileSteady, CallsAreDurable
<1> QED
  BY <1>1, SInvInit, SInvNext, DInvInit, DInvNext, PTL DEF Spec

\* Then a crash never leaves a hole between the applied state and the first
\* entry of the log, whichever image of each file it leaves.
THEOREM NeverAHole == Spec => []NoHole
<1>1. SInv /\ DInv => NoHole
  <2> SUFFICES ASSUME SInv, DInv, budget.dir = 0,
                      NEW l \in {seen["log"], stable["log"]}, NEW sm \in {seen["sm"], stable["sm"]}
               PROVE  sm.applied >= l.purged
    BY DEF NoHole
  <2>1. l.purged \in Nat /\ sm.applied \in Nat /\ snapshot \in Nat
    <3>1. l \in LogImage /\ sm \in SmImage /\ snapshot \in Nat
      BY DEF SInv, Typed, TypeOK
    <3> QED
      BY <3>1, LogFields DEF SmImage
  <2>2. l.purged <= snapshot /\ snapshot <= sm.applied
    BY DEF DInv, SnapshotBetween
  <2> QED
    BY <2>1, <2>2
<1> QED
  BY <1>1, SInvInit, SInvNext, DInvInit, DInvNext, PTL DEF Spec
=============================================================================
