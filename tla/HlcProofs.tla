----------------------------- MODULE HlcProofs -----------------------------
(***************************************************************************)
(* Theorems about the hybrid logical clock, for every width of the wall    *)
(* and counter fields.                                                     *)
(***************************************************************************)
EXTENDS Hlc, TLAPS

\* Masking leaves a value that already fits unchanged.
LEMMA MaskFits ==
    ASSUME NEW a \in Wall, NEW c
    PROVE  New(a, c) = [wall_ms |-> a, counter |-> c]
<1>1. a \in Nat /\ a < WallLimit
  BY WallAssumption DEF Wall
<1>2. a % WallLimit = a
  BY <1>1, WallAssumption, SMT
<1> QED
  BY <1>2 DEF New

\* The saturating increment stays within the counter's width and never
\* goes down.
LEMMA SaturatingIncBounds ==
    ASSUME NEW c \in Counter
    PROVE  SaturatingInc(c) \in Counter /\ c <= SaturatingInc(c)
  BY CounterAssumption DEF SaturatingInc, Counter

\* Before the end of the epoch, now() returns a stamp of the right type that
\* is strictly above `last', whatever the physical clock reads.
LEMMA NowIncreases ==
    ASSUME NEW l \in Stamp, l # EpochEnd, NEW wall \in Wall
    PROVE  NextNow(l, wall) \in Stamp /\ Less(l, NextNow(l, wall))
<1>1. l.wall_ms \in Wall /\ l.counter \in Counter
  BY DEF Stamp
<1>2. 0 \in Counter
  BY CounterAssumption DEF Counter
<1>3. CASE wall > l.wall_ms
  <2>1. NextNow(l, wall) = [wall_ms |-> wall, counter |-> 0]
    BY <1>3, MaskFits DEF NextNow
  <2> QED
    BY <2>1, <1>1, <1>2, <1>3 DEF Stamp, Less
<1>4. CASE ~(wall > l.wall_ms) /\ l.counter + 1 < CounterLimit
  <2>1. NextNow(l, wall) = [wall_ms |-> l.wall_ms, counter |-> l.counter + 1]
    BY <1>1, <1>4, MaskFits DEF NextNow
  <2>2. l.counter + 1 \in Counter /\ l.counter < l.counter + 1
    BY <1>1, <1>4, CounterAssumption DEF Counter
  <2> QED
    BY <2>1, <2>2, <1>1 DEF Stamp, Less
<1>5. CASE ~(wall > l.wall_ms) /\ ~(l.counter + 1 < CounterLimit)
  <2>1. l.counter = CounterLimit - 1
    BY <1>1, <1>5, CounterAssumption DEF Counter
  <2>2. l.wall_ms # WallLimit - 1
    BY <2>1 DEF Stamp, EpochEnd
  <2>3. l.wall_ms + 1 \in Wall /\ l.wall_ms < l.wall_ms + 1
    BY <1>1, <2>2, WallAssumption DEF Wall
  <2>4. NextNow(l, wall) = [wall_ms |-> l.wall_ms + 1, counter |-> 0]
    BY <1>5, <2>3, MaskFits DEF NextNow
  <2> QED
    BY <2>4, <2>3, <1>2 DEF Stamp, Less
<1> QED
  BY <1>3, <1>4, <1>5

\* update() returns a stamp at or above both the local and the remote one.
\* (It need not be strictly above: the counter saturates.)
LEMMA UpdateDominates ==
    ASSUME NEW l \in Stamp, NEW remote \in Stamp, NEW wall \in Wall
    PROVE  /\ NextUpdate(l, remote, wall) \in Stamp
           /\ Leq(l, NextUpdate(l, remote, wall))
           /\ Leq(remote, NextUpdate(l, remote, wall))
<1> DEFINE mw == MaxOf(wall, MaxOf(l.wall_ms, remote.wall_ms))
           mc == MaxOf(l.counter, remote.counter)
<1>1. /\ l.wall_ms \in Wall /\ l.counter \in Counter
      /\ remote.wall_ms \in Wall /\ remote.counter \in Counter
  BY DEF Stamp
<1>2. mw \in Wall /\ wall <= mw /\ l.wall_ms <= mw /\ remote.wall_ms <= mw
  BY <1>1, WallAssumption DEF MaxOf, Wall
<1>3. mc \in Counter /\ l.counter <= mc /\ remote.counter <= mc
  BY <1>1, CounterAssumption DEF MaxOf, Counter
<1>4. \A c \in Counter : New(mw, c) = [wall_ms |-> mw, counter |-> c]
  BY <1>2, MaskFits
<1>5. \A s \in Stamp, c \in Counter :
         s.wall_ms = mw /\ s.counter <= c => Leq(s, [wall_ms |-> mw, counter |-> c])
  BY CounterAssumption DEF Stamp, Leq, Less, Counter
<1>below. \A s \in Stamp, c \in Counter :
         s.wall_ms < mw => Leq(s, [wall_ms |-> mw, counter |-> c])
  BY DEF Leq, Less
<1>typed. \A c \in Counter : [wall_ms |-> mw, counter |-> c] \in Stamp
  BY <1>2 DEF Stamp
<1>6. \A c \in Counter : SaturatingInc(c) \in Counter /\ c <= SaturatingInc(c)
  BY SaturatingIncBounds
<1>7. 0 \in Counter
  BY CounterAssumption DEF Counter
<1> HIDE DEF mw, mc
<1>8. CASE mw = l.wall_ms /\ mw = remote.wall_ms
  <2>1. NextUpdate(l, remote, wall) = [wall_ms |-> mw, counter |-> SaturatingInc(mc)]
    BY <1>8, <1>4, <1>3, <1>6 DEF NextUpdate, mw, mc
  <2>2. l.counter <= SaturatingInc(mc) /\ remote.counter <= SaturatingInc(mc)
    BY <1>1, <1>3, <1>6 DEF Counter
  <2>3. SaturatingInc(mc) \in Counter
    BY <1>1, <1>3, <1>6, <1>7
  <2>4. /\ Leq(l, [wall_ms |-> mw, counter |-> SaturatingInc(mc)])
        /\ Leq(remote, [wall_ms |-> mw, counter |-> SaturatingInc(mc)])
    BY <2>2, <2>3, <1>8, <1>5
  <2> QED
    BY <2>1, <2>3, <2>4, <1>typed
<1>9. CASE mw = l.wall_ms /\ mw # remote.wall_ms
  <2>1. NextUpdate(l, remote, wall) = [wall_ms |-> mw, counter |-> SaturatingInc(l.counter)]
    BY <1>9, <1>4, <1>1, <1>6 DEF NextUpdate, mw
  <2>2. remote.wall_ms < mw
    BY <1>1, <1>2, <1>9 DEF Wall
  <2>3. SaturatingInc(l.counter) \in Counter
    BY <1>1, <1>3, <1>6, <1>7
  <2>4. /\ Leq(l, [wall_ms |-> mw, counter |-> SaturatingInc(l.counter)])
        /\ Leq(remote, [wall_ms |-> mw, counter |-> SaturatingInc(l.counter)])
    BY <2>2, <2>3, <1>9, <1>5, <1>below, <1>1, <1>6
  <2> QED
    BY <2>1, <2>3, <2>4, <1>typed
<1>10. CASE mw # l.wall_ms /\ mw = remote.wall_ms
  <2>1. NextUpdate(l, remote, wall) = [wall_ms |-> mw, counter |-> SaturatingInc(remote.counter)]
    BY <1>10, <1>4, <1>1, <1>6 DEF NextUpdate, mw
  <2>2. l.wall_ms < mw
    BY <1>1, <1>2, <1>10 DEF Wall
  <2>3. SaturatingInc(remote.counter) \in Counter
    BY <1>1, <1>3, <1>6, <1>7
  <2>4. /\ Leq(l, [wall_ms |-> mw, counter |-> SaturatingInc(remote.counter)])
        /\ Leq(remote, [wall_ms |-> mw, counter |-> SaturatingInc(remote.counter)])
    BY <2>2, <2>3, <1>10, <1>5, <1>below, <1>1, <1>6
  <2> QED
    BY <2>1, <2>3, <2>4, <1>typed
<1>11. CASE mw # l.wall_ms /\ mw # remote.wall_ms
  <2>1. NextUpdate(l, remote, wall) = [wall_ms |-> mw, counter |-> 0]
    BY <1>11, <1>4, <1>7 DEF NextUpdate, mw
  <2>2. l.wall_ms < mw /\ remote.wall_ms < mw
    BY <1>1, <1>2, <1>11 DEF Wall
  <2>3. 0 \in Counter
    BY <1>1, <1>3, <1>6, <1>7
  <2>4. /\ Leq(l, [wall_ms |-> mw, counter |-> 0])
        /\ Leq(remote, [wall_ms |-> mw, counter |-> 0])
    BY <2>2, <2>3, <1>below
  <2> QED
    BY <2>1, <2>3, <2>4, <1>typed
<1> QED
  BY <1>8, <1>9, <1>10, <1>11

\* The order on stamps is transitive.
LEMMA LessTransitive ==
    ASSUME NEW a \in Stamp, NEW b \in Stamp, NEW c \in Stamp
    PROVE  /\ Leq(a, b) /\ Less(b, c) => Less(a, c)
           /\ Leq(a, b) /\ Leq(b, c) => Leq(a, c)
  BY WallAssumption, CounterAssumption DEF Stamp, Leq, Less, Wall, Counter

-----------------------------------------------------------------------------

IInv == TypeOK /\ LastDominates

LEMMA IInvInit == Init => IInv
  BY WallAssumption, CounterAssumption
  DEF Init, IInv, TypeOK, LastDominates, ZERO, Stamp, Wall, Counter

LEMMA IInvNext == IInv /\ [Next]_vars => IInv'
<1> SUFFICES ASSUME IInv, [Next]_vars PROVE IInv'
  OBVIOUS
<1> USE DEF IInv, TypeOK, LastDominates
<1>1. ASSUME NEW wall \in Wall, Now(wall) PROVE IInv'
  <2>1. last' \in Stamp /\ Less(last, last')
    BY <1>1, NowIncreases DEF Now
  <2>2. observed' = observed \cup {last'} /\ call' = "now"
    BY <1>1 DEF Now
  <2>3. \A s \in observed' : Leq(s, last')
    BY <2>1, <2>2, LessTransitive DEF Leq
  <2> QED
    BY <2>1, <2>2, <2>3
<1>2. ASSUME NEW remote \in Stamp, NEW wall \in Wall, Update(remote, wall)
      PROVE IInv'
  <2>1. last' \in Stamp /\ Leq(last, last') /\ Leq(remote, last')
    BY <1>2, UpdateDominates DEF Update
  <2>2. observed' = observed \cup {remote} /\ call' = "update"
    BY <1>2 DEF Update
  <2>3. \A s \in observed' : Leq(s, last')
    BY <2>1, <2>2, LessTransitive
  <2> QED
    BY <2>1, <2>2, <2>3
<1>3. CASE Restart
  BY <1>3, WallAssumption, CounterAssumption DEF Restart, ZERO, Stamp, Wall, Counter
<1>4. CASE UNCHANGED vars
  BY <1>4 DEF vars
<1> QED
  BY <1>1, <1>2, <1>3, <1>4 DEF Next

\* The clock is always a representable stamp that dominates every stamp the
\* node issued or received since it started.
THEOREM LastDominatesAlways == Spec => [](TypeOK /\ LastDominates)
<1> QED
  BY IInvInit, IInvNext, PTL DEF Spec, IInv

\* now() is strictly above every stamp issued or received before it, for any
\* movement of the physical clock.
THEOREM NowIsAboveObserved == Spec => IssuedAboveObserved
<1>1. IInv /\ [Next]_vars
        => [\A wall \in Wall : Now(wall) => \A s \in observed : Less(s, last')]_vars
  <2> SUFFICES ASSUME IInv, NEW wall \in Wall, Now(wall), NEW s \in observed
               PROVE  Less(s, last')
    OBVIOUS
  <2>1. last' \in Stamp /\ Less(last, last')
    BY NowIncreases DEF Now, IInv, TypeOK
  <2> QED
    BY <2>1, LessTransitive DEF IInv, TypeOK, LastDominates
<1> QED
  BY <1>1, IInvInit, IInvNext, PTL DEF Spec, IssuedAboveObserved

-----------------------------------------------------------------------------
(* The packed form.                                                        *)

LEMMA UnpackPack ==
    ASSUME NEW s \in Stamp
    PROVE  Unpack(Pack(s)) = s
<1>1. s.wall_ms \in Nat /\ s.counter \in 0 .. CounterLimit - 1 /\ CounterLimit \in Nat \ {0}
  BY CounterAssumption, WallAssumption DEF Stamp, Wall, Counter
<1> DEFINE w == s.wall_ms
           c == s.counter
           C == CounterLimit
<1>2. w \in Nat /\ c \in 0 .. C - 1 /\ C \in Nat \ {0}
  BY <1>1
<1>3. s = [wall_ms |-> w, counter |-> c]
  BY DEF Stamp
<1> HIDE DEF w, c, C
<1>4. (w * C + c) \div C = w /\ (w * C + c) % C = c
  BY <1>2
<1> QED
  BY <1>3, <1>4 DEF Unpack, Pack, w, c, C

\* A wall one higher outweighs every counter.
LEMMA WallOutweighs ==
    ASSUME NEW a \in Nat, NEW b \in Nat, NEW C \in Nat, a < b
    PROVE  a * C + C <= b * C /\ a * C \in Nat /\ b * C \in Nat
<1>1. b - (a + 1) \in Nat /\ b = a + 1 + (b - (a + 1))
  OBVIOUS
<1>2. PICK d \in Nat : b = a + 1 + d
  BY <1>1
<1>3. b * C = a * C + C + d * C
  BY <1>2
<1>4. a * C \in Nat /\ d * C \in Nat /\ b * C \in Nat
  OBVIOUS
<1> QED
  BY <1>3, <1>4

LEMMA PackOrders ==
    ASSUME NEW s \in Stamp, NEW t \in Stamp
    PROVE  Less(s, t) => Pack(s) < Pack(t)
<1> DEFINE C == CounterLimit
<1>1. /\ s.wall_ms \in Nat /\ s.counter \in Nat /\ s.counter < C /\ C \in Nat
      /\ t.wall_ms \in Nat /\ t.counter \in Nat /\ t.counter < C
  BY CounterAssumption, WallAssumption DEF Stamp, Wall, Counter
<1>2. Pack(s) = s.wall_ms * C + s.counter /\ Pack(t) = t.wall_ms * C + t.counter
  BY DEF Pack
<1> HIDE DEF C
<1>3. CASE s.wall_ms < t.wall_ms
  <2>1. /\ s.wall_ms * C + C <= t.wall_ms * C
        /\ s.wall_ms * C \in Nat /\ t.wall_ms * C \in Nat
    BY <1>1, <1>3, WallOutweighs
  <2> QED
    BY <1>1, <1>2, <2>1
<1>4. CASE s.wall_ms = t.wall_ms /\ s.counter < t.counter
  <2>1. s.wall_ms * C \in Nat
    BY <1>1
  <2> QED
    BY <1>1, <1>2, <1>4, <2>1
<1> QED
  BY <1>3, <1>4 DEF Less

LEMMA LessTotal ==
    ASSUME NEW s \in Stamp, NEW t \in Stamp
    PROVE  Less(s, t) \/ s = t \/ Less(t, s)
  BY WallAssumption, CounterAssumption DEF Stamp, Less, Wall, Counter

\* A stamp survives its trip through the packed u64, and two packed stamps
\* compare as the stamps do, for every width of the two fields.
THEOREM PackStaysFaithful == Spec => []PackIsFaithful
<1>1. IInv => PackIsFaithful
  <2> SUFFICES ASSUME IInv
               PROVE  PackIsFaithful
    OBVIOUS
  <2>1. \A s \in observed \cup {last} : s \in Stamp
    BY DEF IInv, TypeOK
  <2>2. \A s \in Stamp : Pack(s) \in Nat
    <3> SUFFICES ASSUME NEW s \in Stamp
                 PROVE  Pack(s) \in Nat
      OBVIOUS
    <3>1. s.wall_ms \in Nat /\ s.counter \in Nat /\ CounterLimit \in Nat
      BY WallAssumption, CounterAssumption DEF Stamp, Wall, Counter
    <3> QED
      BY <3>1 DEF Pack
  <2>3. \A s, t \in Stamp : Less(s, t) <=> Pack(s) < Pack(t)
    <3> SUFFICES ASSUME NEW s \in Stamp, NEW t \in Stamp
                 PROVE  Less(s, t) <=> Pack(s) < Pack(t)
      OBVIOUS
    <3>1. Pack(s) \in Nat /\ Pack(t) \in Nat
      BY <2>2
    <3>2. Less(s, t) => Pack(s) < Pack(t)
      BY PackOrders
    <3>3. Less(t, s) => Pack(t) < Pack(s)
      BY PackOrders
    <3> QED
      BY <3>1, <3>2, <3>3, LessTotal
  <2> QED
    BY <2>1, <2>3, UnpackPack DEF PackIsFaithful
<1> QED
  BY <1>1, IInvInit, IInvNext, PTL DEF Spec
=============================================================================
