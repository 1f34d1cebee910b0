-------------------------------- MODULE Hlc --------------------------------
(***************************************************************************)
(* The hybrid logical clock of crates/qv-storage/src/hlc.rs: the timestamp *)
(* type Hlc and one node's HlcClock.                                       *)
(*                                                                         *)
(* Every data-plane write is stamped by HlcClock::now on its coordinator;  *)
(* a replica that receives a stamped write calls HlcClock::update.  The    *)
(* physical clock is an input the node does not control: it may stand      *)
(* still, jump forward, or be set back, and it is read again at each call. *)
(* The mutex around `last' makes each call one atomic step.                *)
(***************************************************************************)
EXTENDS Naturals

CONSTANTS
    WallLimit,     \* number of wall_ms values (2^48 in the code)
    CounterLimit   \* number of counter values (2^16 in the code)

ASSUME WallAssumption == WallLimit \in Nat \ {0}
ASSUME CounterAssumption == CounterLimit \in Nat \ {0}

VARIABLES
    last,      \* HlcClock.last
    observed,  \* history: every stamp this life of the node issued or received
    call       \* history: the call that made the last step

vars == <<last, observed, call>>

-----------------------------------------------------------------------------
(* The timestamp type.                                                     *)

Wall == 0 .. WallLimit - 1
Counter == 0 .. CounterLimit - 1
Stamp == [wall_ms : Wall, counter : Counter]

ZERO == [wall_ms |-> 0, counter |-> 0]

\* Hlc::new masks the wall component to its width.
New(wall, c) == [wall_ms |-> wall % WallLimit, counter |-> c]

\* The derived Ord: wall first, counter second.
Less(a, b) == \/ a.wall_ms < b.wall_ms
              \/ a.wall_ms = b.wall_ms /\ a.counter < b.counter

Leq(a, b) == a = b \/ Less(a, b)

\* Mutant: the counter field is one value too narrow.
PackNarrow(a) == a.wall_ms * (CounterLimit - 1) + a.counter

\* Hlc::pack, the form stored in the WAL and sent between nodes.
Pack(a) == a.wall_ms * CounterLimit + a.counter

\* Hlc::unpack.
Unpack(v) == [wall_ms |-> v \div CounterLimit, counter |-> v % CounterLimit]

MaxOf(a, b) == IF a < b THEN b ELSE a

\* u16::saturating_add(1), which HlcClock::update uses on the counter.
SaturatingInc(c) == IF c + 1 < CounterLimit THEN c + 1 ELSE c

-----------------------------------------------------------------------------
(* What the two clock calls return, given `last', the remote stamp and the *)
(* physical clock they read.                                               *)

\* Mutant: a full counter restarts at zero without carrying into the wall.
NextNowNoCarry(l, wall) ==
    IF wall > l.wall_ms THEN New(wall, 0)
    ELSE New(l.wall_ms, (l.counter + 1) % CounterLimit)

NextNow(l, wall) ==
    IF wall > l.wall_ms THEN New(wall, 0)
    ELSE IF l.counter + 1 < CounterLimit THEN New(l.wall_ms, l.counter + 1)
    ELSE New(l.wall_ms + 1, 0)

\* Mutant: the remote counter is ignored when the two walls are equal.
NextUpdateLocalCounter(l, remote, wall) ==
    LET maxWall == MaxOf(wall, MaxOf(l.wall_ms, remote.wall_ms))
    IN  IF maxWall = l.wall_ms THEN New(maxWall, SaturatingInc(l.counter))
        ELSE IF maxWall = remote.wall_ms THEN New(maxWall, SaturatingInc(remote.counter))
        ELSE New(maxWall, 0)

NextUpdate(l, remote, wall) ==
    LET maxWall == MaxOf(wall, MaxOf(l.wall_ms, remote.wall_ms))
    IN  IF maxWall = l.wall_ms /\ maxWall = remote.wall_ms
        THEN New(maxWall, SaturatingInc(MaxOf(l.counter, remote.counter)))
        ELSE IF maxWall = l.wall_ms THEN New(maxWall, SaturatingInc(l.counter))
        ELSE IF maxWall = remote.wall_ms THEN New(maxWall, SaturatingInc(remote.counter))
        ELSE New(maxWall, 0)

-----------------------------------------------------------------------------
(* The clock.  The last representable stamp is the end of the 48-bit epoch *)
(* (the year 10889): `now' would wrap there, so the behaviours considered  *)
(* stop one step before it.                                                *)

EpochEnd == [wall_ms |-> WallLimit - 1, counter |-> CounterLimit - 1]

Init == last = ZERO /\ observed = {} /\ call = "new"

Now(wall) ==
    /\ last # EpochEnd
    /\ last' = NextNow(last, wall)
    /\ observed' = observed \cup {last'}
    /\ call' = "now"

Update(remote, wall) ==
    /\ last' = NextUpdate(last, remote, wall)
    /\ observed' = observed \cup {remote}
    /\ call' = "update"

\* HlcClock::new in a restarted process: nothing of the old clock survives,
\* and a new life of the node begins.
Restart == last' = ZERO /\ observed' = {} /\ call' = "new"

Next == \/ \E wall \in Wall : Now(wall)
        \/ \E remote \in Stamp, wall \in Wall : Update(remote, wall)
        \/ Restart

Spec == Init /\ [][Next]_vars

-----------------------------------------------------------------------------
TypeOK == /\ last \in Stamp
          /\ observed \subseteq Stamp
          /\ call \in {"new", "now", "update"}

\* `last' never falls behind a stamp the clock has issued or received in this
\* life of the node: HlcClock's receive rule, across any mix of now and update
\* calls and any movement of the physical clock.
LastDominates == \A s \in observed : Leq(s, last)

\* A stamp issued by now() is strictly above everything the node issued or
\* received before it, whatever the physical clock did in between (set back,
\* standing still, counter carried into the wall): the order that makes a
\* later write on the same coordinator win last-writer-wins.
IssuedAboveObserved ==
    [][\A wall \in Wall : Now(wall) => \A s \in observed : Less(s, last')]_vars

\* The packed u64 orders stamps as the struct does (pack: "numeric comparison
\* match[es] logical ordering") and unpack gives the stamp back, so a stamp
\* compared after a trip through the WAL or an RPC compares the same.
PackIsFaithful ==
    \A s \in observed \cup {last} :
        /\ Unpack(Pack(s)) = s
        /\ \A t \in observed \cup {last} : Less(s, t) <=> Pack(s) < Pack(t)
=============================================================================
