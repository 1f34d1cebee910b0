-------------------------- MODULE MetaPlaneProofs --------------------------
(***************************************************************************)
(* Theorems about the metadata plane, for any nodes, founders, admin calls *)
(* (overlapping or not), failures, transfers and requests.                 *)
(***************************************************************************)
EXTENDS MetaPlane, WellFoundedInduction, FiniteSetTheorems, SequenceTheorems, TLAPS

-----------------------------------------------------------------------------
(* Least and greatest members of sets of numbers, induction for such a     *)
(* set, and the existence of functions defined by recursion on an interval.*)

\* A set of numbers has a least member.
LEMMA LeastNat ==
    ASSUME NEW T \in SUBSET Nat, T # {}
    PROVE  \E x \in T : \A y \in T : x <= y
<1>1. PICK x \in T : \A y \in T : ~(<<y, x>> \in OpToRel(<, Nat))
  BY NatLessThanWellFounded, WFMin, Zenon
<1>2. \A y \in T : y < x => <<y, x>> \in OpToRel(<, Nat)
  BY DEF OpToRel
<1>3. \A y \in T : ~(y < x)
  BY <1>1, <1>2, Zenon
<1> QED
  BY <1>3

\* A bounded set of numbers has a greatest member.
LEMMA GreatestNat ==
    ASSUME NEW b \in Nat, NEW T \in SUBSET (0 .. b), T # {}
    PROVE  \E x \in T : \A y \in T : x >= y
<1> DEFINE U == {u \in Nat : \E x \in T : u = b - x}
<1>0. \A x \in T : b - x \in U
  OBVIOUS
<1>1. U \in SUBSET Nat /\ U # {}
  BY <1>0
<1>2. PICK u \in U : \A y \in U : u <= y
  BY <1>1, LeastNat
<1>3. PICK x \in T : u = b - x
  OBVIOUS
<1>4. ASSUME NEW y \in T
      PROVE  x >= y
  <2>1. b - y \in U
    BY <1>0
  <2> QED
    BY <1>2, <1>3, <2>1
<1> QED
  BY <1>4

\* Induction, for a set of numbers.
LEMMA UpToAll ==
    ASSUME NEW N \in Nat, NEW T, 0 \in T, \A i \in 1 .. N : i - 1 \in T => i \in T
    PROVE  \A i \in 0 .. N : i \in T
<1> DEFINE U == {i \in 0 .. N : i \notin T}
<1>1. SUFFICES ASSUME U # {}
               PROVE  FALSE
  OBVIOUS
<1>2. U \in SUBSET Nat
  OBVIOUS
<1>3. PICK x \in U : \A y \in U : x <= y
  BY <1>1, <1>2, LeastNat
<1>4. x \in 1 .. N /\ x - 1 \in 0 .. N /\ ~(x <= x - 1)
  OBVIOUS
<1>5. x - 1 \in T
  BY <1>3, <1>4
<1> QED
  BY <1>4, <1>5

\* g folds the functions F[1], ..., F[N] from a; there is such a function.
Folded(N, D, a, F, g) ==
    g \in [0 .. N -> D] /\ g[0] = a /\ \A i \in 1 .. N : g[i] = F[i][g[i - 1]]

LEMMA FoldExists ==
    ASSUME NEW N \in Nat, NEW D, NEW a \in D, NEW F \in [1 .. N -> [D -> D]]
    PROVE  \E g : Folded(N, D, a, F, g)
<1> DEFINE P(n) == \E g \in [0 .. n -> D] : g[0] = a /\ \A i \in 1 .. n : g[i] = F[i][g[i - 1]]
           T == {n \in 0 .. N : P(n)}
<1>1. 0 \in T
  <2>1. [i \in 0 .. 0 |-> a] \in [0 .. 0 -> D] /\ [i \in 0 .. 0 |-> a][0] = a
    OBVIOUS
  <2>2. 1 .. 0 = {}
    OBVIOUS
  <2>3. P(0)
    BY <2>1, <2>2
  <2> QED
    BY <2>3
<1>2. ASSUME NEW n \in 1 .. N, n - 1 \in T
      PROVE  n \in T
  <2>1. PICK g \in [0 .. n - 1 -> D] :
          g[0] = a /\ \A i \in 1 .. n - 1 : g[i] = F[i][g[i - 1]]
    BY <1>2
  <2> DEFINE h == [i \in 0 .. n |-> IF i = n THEN F[n][g[n - 1]] ELSE g[i]]
  <2>2. n - 1 \in 0 .. n - 1 /\ \A i \in 0 .. n : i # n => i \in 0 .. n - 1
    OBVIOUS
  <2>3. F[n][g[n - 1]] \in D
    BY <2>2
  <2>4. h \in [0 .. n -> D]
    BY <2>2, <2>3
  <2>5. h[n] = F[n][g[n - 1]] /\ \A i \in 0 .. n - 1 : h[i] = g[i]
    OBVIOUS
  <2> HIDE DEF h
  <2>6. \A i \in 1 .. n : i = n \/ (i \in 1 .. n - 1 /\ i \in 0 .. n - 1)
    OBVIOUS
  <2>7. \A i \in 1 .. n : i - 1 \in 0 .. n - 1
    OBVIOUS
  <2>8. \A i \in 1 .. n : h[i] = F[i][h[i - 1]]
    BY <2>1, <2>2, <2>5, <2>6, <2>7
  <2>9. h[0] = a
    BY <2>1, <2>5
  <2>10. P(n)
    BY <2>4, <2>8, <2>9
  <2> QED
    BY <2>10
<1> HIDE DEF T
<1>3. \A i \in 0 .. N : i \in T
  BY <1>1, <1>2, UpToAll
<1> QED
  BY <1>3 DEF T, Folded

-----------------------------------------------------------------------------
(* The inductive invariant of the admin calls.                             *)

\* The voters of a sequence of configs.
VotersOf(configs) == UNION Range(configs)

Configs == Seq((SUBSET Nodes) \ {{}})
RaftState == [configs : Configs, nodes : SUBSET Nodes, leader : Nat]

\* A membership that openraft may have: its voters are known, its leader votes.
RaftTyped(r) ==
    /\ r \in RaftState
    /\ VotersOf(r.configs) \subseteq r.nodes /\ r.leader \in VotersOf(r.configs) \cup {0}

Metas == [nodes : SUBSET Nodes, dim : Dims \cup {0}, syncing : SUBSET Nodes]

Kinds == {"bootstrap", "join", "leave"}
CallRecord == [kind : Kinds, node : Nodes, on : Nat, step : Nat, goal : SUBSET Nodes]

\* A call in progress: where it is, and that it read a goal before it changes.
CallTyped(r) ==
    /\ r \in CallRecord
    /\ r.step >= 1 /\ r.step <= Len(Script(r.kind))
    /\ r.kind = "bootstrap" => r.node = Seed
    /\ r.kind # "bootstrap" => r.on # 0
    /\ Script(r.kind)[r.step] \in {"change", "settle"} => r.goal # {}

AdminTyped ==
    /\ meta \in Metas /\ RaftTyped(raft)
    /\ call \in [Calls -> CallRecord \cup {NoCall}]
    /\ \A c \in Calls : call[c] = NoCall \/ CallTyped(call[c])
    /\ told \in [Nodes -> {"unsure", "in", "out"}]
    /\ marred \subseteq {"bootstrap", "join", "leave", "overlap", "stray", "redim"}

\* What a call r that runs alone may rely on at each of its steps, when the
\* metadata is m and the membership is f.
JoinSteady(r, m) ==
    /\ r.step >= 2 => r.node \in m.nodes
    /\ r.step >= 4 => r.node \in r.goal

LeaveSteady(r, f) ==
    /\ r.step \in {2, 3} => r.node \notin r.goal
    /\ r.step = 2 => r.node \in VotersOf(f.configs)
    /\ r.step = 3 => r.node \in VotersOf(f.configs) \/ r.node \notin f.nodes
    /\ r.step = 4 => r.node \notin f.nodes

\* The goal it read still holds every node that was told it is in, and has an
\* address for each.
GoalSteady(r, m) ==
    /\ \A n \in Nodes : told[n] = "in" => n \in r.goal
    /\ "bootstrap" \notin marred => r.goal \subseteq m.nodes

CallSteady(r, m, f) ==
    /\ told[r.node] = "unsure"
    /\ r.kind = "bootstrap" => VotersOf(f.configs) = {Seed}
    /\ r.kind = "join" => JoinSteady(r, m)
    /\ r.kind = "leave" => LeaveSteady(r, f)
    /\ Script(r.kind)[r.step] \in {"change", "settle"} => GoalSteady(r, m)
    /\ Script(r.kind)[r.step] = "settle" => Contains(f.configs, r.goal)

Alone == \A c, d \in Calls : call[c] # NoCall /\ call[d] # NoCall => c = d

Serial ==
    /\ Alone
    /\ \A c \in Calls : call[c] # NoCall => CallSteady(call[c], meta, raft)

\* What was answered about n holds in m and f.
Holds(n, m, f) ==
    /\ told[n] = "in" => n \in VotersOf(f.configs) /\ n \in m.nodes
    /\ told[n] = "out" => n \notin f.nodes \cup m.nodes

SerialInv == "overlap" \notin marred => Serial /\ AnswersHold /\ VotersRoutable

AdminInv == AdminTyped /\ SerialInv

-----------------------------------------------------------------------------
(* Scripts and configs.                                                    *)

Steps == {"register", "learner", "voters", "change", "settle", "deregister"}

LEMMA Scripts ==
    /\ Script("bootstrap") = <<"register">>
    /\ Script("join") = <<"register", "learner", "voters", "change", "settle">>
    /\ Script("leave") = <<"voters", "change", "settle", "deregister">>
  BY DEF Script

\* Where a call of each kind is at each of its steps.
LEMMA ScriptSteps ==
    /\ Len(Script("bootstrap")) = 1 /\ Len(Script("join")) = 5 /\ Len(Script("leave")) = 4
    /\ Script("bootstrap")[1] = "register"
    /\ Script("join")[1] = "register" /\ Script("join")[2] = "learner"
    /\ Script("join")[3] = "voters" /\ Script("join")[4] = "change" /\ Script("join")[5] = "settle"
    /\ Script("leave")[1] = "voters" /\ Script("leave")[2] = "change"
    /\ Script("leave")[3] = "settle" /\ Script("leave")[4] = "deregister"
  BY Scripts

\* The step of a call, from what it is about to do.
LEMMA StepIs ==
    ASSUME NEW r, CallTyped(r)
    PROVE  LET at == Script(r.kind)[r.step]
           IN  /\ at = "register" => r.step = 1 /\ r.kind \in {"bootstrap", "join"}
               /\ at = "learner" => r.step = 2 /\ r.kind = "join"
               /\ at = "voters" => (r.step = 3 /\ r.kind = "join") \/ (r.step = 1 /\ r.kind = "leave")
               /\ at = "change" => (r.step = 4 /\ r.kind = "join") \/ (r.step = 2 /\ r.kind = "leave")
               /\ at = "settle" => (r.step = 5 /\ r.kind = "join") \/ (r.step = 3 /\ r.kind = "leave")
               /\ at = "deregister" => r.step = 4 /\ r.kind = "leave"
<1>1. r.kind \in {"bootstrap", "join", "leave"} /\ r.step \in Nat
  BY DEF CallTyped, CallRecord, Kinds
<1>2. r.step >= 1 /\ r.step <= Len(Script(r.kind))
  BY DEF CallTyped
<1>3. CASE r.kind = "bootstrap"
  <2>1. Len(Script(r.kind)) = 1
    BY <1>3, ScriptSteps
  <2>2. r.step = 1
    BY <1>1, <1>2, <2>1
  <2>3. r.kind = "bootstrap"
    BY <1>3
  <2> QED
    BY <2>2, <2>3, ScriptSteps
<1>4. CASE r.kind = "join"
  <2>1. Len(Script(r.kind)) = 5
    BY <1>4, ScriptSteps
  <2>2. r.step \in {1, 2, 3, 4, 5}
    BY <1>1, <1>2, <2>1
  <2>3. r.kind = "join"
    BY <1>4
  <2> QED
    BY <2>2, <2>3, ScriptSteps
<1>5. CASE r.kind = "leave"
  <2>1. Len(Script(r.kind)) = 4
    BY <1>5, ScriptSteps
  <2>2. r.step \in {1, 2, 3, 4}
    BY <1>1, <1>2, <2>1
  <2>3. r.kind = "leave"
    BY <1>5
  <2> QED
    BY <2>2, <2>3, ScriptSteps
<1> QED
  BY <1>1, <1>3, <1>4, <1>5

\* The voters of one config, and of two.
LEMMA VotersOfOne == \A a : VotersOf(<<a>>) = a
<1> TAKE a
<1>1. Range(<<a>>) = {a}
  BY DEF Range
<1> QED
  BY <1>1 DEF VotersOf

LEMMA VotersOfTwo == \A a, b : VotersOf(<<a, b>>) = a \cup b
<1> TAKE a, b
<1>1. Range(<<a, b>>) = {a, b}
  BY DEF Range
<1> QED
  BY <1>1 DEF VotersOf

\* What a step of change_membership does to a typed membership.
LEMMA ChangedIs ==
    ASSUME RaftTyped(raft), raft.configs # <<>>, NEW goal \in SUBSET Nodes, goal # {},
           goal \subseteq raft.nodes, NEW retain \in BOOLEAN
    PROVE  LET new == Changed(goal, retain)
               voters == VotersOf(new.configs)
           IN  /\ RaftTyped(new) /\ goal \subseteq voters /\ voters \subseteq Voters \cup goal
               /\ new.nodes \subseteq raft.nodes
               /\ Contains(raft.configs, goal) => voters = goal /\ Len(new.configs) = 1
               /\ ~Contains(raft.configs, goal) => Len(new.configs) = 2 /\ Contains(new.configs, goal)
               /\ ~retain => \A n \in Voters : n \notin voters => n \notin new.nodes
<1> DEFINE configs == IF Contains(raft.configs, goal) THEN <<goal>> ELSE <<Last(raft.configs), goal>>
           voters == VotersOf(configs)
           nodes == IF retain THEN raft.nodes ELSE raft.nodes \ (Voters \ voters)
           leader == IF raft.leader \in voters THEN raft.leader ELSE 0
<1>1. Changed(goal, retain) = [configs |-> configs, nodes |-> nodes, leader |-> leader]
  BY DEF Changed, VotersOf
<1>2. /\ raft.configs \in Configs /\ raft.nodes \subseteq Nodes /\ raft.leader \in Nat
      /\ Voters \subseteq raft.nodes
  BY DEF RaftTyped, RaftState, Voters, VotersOf
<1>3. Last(raft.configs) \in (SUBSET Nodes) \ {{}} /\ Last(raft.configs) \subseteq Voters
  <2>1. Len(raft.configs) \in 1 .. Len(raft.configs) /\ DOMAIN raft.configs = 1 .. Len(raft.configs)
    BY <1>2, EmptySeq, LenProperties DEF Configs
  <2>2. Last(raft.configs) \in (SUBSET Nodes) \ {{}}
    BY <1>2, <2>1, ElementOfSeq DEF Last, Configs
  <2>3. Last(raft.configs) \in Range(raft.configs)
    BY <2>1 DEF Last, Range
  <2> QED
    BY <2>2, <2>3 DEF Voters
<1>4. /\ configs \in Configs /\ goal \subseteq voters /\ voters \subseteq Voters \cup goal
      /\ Contains(raft.configs, goal) => voters = goal /\ Len(configs) = 1
      /\ ~Contains(raft.configs, goal) => Len(configs) = 2 /\ Contains(configs, goal)
  <2>1. CASE Contains(raft.configs, goal)
    <3>1. configs = <<goal>>
      BY <2>1
    <3>2. <<goal>> \in Configs /\ Len(<<goal>>) = 1
      BY DEF Configs
    <3> HIDE DEF configs
    <3> QED
      BY <2>1, <3>1, <3>2, VotersOfOne
  <2>2. CASE ~Contains(raft.configs, goal)
    <3> DEFINE last == Last(raft.configs)
    <3>1. configs = <<last, goal>>
      BY <2>2
    <3>2. last \in (SUBSET Nodes) \ {{}} /\ last \subseteq Voters
      BY <1>3
    <3> HIDE DEF last, configs
    <3>3. <<last, goal>> \in Configs /\ Len(<<last, goal>>) = 2 /\ <<last, goal>>[2] = goal
      BY <3>2 DEF Configs
    <3>4. Contains(<<last, goal>>, goal)
      BY <3>3 DEF Contains
    <3> QED
      BY <2>2, <3>1, <3>2, <3>3, <3>4, VotersOfTwo
  <2> QED
    BY <2>1, <2>2
<1> HIDE DEF configs
<1>5. voters \subseteq nodes /\ nodes \subseteq raft.nodes /\ leader \in Nat /\ leader \in voters \cup {0}
  BY <1>2, <1>4
<1>6. [configs |-> configs, nodes |-> nodes, leader |-> leader] \in RaftState
  BY <1>2, <1>4, <1>5 DEF RaftState
<1> HIDE DEF voters, nodes, leader
<1>7. RaftTyped([configs |-> configs, nodes |-> nodes, leader |-> leader])
  BY <1>5, <1>6 DEF RaftTyped, voters
<1>8. ~retain => \A n \in Voters : n \notin voters => n \notin nodes
  BY DEF nodes
<1> QED
  BY <1>1, <1>4, <1>5, <1>7, <1>8 DEF voters

-----------------------------------------------------------------------------
(* Admin calls.                                                            *)

LEMMA AnswersAre == AnswersHold <=> ("overlap" \notin marred => \A n \in Nodes : Holds(n, meta, raft))
  BY DEF AnswersHold, Holds, Voters, VotersOf

LEMMA NoCallIs ==
    /\ NoCall.kind = "none" /\ NoCall.node = 0 /\ NoCall.step = 0
    /\ \A r \in CallRecord : r # NoCall
  BY DEF NoCall, CallRecord, Kinds

\* With one call in progress that is no bootstrap, every voter is registered.
LEMMA VotersRegistered ==
    ASSUME Serial, VotersRoutable, "overlap" \notin marred, "bootstrap" \notin marred,
           \A c \in Calls : call[c].kind # "bootstrap"
    PROVE  VotersOf(raft.configs) \subseteq meta.nodes
  BY DEF VotersRoutable, Voters, VotersOf

LEMMA AdminInit == Init => AdminInv
<1> SUFFICES ASSUME Init
             PROVE  AdminInv
  OBVIOUS
<1>1. PICK s \in Setups :
        /\ meta = [nodes |-> s.founders, dim |-> FirstDim, syncing |-> {}]
        /\ raft = [configs |-> IF s.founders = {} THEN <<>> ELSE <<s.founders>>,
                   nodes |-> s.founders,
                   leader |-> IF s.founders = {} THEN 0 ELSE Min(s.founders)]
        /\ call = [c \in Calls |-> NoCall]
        /\ told = [n \in Nodes |-> IF n \in s.founders THEN "in" ELSE "unsure"]
        /\ marred = {}
  BY DEF Init
<1> DEFINE F == s.founders
<1>2. F \in SUBSET Nodes
  BY SetupsAssumption DEF Setup
<1>3. FirstDim \in Dims
  <2>1. Dims \in SUBSET Nat /\ Dims # {}
    BY DimsAssumption
  <2>2. \E x \in Dims : \A y \in Dims : x <= y
    BY <2>1, LeastNat
  <2> QED
    BY <2>2 DEF FirstDim, Min
<1>4. F # {} => Min(F) \in F /\ Min(F) \in Nat
  <2>1. F \in SUBSET Nat
    BY <1>2, NodesAssumption
  <2> HIDE DEF F
  <2>2. F # {} => \E x \in F : \A y \in F : x <= y
    BY <2>1, LeastNat
  <2> QED
    BY <2>1, <2>2 DEF Min
<1> HIDE DEF F
<1>5. meta \in Metas
  BY <1>1, <1>2, <1>3 DEF Metas, F
<1>6. /\ raft.configs \in Configs /\ VotersOf(raft.configs) = F /\ raft.nodes = F
      /\ raft.leader = (IF F = {} THEN 0 ELSE Min(F))
  <2>1. raft.configs = (IF F = {} THEN <<>> ELSE <<F>>) /\ raft.nodes = F
        /\ raft.leader = (IF F = {} THEN 0 ELSE Min(F))
    BY <1>1 DEF F
  <2>2. CASE F = {}
    <3>1. <<>> \in Configs
      BY EmptySeq DEF Configs
    <3>2. VotersOf(<<>>) = {}
      BY DEF VotersOf, Range
    <3> QED
      BY <2>1, <2>2, <3>1, <3>2
  <2>3. CASE F # {}
    <3>1. <<F>> \in Configs
      BY <1>2, <2>3 DEF Configs
    <3> QED
      BY <2>1, <2>3, <3>1, VotersOfOne
  <2> QED
    BY <2>2, <2>3
<1>7. raft \in RaftState
  BY <1>1, <1>2, <1>4, <1>6 DEF RaftState, F
<1>8. RaftTyped(raft)
  BY <1>4, <1>6, <1>7 DEF RaftTyped
<1>9. AdminTyped
  BY <1>1, <1>5, <1>8 DEF AdminTyped
<1>10. meta.nodes = F /\ (\A c \in Calls : call[c] = NoCall) /\ marred = {}
       /\ \A n \in Nodes : told[n] = IF n \in F THEN "in" ELSE "unsure"
  BY <1>1 DEF F
<1>11. Serial
  BY <1>10 DEF Serial, Alone
<1>12. AnswersHold /\ VotersRoutable
  BY <1>6, <1>10 DEF AnswersHold, VotersRoutable, Voters, VotersOf
<1> QED
  BY <1>9, <1>11, <1>12 DEF AdminInv, SerialInv

LEMMA BeginKeeps ==
    ASSUME AdminInv, NEW c \in Calls, NEW kind \in Kinds, NEW n \in Nodes, NEW leader \in Nat,
           BeginCall(c, kind, n, leader), RaftTyped(raft'),
           \/ UNCHANGED raft /\ kind # "bootstrap" /\ leader # 0
           \/ /\ kind = "bootstrap" /\ n = Seed /\ VotersOf(raft.configs) = {}
              /\ VotersOf(raft'.configs) = {Seed} /\ raft'.nodes = {Seed}
    PROVE  AdminInv'
<1> DEFINE r == [kind |-> kind, node |-> n, on |-> leader, step |-> 1, goal |-> {}]
<1>1. /\ call' = [call EXCEPT ![c] = r] /\ told' = [told EXCEPT ![n] = "unsure"]
      /\ UNCHANGED meta
      /\ marred' = marred \cup IF \E d \in Calls : call[d] # NoCall THEN {"overlap"} ELSE {}
  BY DEF BeginCall
<1>2. Script(kind)[1] \in {"register", "voters"} /\ 1 <= Len(Script(kind))
  BY ScriptSteps DEF Kinds
<1>3. r \in CallRecord
  BY DEF CallRecord
<1>4. CallTyped(r)
  BY <1>2, <1>3 DEF CallTyped
<1>5. /\ r.kind = kind /\ r.node = n /\ r.step = 1
  OBVIOUS
<1> HIDE DEF r
<1>6. AdminTyped'
  BY <1>1, <1>3, <1>4 DEF AdminInv, AdminTyped
<1>7. ASSUME "overlap" \notin marred'
      PROVE  Serial' /\ AnswersHold' /\ VotersRoutable'
  <2>1. /\ "overlap" \notin marred /\ (\A d \in Calls : call[d] = NoCall) /\ marred' = marred
    BY <1>1, <1>7
  <2>2. /\ \A d \in Calls : call'[d] # NoCall => d = c
        /\ call'[c] = r
    BY <1>1, <2>1 DEF AdminInv, AdminTyped
  <2>3. told'[n] = "unsure" /\ \A x \in Nodes : x # n => told'[x] = told[x]
    BY <1>1 DEF AdminInv, AdminTyped
  <2>4. CallSteady(r, meta, raft)'
    BY <1>2, <1>5, <2>3 DEF CallSteady, JoinSteady, LeaveSteady
  <2>5. Serial'
    BY <2>2, <2>4 DEF Serial, Alone
  <2>6. \A x \in Nodes : Holds(x, meta, raft)
    BY <2>1, AnswersAre DEF AdminInv, SerialInv
  <2>7. \A x \in Nodes : Holds(x, meta, raft)'
    BY <1>1, <2>3, <2>6 DEF Holds
  <2>8. AnswersHold'
    BY <2>7 DEF AnswersHold, Holds, Voters, VotersOf
  <2>9. VotersRoutable'
    <3>1. CASE UNCHANGED raft
      <4>1. \A d \in Calls : call[d].kind # "bootstrap"
        BY <2>1, NoCallIs
      <4>2. "bootstrap" \notin marred => VotersOf(raft.configs) \subseteq meta.nodes
        BY <2>1, <4>1, VotersRegistered DEF AdminInv, SerialInv
      <4> QED
        BY <1>1, <2>1, <3>1, <4>2 DEF VotersRoutable, Voters, VotersOf
    <3>2. CASE kind = "bootstrap"
      <4>1. call'[c].kind = "bootstrap"
        BY <1>5, <2>2, <3>2
      <4> QED
        BY <4>1 DEF VotersRoutable
    <3> QED
      BY <3>1, <3>2
  <2> QED
    BY <2>5, <2>8, <2>9
<1> QED
  BY <1>6, <1>7 DEF AdminInv, SerialInv

-----------------------------------------------------------------------------
(* What a step of the call c has to leave behind in metadata m and         *)
(* membership f.                                                           *)

Others(c, m, f) == \A x \in Nodes : x # call[c].node => Holds(x, m, f)
Routable(m, f) == "bootstrap" \notin marred => VotersOf(f.configs) \subseteq m.nodes

GoodFor(c, m, f) ==
    /\ m \in Metas /\ RaftTyped(f)
    /\ "overlap" \notin marred =>
          Others(c, m, f) /\ (call[c].kind # "bootstrap" => Routable(m, f))

\* The call is over and what it says is so.
Answered(r, m, f) ==
    IF r.kind = "leave" THEN r.node \notin f.nodes \cup m.nodes
    ELSE r.node \in VotersOf(f.configs) /\ r.node \in m.nodes

\* What is there is good for every call that runs.
LEMMA StaysGood ==
    ASSUME AdminInv, NEW c \in Calls, call[c] # NoCall
    PROVE  GoodFor(c, meta, raft)
<1>1. meta \in Metas /\ RaftTyped(raft)
  BY DEF AdminInv, AdminTyped
<1>2. ASSUME "overlap" \notin marred
      PROVE  Others(c, meta, raft) /\ (call[c].kind # "bootstrap" => Routable(meta, raft))
  <2>1. Serial /\ VotersRoutable /\ \A n \in Nodes : Holds(n, meta, raft)
    BY <1>2, AnswersAre DEF AdminInv, SerialInv
  <2>2. call[c].kind # "bootstrap" => \A d \in Calls : call[d].kind # "bootstrap"
    BY <2>1, NoCallIs DEF Serial, Alone
  <2> QED
    BY <1>2, <2>1, <2>2, VotersRegistered DEF Others, Routable
<1> QED
  BY <1>1, <1>2 DEF GoodFor

LEMMA GoesOn ==
    ASSUME AdminInv, NEW c \in Calls, call[c] # NoCall, GoodFor(c, meta', raft'),
           call' = [call EXCEPT ![c] = call'[c]], CallTyped(call'[c]),
           call[c].kind # "bootstrap", UNCHANGED <<told, marred>>,
           "overlap" \notin marred => CallSteady(call'[c], meta', raft'),
           call'[c].node = call[c].node
    PROVE  AdminInv'
<1>1. AdminTyped'
  BY DEF AdminInv, AdminTyped, GoodFor, CallTyped
<1>2. ASSUME "overlap" \notin marred
      PROVE  Serial' /\ AnswersHold' /\ VotersRoutable'
  <2>1. \A d \in Calls : d # c => call'[d] = NoCall
    BY <1>2 DEF AdminInv, AdminTyped, SerialInv, Serial, Alone
  <2>2. CallSteady(call'[c], meta', raft') /\ told[call[c].node] = "unsure"
    BY <1>2 DEF AdminInv, SerialInv, Serial, CallSteady
  <2>3. CallSteady(call[c], meta, raft)'
    BY <2>2 DEF CallSteady, GoalSteady
  <2>4. Serial'
    BY <2>1, <2>3 DEF Serial, Alone
  <2>5. \A x \in Nodes : Holds(x, meta, raft)'
    BY <1>2, <2>2 DEF GoodFor, Others, Holds
  <2>6. AnswersHold'
    BY <2>5 DEF AnswersHold, Holds, Voters, VotersOf
  <2>7. VotersRoutable'
    BY <1>2 DEF GoodFor, Routable, VotersRoutable, Voters, VotersOf
  <2> QED
    BY <2>4, <2>6, <2>7
<1> QED
  BY <1>1, <1>2 DEF AdminInv, SerialInv

LEMMA Fails ==
    ASSUME AdminInv, NEW c \in Calls, call[c] # NoCall, GoodFor(c, meta', raft'), Fail(c),
           \/ marred' = marred \cup {call[c].kind}
           \/ UNCHANGED marred /\ call[c].kind # "bootstrap"
    PROVE  AdminInv'
<1>0. call[c].kind \in Kinds
  BY DEF AdminInv, AdminTyped, CallTyped, CallRecord
<1>1. AdminTyped'
  BY <1>0 DEF AdminInv, AdminTyped, GoodFor, Fail, Kinds
<1>2. ASSUME "overlap" \notin marred'
      PROVE  Serial' /\ AnswersHold' /\ VotersRoutable'
  <2>0. "overlap" \notin marred
    BY <1>2
  <2>1. \A d \in Calls : call'[d] = NoCall
    BY <2>0 DEF AdminInv, AdminTyped, SerialInv, Serial, Alone, Fail
  <2>2. told[call[c].node] = "unsure"
    BY <2>0 DEF AdminInv, SerialInv, Serial, CallSteady
  <2>4. Serial'
    BY <2>1 DEF Serial, Alone
  <2>5. \A x \in Nodes : Holds(x, meta, raft)'
    BY <2>0, <2>2 DEF GoodFor, Others, Holds, Fail
  <2>6. AnswersHold'
    BY <2>5 DEF AnswersHold, Holds, Voters, VotersOf
  <2>7. VotersRoutable'
    BY <2>0 DEF GoodFor, Routable, VotersRoutable, Voters, VotersOf
  <2> QED
    BY <2>4, <2>6, <2>7
<1> QED
  BY <1>1, <1>2 DEF AdminInv, SerialInv

LEMMA Answers ==
    ASSUME AdminInv, NEW c \in Calls, call[c] # NoCall, GoodFor(c, meta', raft'),
           call' = [call EXCEPT ![c] = NoCall], UNCHANGED marred,
           told' = [told EXCEPT ![call[c].node] = IF call[c].kind = "leave" THEN "out" ELSE "in"],
           "overlap" \notin marred => Routable(meta', raft') /\ Answered(call[c], meta', raft')
    PROVE  AdminInv'
<1>0. call[c].node \in Nodes
  BY DEF AdminInv, AdminTyped, CallTyped, CallRecord
<1>1. AdminTyped'
  BY <1>0 DEF AdminInv, AdminTyped, GoodFor
<1>2. ASSUME "overlap" \notin marred
      PROVE  Serial' /\ AnswersHold' /\ VotersRoutable'
  <2>1. \A d \in Calls : call'[d] = NoCall
    BY <1>2 DEF AdminInv, AdminTyped, SerialInv, Serial, Alone
  <2>2. Serial'
    BY <2>1 DEF Serial, Alone
  <2>3. told'[call[c].node] = (IF call[c].kind = "leave" THEN "out" ELSE "in")
        /\ \A x \in Nodes : x # call[c].node => told'[x] = told[x]
    BY <1>0 DEF AdminInv, AdminTyped
  <2>4. \A x \in Nodes : x # call[c].node => Holds(x, meta, raft)'
    BY <1>2, <2>3 DEF GoodFor, Others, Holds
  <2>5. Answered(call[c], meta', raft')
    BY <1>2
  <2>6. \A x \in Nodes : Holds(x, meta, raft)'
    BY <2>3, <2>4, <2>5 DEF Answered, Holds
  <2>7. AnswersHold'
    BY <2>6 DEF AnswersHold, Holds, Voters, VotersOf
  <2>8. VotersRoutable'
    BY <1>2 DEF Routable, VotersRoutable, Voters, VotersOf
  <2> QED
    BY <2>2, <2>7, <2>8
<1> QED
  BY <1>1, <1>2 DEF AdminInv, SerialInv

-----------------------------------------------------------------------------
(* The steps of a call.                                                    *)

Onward(r, steps) == [r EXCEPT !.step = @ + steps]

\* What a call of a script that answers a step has to find there.
AdvanceGood(c, steps, m, f) ==
    LET on == Onward(call[c], steps)
    IN  IF on.step <= Len(Script(call[c].kind))
          THEN CallTyped(on) /\ ("overlap" \notin marred => CallSteady(on, m, f))
          ELSE "overlap" \notin marred => Routable(m, f) /\ Answered(call[c], m, f)

\* The three outcomes of a request to Raft.
LEMMA SubmitKeeps ==
    ASSUME AdminInv, NEW c \in Calls, call[c] # NoCall, NEW steps \in {1, 2},
           GoodFor(c, meta', raft'),
           \/ Fail(c) /\ marred' = marred \cup {call[c].kind}
           \/ Advance(c, steps) /\ UNCHANGED marred /\ AdvanceGood(c, steps, meta', raft')
    PROVE  AdminInv'
<1>1. CASE Fail(c) /\ marred' = marred \cup {call[c].kind}
  BY <1>1, Fails
<1>2. CASE Advance(c, steps) /\ UNCHANGED marred /\ AdvanceGood(c, steps, meta', raft')
  <2>0. CallTyped(call[c]) /\ call[c] \in CallRecord /\ call \in [Calls -> CallRecord \cup {NoCall}]
    BY DEF AdminInv, AdminTyped, CallTyped
  <2> DEFINE on == Onward(call[c], steps)
  <2>1. /\ on.step = call[c].step + steps /\ on.kind = call[c].kind /\ on.node = call[c].node
        /\ on \in CallRecord
    BY <2>0 DEF Onward, CallRecord
  <2>2. CASE on.step <= Len(Script(call[c].kind))
    <3>1. call' = [call EXCEPT ![c] = on] /\ UNCHANGED told
      BY <1>2, <2>2 DEF Advance, Onward
    <3>2. CallTyped(on) /\ ("overlap" \notin marred => CallSteady(on, meta', raft'))
      BY <1>2, <2>2 DEF AdvanceGood
    <3>3. call[c].kind # "bootstrap"
      <4>1. ASSUME call[c].kind = "bootstrap"
            PROVE  FALSE
        <5>1. Len(Script(call[c].kind)) = 1
          BY <4>1, ScriptSteps
        <5>2. call[c].step >= 1 /\ call[c].step \in Nat
          BY <2>0 DEF CallTyped, CallRecord
        <5> QED
          BY <2>1, <2>2, <5>1, <5>2
      <4> QED
        BY <4>1
    <3> HIDE DEF on
    <3>4. call'[c] = on /\ call' = [call EXCEPT ![c] = call'[c]]
      BY <2>0, <3>1
    <3> QED
      BY <1>2, <2>1, <3>1, <3>2, <3>3, <3>4, GoesOn
  <2>3. CASE ~(on.step <= Len(Script(call[c].kind)))
    <3>1. /\ call' = [call EXCEPT ![c] = NoCall]
          /\ told' = [told EXCEPT ![call[c].node] = IF call[c].kind = "leave" THEN "out" ELSE "in"]
      BY <1>2, <2>3 DEF Advance, Onward
    <3>2. "overlap" \notin marred => Routable(meta', raft') /\ Answered(call[c], meta', raft')
      BY <1>2, <2>3 DEF AdvanceGood
    <3> QED
      BY <1>2, <3>1, <3>2, Answers
  <2> QED
    BY <2>2, <2>3
<1> QED
  BY <1>1, <1>2

\* A call that is about to do something, with what AdminInv says of it.
LEMMA AtIs ==
    ASSUME AdminInv, NEW c \in Calls, At(c) # "none"
    PROVE  /\ call[c] # NoCall /\ CallTyped(call[c]) /\ call[c] \in CallRecord
           /\ call[c].kind \in Kinds /\ call[c].node \in Nodes /\ call[c].step \in Nat
           /\ At(c) = Script(call[c].kind)[call[c].step]
           /\ "overlap" \notin marred => CallSteady(call[c], meta, raft)
<1>1. call[c] # NoCall /\ At(c) = Script(call[c].kind)[call[c].step]
  BY DEF At
<1>2. CallTyped(call[c])
  BY <1>1 DEF AdminInv, AdminTyped
<1>3. "overlap" \notin marred => CallSteady(call[c], meta, raft)
  BY <1>1 DEF AdminInv, SerialInv, Serial
<1> QED
  BY <1>1, <1>2, <1>3 DEF CallTyped, CallRecord

LEMMA OnwardIs ==
    ASSUME NEW r \in CallRecord, NEW steps \in {1, 2}
    PROVE  LET on == Onward(r, steps)
           IN  /\ on \in CallRecord /\ on.kind = r.kind /\ on.node = r.node /\ on.goal = r.goal
               /\ on.on = r.on /\ on.step = r.step + steps
  BY DEF Onward, CallRecord

LEMMA RegisterKeeps ==
    ASSUME AdminInv, NEW c \in Calls, Register(c)
    PROVE  AdminInv'
<1> DEFINE r == call[c]
<1>1. At(c) = "register" /\ Submit(c, RegisterNode(r.node), raft, 1)
  BY DEF Register
<1>2. /\ call[c] # NoCall /\ CallTyped(call[c]) /\ call[c] \in CallRecord
      /\ call[c].kind \in Kinds /\ call[c].node \in Nodes /\ call[c].step \in Nat
      /\ "overlap" \notin marred => CallSteady(call[c], meta, raft)
      /\ Script(call[c].kind)[call[c].step] = "register"
  BY <1>1, AtIs
<1>3. r.step = 1 /\ r.kind \in {"bootstrap", "join"}
  BY <1>2, StepIs
<1>4. meta \in Metas /\ RaftTyped(raft) /\ GoodFor(c, meta, raft)
  BY <1>2, StaysGood DEF GoodFor
<1> DEFINE m == RegisterNode(r.node)
<1>5. m \in Metas /\ m.nodes = meta.nodes \cup {r.node}
  BY <1>2, <1>4 DEF RegisterNode, Metas
<1> HIDE DEF m
<1>6. GoodFor(c, m, raft)
  BY <1>4, <1>5 DEF GoodFor, Others, Holds, Routable
<1>7. AdvanceGood(c, 1, m, raft)
  <2> DEFINE on == Onward(r, 1)
  <2>1. /\ on \in CallRecord /\ on.kind = r.kind /\ on.node = r.node /\ on.goal = r.goal
        /\ on.on = r.on /\ on.step = 2
    BY <1>2, <1>3, OnwardIs
  <2> HIDE DEF on
  <2>2. CASE r.kind = "bootstrap"
    <3>0. Len(Script(r.kind)) = 1
      BY <2>2, ScriptSteps
    <3>1. ~(on.step <= Len(Script(r.kind)))
      BY <2>1, <3>0
    <3>2. "overlap" \notin marred => VotersOf(raft.configs) = {Seed} /\ r.node = Seed
      BY <1>2, <2>2 DEF CallSteady, CallTyped
    <3>3. "overlap" \notin marred => Routable(m, raft) /\ Answered(r, m, raft)
      BY <1>5, <2>2, <3>2 DEF Routable, Answered
    <3> QED
      BY <3>1, <3>3 DEF AdvanceGood, on
  <2>3. CASE r.kind = "join"
    <3>1. Len(Script(r.kind)) = 5 /\ Script(on.kind)[on.step] = "learner"
      BY <2>1, <2>3, ScriptSteps
    <3>2. on.step <= Len(Script(r.kind)) /\ on.step >= 1
      BY <2>1, <3>1
    <3>3. CallTyped(on)
      BY <1>2, <2>1, <3>1, <3>2 DEF CallTyped
    <3>4. "overlap" \notin marred => CallSteady(on, m, raft)
      BY <1>2, <1>5, <2>1, <2>3, <3>1 DEF CallSteady, JoinSteady
    <3> QED
      BY <3>2, <3>3, <3>4 DEF AdvanceGood, on
  <2> QED
    BY <1>3, <2>2, <2>3
<1>8. /\ GoodFor(c, meta', raft')
      /\ \/ Fail(c) /\ marred' = marred \cup {call[c].kind}
         \/ Advance(c, 1) /\ UNCHANGED marred /\ AdvanceGood(c, 1, meta', raft')
  BY <1>1, <1>4, <1>6, <1>7 DEF Submit, m
<1> QED
  BY <1>2, <1>8, SubmitKeeps

LEMMA DeregisterKeeps ==
    ASSUME AdminInv, NEW c \in Calls, Deregister(c)
    PROVE  AdminInv'
<1> DEFINE r == call[c]
           m == DeregisterNode(r.node)
<1>1. At(c) = "deregister" /\ Submit(c, m, raft, 1)
  BY DEF Deregister
<1>2. /\ call[c] # NoCall /\ CallTyped(call[c]) /\ call[c] \in CallRecord
      /\ call[c].kind \in Kinds /\ call[c].node \in Nodes /\ call[c].step \in Nat
      /\ "overlap" \notin marred => CallSteady(call[c], meta, raft)
      /\ Script(call[c].kind)[call[c].step] = "deregister"
  BY <1>1, AtIs
<1>3. r.step = 4 /\ r.kind = "leave"
  BY <1>2, StepIs
<1>4. meta \in Metas /\ RaftTyped(raft) /\ GoodFor(c, meta, raft)
  BY <1>2, StaysGood DEF GoodFor
<1>5. m \in Metas /\ m.nodes = meta.nodes \ {r.node}
  BY <1>2, <1>4 DEF DeregisterNode, Metas
<1> HIDE DEF m
<1>6. "overlap" \notin marred => r.node \notin raft.nodes /\ r.node \notin VotersOf(raft.configs)
  BY <1>2, <1>3, <1>4 DEF CallSteady, LeaveSteady, RaftTyped
<1>7. GoodFor(c, m, raft)
  BY <1>4, <1>5, <1>6 DEF GoodFor, Others, Holds, Routable
<1>8. AdvanceGood(c, 1, m, raft)
  <2> DEFINE on == Onward(r, 1)
  <2>1. on.step = 5
    BY <1>2, <1>3, OnwardIs
  <2> HIDE DEF on
  <2>2. Len(Script(r.kind)) = 4
    BY <1>3, ScriptSteps
  <2>3. ~(on.step <= Len(Script(r.kind)))
    BY <2>1, <2>2
  <2>4. "overlap" \notin marred => Routable(m, raft) /\ Answered(r, m, raft)
    BY <1>3, <1>5, <1>6, <1>7 DEF GoodFor, Answered
  <2> QED
    BY <2>3, <2>4 DEF AdvanceGood, on
<1>9. /\ GoodFor(c, meta', raft')
      /\ \/ Fail(c) /\ marred' = marred \cup {call[c].kind}
         \/ Advance(c, 1) /\ UNCHANGED marred /\ AdvanceGood(c, 1, meta', raft')
  BY <1>1, <1>4, <1>7, <1>8 DEF Submit
<1> QED
  BY <1>2, <1>9, SubmitKeeps

LEMMA AddLearnerKeeps ==
    ASSUME AdminInv, NEW c \in Calls, AddLearner(c)
    PROVE  AdminInv'
<1> DEFINE r == call[c]
           f == [raft EXCEPT !.nodes = @ \cup {call[c].node}]
<1>1. At(c) = "learner" /\ Submit(c, meta, f, 1)
  BY DEF AddLearner
<1>2. /\ call[c] # NoCall /\ CallTyped(call[c]) /\ call[c] \in CallRecord
      /\ call[c].kind \in Kinds /\ call[c].node \in Nodes /\ call[c].step \in Nat
      /\ "overlap" \notin marred => CallSteady(call[c], meta, raft)
      /\ Script(call[c].kind)[call[c].step] = "learner"
  BY <1>1, AtIs
<1>3. r.step = 2 /\ r.kind = "join"
  BY <1>2, StepIs
<1>4. meta \in Metas /\ RaftTyped(raft) /\ GoodFor(c, meta, raft)
  BY <1>2, StaysGood DEF GoodFor
<1>5. /\ f \in RaftState /\ f.configs = raft.configs /\ f.leader = raft.leader
      /\ f.nodes = raft.nodes \cup {r.node}
  BY <1>2, <1>4 DEF RaftTyped, RaftState
<1> HIDE DEF f
<1>6. RaftTyped(f)
  BY <1>4, <1>5 DEF RaftTyped
<1>7. GoodFor(c, meta, f)
  BY <1>4, <1>5, <1>6 DEF GoodFor, Others, Holds, Routable
<1>8. AdvanceGood(c, 1, meta, f)
  <2> DEFINE on == Onward(r, 1)
  <2>1. /\ on \in CallRecord /\ on.kind = r.kind /\ on.node = r.node /\ on.goal = r.goal
        /\ on.on = r.on /\ on.step = 3
    BY <1>2, <1>3, OnwardIs
  <2> HIDE DEF on
  <2>2. Len(Script(r.kind)) = 5 /\ Script(on.kind)[on.step] = "voters"
    BY <1>3, <2>1, ScriptSteps
  <2>3. on.step <= Len(Script(r.kind)) /\ on.step >= 1
    BY <2>1, <2>2
  <2>4. CallTyped(on)
    BY <1>2, <2>1, <2>2, <2>3 DEF CallTyped
  <2>5. "overlap" \notin marred => CallSteady(on, meta, f)
    BY <1>2, <1>3, <2>1, <2>2 DEF CallSteady, JoinSteady
  <2> QED
    BY <2>3, <2>4, <2>5 DEF AdvanceGood, on
<1>9. /\ GoodFor(c, meta', raft')
      /\ \/ Fail(c) /\ marred' = marred \cup {call[c].kind}
         \/ Advance(c, 1) /\ UNCHANGED marred /\ AdvanceGood(c, 1, meta', raft')
  BY <1>1, <1>4, <1>7, <1>8 DEF Submit
<1> QED
  BY <1>2, <1>9, SubmitKeeps

LEMMA ReadVotersKeeps ==
    ASSUME AdminInv, NEW c \in Calls, ReadVoters(c)
    PROVE  AdminInv'
<1> DEFINE r == call[c]
<1>1. At(c) = "voters" /\ UNCHANGED <<meta, raft, marred>>
  BY DEF ReadVoters
<1>2. /\ call[c] # NoCall /\ CallTyped(call[c]) /\ call[c] \in CallRecord
      /\ call[c].kind \in Kinds /\ call[c].node \in Nodes /\ call[c].step \in Nat
      /\ "overlap" \notin marred => CallSteady(call[c], meta, raft)
      /\ Script(call[c].kind)[call[c].step] = "voters"
  BY <1>1, AtIs
<1>3. \/ r.step = 3 /\ r.kind = "join"
      \/ r.step = 1 /\ r.kind = "leave"
  BY <1>2, StepIs
<1>4. meta \in Metas /\ RaftTyped(raft) /\ GoodFor(c, meta, raft) /\ GoodFor(c, meta', raft')
  BY <1>1, <1>2, StaysGood DEF GoodFor
<1>5. CASE r.kind = "leave" /\ Refuses(r.node)
  <2>1. Fail(c) /\ UNCHANGED marred /\ call[c].kind # "bootstrap"
    BY <1>1, <1>5 DEF ReadVoters
  <2> QED
    BY <1>2, <1>4, <2>1, Fails
<1>6. CASE ~(r.kind = "leave" /\ Refuses(r.node))
  <2> DEFINE goal == Goal(r.kind, r.node)
             on == [r EXCEPT !.goal = goal, !.step = @ + 1]
  <2>1. call' = [call EXCEPT ![c].goal = goal, ![c].step = @ + 1] /\ UNCHANGED told
    BY <1>6 DEF ReadVoters
  <2>2. /\ goal = (IF r.kind = "join" THEN Voters \cup {r.node} ELSE Voters \ {r.node})
        /\ Voters = VotersOf(raft.configs) /\ Voters \subseteq Nodes
    BY <1>4 DEF Goal, Voters, VotersOf, RaftTyped, RaftState
  <2>3. goal \in SUBSET Nodes /\ goal # {}
    BY <1>2, <1>3, <1>6, <2>2 DEF Refuses
  <2> HIDE DEF goal
  <2>4. /\ on \in CallRecord /\ on.kind = r.kind /\ on.node = r.node /\ on.goal = goal
        /\ on.on = r.on /\ on.step = r.step + 1
    <3>1. r \in [kind : Kinds, node : Nodes, on : Nat, step : Nat, goal : SUBSET Nodes]
      BY <1>2 DEF CallRecord
    <3> HIDE DEF r
    <3>2. /\ on.kind = r.kind /\ on.node = r.node /\ on.goal = goal
          /\ on.on = r.on /\ on.step = r.step + 1
      BY <3>1
    <3> DEFINE aim == [r EXCEPT !.goal = goal]
    <3>3. aim \in [kind : Kinds, node : Nodes, on : Nat, step : Nat, goal : SUBSET Nodes]
          /\ aim.step = r.step
      BY <2>3, <3>1
    <3>4. on = [aim EXCEPT !.step = @ + 1]
      OBVIOUS
    <3> HIDE DEF aim, on
    <3>5. on \in CallRecord
      BY <3>3, <3>4 DEF CallRecord
    <3> QED
      BY <3>2, <3>5
  <2>5. call \in [Calls -> CallRecord \cup {NoCall}]
    BY DEF AdminInv, AdminTyped
  <2>6. call' = [call EXCEPT ![c] = on]
    BY <1>2, <2>1, <2>5 DEF CallRecord, NoCall
  <2> HIDE DEF on
  <2>7. call'[c] = on /\ call' = [call EXCEPT ![c] = call'[c]]
    BY <2>5, <2>6
  <2>8. Script(on.kind)[on.step] = "change" /\ on.step >= 1 /\ on.step <= Len(Script(on.kind))
    BY <1>3, <2>4, ScriptSteps
  <2>9. CallTyped(on)
    BY <1>2, <2>3, <2>4, <2>8 DEF CallTyped
  <2>10. ASSUME "overlap" \notin marred
         PROVE  CallSteady(on, meta, raft)
    <3>1. CallSteady(r, meta, raft) /\ Others(c, meta, raft) /\ Routable(meta, raft)
      BY <1>2, <1>3, <1>4, <2>10 DEF GoodFor
    <3>2. \A n \in Nodes : told[n] = "in" => n \in goal
      BY <2>2, <3>1 DEF Others, Holds, CallSteady
    <3>3. r.kind = "join" => r.node \in meta.nodes
      BY <1>3, <3>1 DEF CallSteady, JoinSteady
    <3>4. "bootstrap" \notin marred => goal \subseteq meta.nodes
      BY <1>3, <2>2, <3>1, <3>3 DEF Routable
    <3>5. GoalSteady(on, meta)
      BY <2>4, <3>2, <3>4 DEF GoalSteady
    <3>6. r.kind = "join" => JoinSteady(on, meta)
      BY <2>2, <2>4, <3>3 DEF JoinSteady
    <3>7. r.kind = "leave" => LeaveSteady(on, raft)
      BY <1>3, <1>6, <2>2, <2>4 DEF LeaveSteady, Refuses
    <3>8. told[on.node] = "unsure" /\ on.kind # "bootstrap"
      BY <1>3, <2>4, <3>1 DEF CallSteady
    <3> QED
      BY <2>4, <2>8, <3>5, <3>6, <3>7, <3>8 DEF CallSteady
  <2>11. "overlap" \notin marred => CallSteady(call'[c], meta', raft')
    BY <1>1, <2>7, <2>10
  <2> QED
    BY <1>1, <1>2, <1>3, <1>4, <2>1, <2>4, <2>7, <2>9, <2>11, GoesOn
<1> QED
  BY <1>5, <1>6

LEMMA ChangeKeeps ==
    ASSUME AdminInv, NEW c \in Calls, ChangeMembership(c)
    PROVE  AdminInv'
<1> DEFINE r == call[c]
           new == Changed(r.goal, Retain(r.kind))
           voters == VotersOf(new.configs)
           steps == IF At(c) = "change" /\ Len(new.configs) = 1 THEN 2 ELSE 1
<1>1. At(c) \in {"change", "settle"} /\ r.goal \subseteq raft.nodes /\ Submit(c, meta, new, steps)
  BY DEF ChangeMembership
<1>2. /\ call[c] # NoCall /\ CallTyped(call[c]) /\ call[c] \in CallRecord
      /\ call[c].kind \in Kinds /\ call[c].node \in Nodes /\ call[c].step \in Nat
      /\ "overlap" \notin marred => CallSteady(call[c], meta, raft)
      /\ Script(call[c].kind)[call[c].step] = At(c) /\ At(c) # "none"
  BY <1>1, AtIs
<1>3. \/ At(c) = "change" /\ r.step = 4 /\ r.kind = "join"
      \/ At(c) = "settle" /\ r.step = 5 /\ r.kind = "join"
      \/ At(c) = "change" /\ r.step = 2 /\ r.kind = "leave"
      \/ At(c) = "settle" /\ r.step = 3 /\ r.kind = "leave"
  BY <1>1, <1>2, StepIs
<1>4. meta \in Metas /\ RaftTyped(raft) /\ GoodFor(c, meta, raft)
  BY <1>2, StaysGood DEF GoodFor
<1>5. r.goal # {} /\ r.goal \in SUBSET Nodes /\ r.on # 0 /\ r.kind # "bootstrap"
  BY <1>1, <1>2, <1>3 DEF CallTyped, CallRecord
<1>6. ASSUME raft.leader = r.on
      PROVE  GoodFor(c, meta, new) /\ AdvanceGood(c, steps, meta, new)
  <2>1. raft.configs # <<>>
    <3>1. VotersOf(<<>>) = {}
      BY DEF VotersOf, Range
    <3> QED
      BY <1>4, <1>5, <1>6, <3>1 DEF RaftTyped
  <2>2. Retain(r.kind) \in BOOLEAN /\ (r.kind = "leave" => ~Retain(r.kind))
    BY DEF Retain
  <2>3. /\ RaftTyped(new) /\ r.goal \subseteq voters /\ voters \subseteq Voters \cup r.goal
        /\ new.nodes \subseteq raft.nodes
        /\ Contains(raft.configs, r.goal) => voters = r.goal /\ Len(new.configs) = 1
        /\ ~Contains(raft.configs, r.goal) => Len(new.configs) = 2 /\ Contains(new.configs, r.goal)
        /\ r.kind = "leave" => \A n \in Voters : n \notin voters => n \notin new.nodes
    BY <1>1, <1>4, <1>5, <2>1, <2>2, ChangedIs
  <2>4. Voters = VotersOf(raft.configs)
    BY DEF Voters, VotersOf
  <2>5. voters = VotersOf(new.configs)
    OBVIOUS
  <2>6. steps = (IF At(c) = "change" /\ Len(new.configs) = 1 THEN 2 ELSE 1)
    OBVIOUS
  <2> HIDE DEF new, voters, steps
  <2>7. ASSUME "overlap" \notin marred
        PROVE  /\ CallSteady(r, meta, raft) /\ GoalSteady(r, meta)
               /\ Others(c, meta, new) /\ Routable(meta, new)
    <3>1. CallSteady(r, meta, raft) /\ GoalSteady(r, meta)
      BY <1>1, <1>2, <2>7 DEF CallSteady
    <3>2. Others(c, meta, raft) /\ Routable(meta, raft)
      BY <1>4, <1>5, <2>7 DEF GoodFor
    <3>3. Others(c, meta, new)
      BY <2>3, <2>5, <3>1, <3>2 DEF Others, Holds, GoalSteady
    <3>4. Routable(meta, new)
      BY <2>3, <2>4, <2>5, <3>1, <3>2 DEF Routable, GoalSteady
    <3> QED
      BY <3>1, <3>2, <3>3, <3>4
  <2>8. GoodFor(c, meta, new)
    BY <1>4, <2>3, <2>7 DEF GoodFor
  <2> DEFINE on == Onward(r, steps)
  <2>9. steps \in {1, 2}
    BY <2>6
  <2>10. /\ on \in CallRecord /\ on.kind = r.kind /\ on.node = r.node /\ on.goal = r.goal
         /\ on.on = r.on /\ on.step = r.step + steps
    BY <1>2, <2>9, OnwardIs
  <2> HIDE DEF on
  <2>11. CASE r.kind = "join"
    <3>1. Len(Script(r.kind)) = 5
      BY <2>11, ScriptSteps
    <3>2. "overlap" \notin marred => r.node \in r.goal /\ r.node \in meta.nodes
      BY <1>3, <2>7, <2>11 DEF CallSteady, JoinSteady
    <3>3. CASE on.step <= Len(Script(r.kind))
      <4>0. r.step + steps <= 5 /\ r.step \in {4, 5}
        BY <1>3, <2>10, <2>11, <3>1, <3>3
      <4>1. r.step = 4 /\ steps = 1 /\ on.step = 5 /\ on.step >= 1
        BY <2>9, <2>10, <4>0
      <4>2. Script(on.kind)[on.step] = "settle"
        BY <2>10, <2>11, <4>1, ScriptSteps
      <4>3. CallTyped(on)
        BY <1>5, <1>2, <2>10, <3>3, <4>1, <4>2 DEF CallTyped
      <4>4. Len(new.configs) # 1
        BY <1>3, <2>6, <2>11, <4>1
      <4>5. Contains(new.configs, r.goal)
        BY <2>3, <4>4
      <4>6. "overlap" \notin marred => CallSteady(on, meta, new)
        BY <2>7, <2>10, <2>11, <3>2, <4>2, <4>5 DEF CallSteady, JoinSteady, GoalSteady
      <4> QED
        BY <2>8, <3>3, <4>3, <4>6 DEF AdvanceGood, on
    <3>4. CASE ~(on.step <= Len(Script(r.kind)))
      <4>1. "overlap" \notin marred => Routable(meta, new) /\ Answered(r, meta, new)
        BY <2>3, <2>5, <2>7, <2>11, <3>2 DEF Answered
      <4> QED
        BY <2>8, <3>4, <4>1 DEF AdvanceGood, on
    <3> QED
      BY <3>3, <3>4
  <2>12. CASE r.kind = "leave"
    <3>1. Len(Script(r.kind)) = 4
      BY <2>12, ScriptSteps
    <3>2. \/ r.step = 2 /\ steps = 1 /\ on.step = 3 /\ At(c) = "change"
          \/ r.step = 2 /\ steps = 2 /\ on.step = 4 /\ At(c) = "change"
          \/ r.step = 3 /\ steps = 1 /\ on.step = 4 /\ At(c) = "settle"
      BY <1>3, <2>6, <2>9, <2>10, <2>12
    <3>3. on.step >= 1 /\ on.step <= Len(Script(r.kind))
      BY <3>1, <3>2
    <3>4. CallTyped(on)
      BY <1>5, <1>2, <2>10, <3>3 DEF CallTyped
    <3>5. ASSUME "overlap" \notin marred
          PROVE  CallSteady(on, meta, new)
      <4>1. r.node \notin r.goal /\ (r.node \in Voters \/ r.node \notin raft.nodes)
        BY <2>4, <2>7, <2>12, <3>2, <3>5 DEF CallSteady, LeaveSteady
      <4>2. r.node \in voters \/ r.node \notin new.nodes
        BY <2>3, <2>12, <4>1
      <4>3. on.step = 4 => voters = r.goal
        <5>1. CASE r.step = 2 /\ steps = 2
          <6>1. Len(new.configs) = 1
            BY <2>6, <5>1
          <6> QED
            BY <2>3, <6>1
        <5>2. CASE r.step = 3
          <6>1. Contains(raft.configs, r.goal)
            BY <1>2, <2>7, <3>2, <3>5, <5>2 DEF CallSteady
          <6> QED
            BY <2>3, <6>1
        <5>3. CASE on.step = 3
          BY <5>3
        <5> QED
          BY <3>2, <5>1, <5>2, <5>3
      <4>4. on.step = 3 => Len(new.configs) # 1
        BY <2>6, <3>2
      <4>5. on.step = 3 => Contains(new.configs, r.goal)
        BY <2>3, <4>4
      <4>6. LeaveSteady(on, new)
        BY <2>5, <2>10, <3>2, <4>1, <4>2, <4>3 DEF LeaveSteady
      <4>7. Script(on.kind)[on.step] = "settle" => on.step = 3
        BY <2>10, <2>12, <3>2, ScriptSteps
      <4>8. GoalSteady(on, meta)
        BY <2>7, <2>10, <3>5 DEF GoalSteady
      <4>9. told[on.node] = "unsure" /\ on.kind = "leave" /\ on.goal = r.goal
        BY <2>7, <2>10, <2>12, <3>5 DEF CallSteady
      <4> QED
        BY <4>5, <4>6, <4>7, <4>8, <4>9 DEF CallSteady
    <3>6. AdvanceGood(c, steps, meta, new)
      BY <3>3, <3>4, <3>5 DEF AdvanceGood, on
    <3> QED
      BY <2>8, <3>6
  <2> QED
    BY <1>3, <2>11, <2>12
<1>7. steps \in {1, 2}
  OBVIOUS
<1> HIDE DEF new, voters, steps
<1>8. /\ GoodFor(c, meta', raft')
      /\ \/ Fail(c) /\ marred' = marred \cup {call[c].kind}
         \/ Advance(c, steps) /\ UNCHANGED marred /\ AdvanceGood(c, steps, meta', raft')
  BY <1>1, <1>4, <1>6 DEF Submit
<1> QED
  BY <1>2, <1>7, <1>8, SubmitKeeps

LEMMA RefusedKeeps ==
    ASSUME AdminInv, NEW c \in Calls, ChangeRefused(c)
    PROVE  AdminInv'
<1>1. At(c) # "none" /\ UNCHANGED <<meta, raft>> /\ Fail(c) /\ marred' = marred \cup {call[c].kind}
  BY DEF ChangeRefused
<1>2. call[c] # NoCall
  BY <1>1, AtIs
<1>3. GoodFor(c, meta, raft)
  BY <1>2, StaysGood
<1>4. GoodFor(c, meta', raft')
  BY <1>1, <1>3
<1> QED
  BY <1>1, <1>2, <1>4, Fails

\* A step outside the admin calls, which leaves the directory and the voters.
LEMMA QuietKeeps ==
    ASSUME AdminInv, UNCHANGED <<call, told>>, meta' \in Metas, meta'.nodes = meta.nodes,
           RaftTyped(raft'), raft'.configs = raft.configs, raft'.nodes = raft.nodes,
           marred' = marred \/ marred' = marred \cup {"stray"} \/ marred' = marred \cup {"redim"}
    PROVE  AdminInv'
<1>1. AdminTyped'
  BY DEF AdminInv, AdminTyped
<1>2. ("overlap" \in marred' <=> "overlap" \in marred)
      /\ ("bootstrap" \in marred' <=> "bootstrap" \in marred)
  OBVIOUS
<1>3. ASSUME "overlap" \notin marred
      PROVE  Serial' /\ AnswersHold' /\ VotersRoutable'
  <2>1. Serial /\ AnswersHold /\ VotersRoutable
    BY <1>3 DEF AdminInv, SerialInv
  <2>2. ASSUME NEW c \in Calls, call[c] # NoCall
        PROVE  CallSteady(call[c], meta, raft)'
    <3>1. CallSteady(call[c], meta, raft)
      BY <2>1, <2>2 DEF Serial
    <3> QED
      BY <1>2, <3>1 DEF CallSteady, JoinSteady, LeaveSteady, GoalSteady
  <2>3. Serial'
    BY <2>1, <2>2 DEF Serial, Alone
  <2>4. AnswersHold'
    BY <1>2, <2>1 DEF AnswersHold, Voters
  <2>5. VotersRoutable'
    BY <1>2, <2>1 DEF VotersRoutable, Voters
  <2> QED
    BY <2>3, <2>4, <2>5
<1> QED
  BY <1>1, <1>2, <1>3 DEF AdminInv, SerialInv

LEMMA AdminNext == AdminInv /\ [Next]_vars => AdminInv'
<1> SUFFICES ASSUME AdminInv, [Next]_vars
             PROVE  AdminInv'
  OBVIOUS
<1>0. meta \in Metas /\ RaftTyped(raft)
  BY DEF AdminInv, AdminTyped
<1>1. ASSUME NEW c \in Calls, Bootstrap(c)
      PROVE  AdminInv'
  <2>1. /\ raft.configs = <<>> /\ BeginCall(c, "bootstrap", Seed, Seed)
        /\ raft' = [configs |-> <<{Seed}>>, nodes |-> {Seed}, leader |-> Seed]
    BY <1>1 DEF Bootstrap
  <2>2. Seed \in Nodes /\ Seed \in Nat
    BY CallsAssumption, NodesAssumption
  <2>3. <<{Seed}>> \in Configs
    BY <2>2 DEF Configs
  <2>4. VotersOf(<<{Seed}>>) = {Seed} /\ VotersOf(<<>>) = {}
    BY VotersOfOne DEF VotersOf, Range
  <2>5. raft' \in RaftState /\ raft'.configs = <<{Seed}>> /\ raft'.nodes = {Seed} /\ raft'.leader = Seed
    BY <2>1, <2>2, <2>3 DEF RaftState
  <2>6. RaftTyped(raft')
    BY <2>4, <2>5 DEF RaftTyped
  <2>7. "bootstrap" \in Kinds
    BY DEF Kinds
  <2> QED
    BY <2>1, <2>2, <2>4, <2>5, <2>6, <2>7, BeginKeeps
<1>2. ASSUME NEW c \in Calls, NEW n \in Nodes, Join(c, n) \/ Leave(c, n)
      PROVE  AdminInv'
  <2>1. /\ raft.leader # 0 /\ UNCHANGED raft
        /\ BeginCall(c, "join", n, raft.leader) \/ BeginCall(c, "leave", n, raft.leader)
    BY <1>2 DEF Join, Leave
  <2>2. raft.leader \in Nat /\ RaftTyped(raft')
    BY <1>0, <2>1 DEF RaftTyped, RaftState
  <2>3. "join" \in Kinds /\ "leave" \in Kinds
    BY DEF Kinds
  <2> QED
    BY <2>1, <2>2, <2>3, BeginKeeps
<1>3. ASSUME NEW c \in Calls, AdminStep(c)
      PROVE  AdminInv'
  BY <1>3, RegisterKeeps, AddLearnerKeeps, ReadVotersKeeps, ChangeKeeps, RefusedKeeps,
     DeregisterKeeps DEF AdminStep
<1>4. ASSUME NEW n \in Nodes, Elect(n)
      PROVE  AdminInv'
  <2>1. n \in Voters /\ raft' = [raft EXCEPT !.leader = n] /\ UNCHANGED <<meta, call, told, marred>>
    BY <1>4 DEF Elect
  <2>2. n \in VotersOf(raft.configs) /\ n \in Nat
    BY <2>1, NodesAssumption DEF Voters, VotersOf
  <2>3. /\ raft' \in RaftState /\ raft'.configs = raft.configs /\ raft'.nodes = raft.nodes
        /\ raft'.leader = n
    BY <1>0, <2>1, <2>2 DEF RaftTyped, RaftState
  <2>4. RaftTyped(raft')
    BY <1>0, <2>2, <2>3 DEF RaftTyped
  <2> QED
    BY <1>0, <2>1, <2>3, <2>4, QuietKeeps
<1>5. ASSUME NEW n \in Nodes, MarkSyncing(n) \/ MarkActive(n)
      PROVE  AdminInv'
  <2>1. meta' \in Metas /\ meta'.nodes = meta.nodes
    BY <1>0, <1>5 DEF MarkSyncing, MarkActive, SetShardState, Metas
  <2>2. UNCHANGED <<raft, call, told>> /\ (marred' = marred \/ marred' = marred \cup {"stray"})
    BY <1>5 DEF MarkSyncing, MarkActive, adminVars
  <2> QED
    BY <1>0, <2>1, <2>2, QuietKeeps
<1>6. ASSUME NEW d \in Dims, Create(d)
      PROVE  AdminInv'
  <2>1. meta' \in Metas /\ meta'.nodes = meta.nodes
    BY <1>0, <1>6 DEF Create, CreateCollection, Metas
  <2>2. UNCHANGED <<raft, call, told>> /\ (marred' = marred \/ marred' = marred \cup {"redim"})
    BY <1>6 DEF Create, adminVars
  <2> QED
    BY <1>0, <2>1, <2>2, QuietKeeps
<1>7. ASSUME NEW here \in BOOLEAN, Drop(here)
      PROVE  AdminInv'
  <2>1. meta' \in Metas /\ meta'.nodes = meta.nodes
    BY <1>0, <1>7 DEF Drop, DropCollection, Metas
  <2>2. UNCHANGED <<raft, call, told, marred>>
    BY <1>7 DEF Drop, adminVars
  <2> QED
    BY <1>0, <2>1, <2>2, QuietKeeps
<1>8. CASE UNCHANGED <<meta, raft, call, told, marred>>
  BY <1>0, <1>8, QuietKeeps
<1>9. ASSUME NEW n \in Nodes, BeginAcquire(n)
      PROVE  AdminInv'
  BY <1>8, <1>9 DEF BeginAcquire, adminVars
<1>10. ASSUME DropLocal \/ Release \/ Restart
       PROVE  AdminInv'
  BY <1>8, <1>10 DEF DropLocal, Release, Restart, adminVars
<1>11. ASSUME NEW t \in Threads,
              \/ \E stamp \in 1 .. MaxStamp, d \in Dims \cup {0} : Request(t, stamp, d)
              \/ Request(t, 0, 0)
              \/ Unchanging(Lookup(t)) \/ Unchanging(Open(t))
              \/ Unchanging(Apply(t)) \/ Unchanging(Refuse(t))
       PROVE  AdminInv'
  <2>1. UNCHANGED <<meta, raft, call, told, marred>>
    BY <1>11 DEF Request, Unchanging, adminVars
  <2> QED
    BY <1>8, <2>1
<1>12. CASE UNCHANGED vars
  BY <1>8, <1>12 DEF vars
<1> QED
  BY <1>1, <1>2, <1>3, <1>4, <1>5, <1>6, <1>7, <1>9, <1>10, <1>11, <1>12 DEF Next

LEMMA AdminAlways == Spec => []AdminInv
<1>1. Init => AdminInv
  BY AdminInit
<1>2. AdminInv /\ [Next]_vars => AdminInv'
  BY AdminNext
<1> QED
  BY <1>1, <1>2, PTL DEF Spec

\* As long as admin calls do not overlap, what the last join or leave of a node
\* was told stays true, whichever calls about other nodes failed half-way and
\* whichever leader ran them (join_node, leave_node and bootstrap_if_needed).
THEOREM AnswersStayTrue == Spec => []AnswersHold
<1>1. AdminInv => AnswersHold
  BY DEF AdminInv, SerialInv, AnswersHold
<1> QED
  BY <1>1, AdminAlways, PTL

\* Every voter has an address in the directory, after any sequence of admin calls
\* that come one after another, failed ones included: join_node registers a node
\* before it votes, and leave_node deregisters it when it votes no more.
THEOREM VotersStayRoutable == Spec => []VotersRoutable
<1>1. AdminInv => VotersRoutable
  BY DEF AdminInv, SerialInv, VotersRoutable
<1> QED
  BY <1>1, AdminAlways, PTL

LEMMA OverrideNext == AdminInv /\ NoOrphanOverride /\ [Next]_vars => NoOrphanOverride'
<1> SUFFICES ASSUME AdminInv, NoOrphanOverride, [Next]_vars
             PROVE  NoOrphanOverride'
  OBVIOUS
<1>0. meta \in Metas
  BY DEF AdminInv, AdminTyped
<1>1. ASSUME NEW c \in Calls, Register(c) \/ Deregister(c)
      PROVE  NoOrphanOverride'
  <2> DEFINE n == call[c].node
  <2>1. /\ meta' \in {meta, RegisterNode(n), DeregisterNode(n)}
        /\ marred \subseteq marred'
    BY <1>1 DEF Register, Deregister, Submit
  <2>2. /\ RegisterNode(n).nodes = meta.nodes \cup {n} /\ RegisterNode(n).dim = meta.dim
        /\ RegisterNode(n).syncing = meta.syncing
    BY <1>0 DEF RegisterNode, Metas
  <2>3. /\ DeregisterNode(n).nodes = meta.nodes \ {n} /\ DeregisterNode(n).dim = meta.dim
        /\ DeregisterNode(n).syncing = meta.syncing \ {n}
    BY <1>0 DEF DeregisterNode, Metas
  <2> QED
    BY <2>1, <2>2, <2>3 DEF NoOrphanOverride
<1>2. ASSUME NEW n \in Nodes, MarkSyncing(n) \/ MarkActive(n)
      PROVE  NoOrphanOverride'
  <2>1. CASE MarkSyncing(n)
    <3>1. meta'.nodes = meta.nodes /\ meta'.dim = meta.dim /\ meta'.syncing = meta.syncing \cup {n}
      BY <1>0, <2>1 DEF MarkSyncing, SetShardState, Metas
    <3> QED
      BY <2>1, <3>1 DEF MarkSyncing, NoOrphanOverride
  <2>2. CASE MarkActive(n)
    <3>1. meta'.nodes = meta.nodes /\ meta'.dim = meta.dim /\ meta'.syncing = meta.syncing \ {n}
      BY <1>0, <2>2 DEF MarkActive, SetShardState, Metas
    <3> QED
      BY <2>2, <3>1 DEF MarkActive, NoOrphanOverride
  <2> QED
    BY <1>2, <2>1, <2>2
<1>3. ASSUME NEW d \in Dims, Create(d)
      PROVE  NoOrphanOverride'
  <2>1. meta'.nodes = meta.nodes /\ meta'.syncing = meta.syncing /\ (meta'.dim = 0 => meta.dim = 0)
    BY <1>0, <1>3 DEF Create, CreateCollection, Metas
  <2> QED
    BY <1>3, <2>1 DEF Create, NoOrphanOverride
<1>4. ASSUME NEW here \in BOOLEAN, Drop(here)
      PROVE  NoOrphanOverride'
  <2>1. meta'.nodes = meta.nodes /\ meta'.syncing = {}
    BY <1>0, <1>4 DEF Drop, DropCollection, Metas
  <2> QED
    BY <2>1 DEF NoOrphanOverride
<1>5. ASSUME UNCHANGED meta, marred \subseteq marred'
      PROVE  NoOrphanOverride'
  BY <1>5 DEF NoOrphanOverride
<1>6. ASSUME NEW c \in Calls, AddLearner(c) \/ ReadVoters(c) \/ ChangeMembership(c) \/ ChangeRefused(c)
      PROVE  NoOrphanOverride'
  <2>1. UNCHANGED meta /\ marred \subseteq marred'
    BY <1>6 DEF AddLearner, ReadVoters, ChangeMembership, ChangeRefused, Submit
  <2> QED
    BY <1>5, <2>1
<1>7. ASSUME NEW c \in Calls, Bootstrap(c) \/ \E n \in Nodes : Join(c, n) \/ Leave(c, n)
      PROVE  NoOrphanOverride'
  <2>1. UNCHANGED meta /\ marred \subseteq marred'
    BY <1>7 DEF Bootstrap, Join, Leave, BeginCall
  <2> QED
    BY <1>5, <2>1
<1>8. ASSUME NEW n \in Nodes, Elect(n) \/ BeginAcquire(n)
      PROVE  NoOrphanOverride'
  BY <1>5, <1>8 DEF Elect, BeginAcquire
<1>9. ASSUME DropLocal \/ Release \/ Restart
      PROVE  NoOrphanOverride'
  BY <1>5, <1>9 DEF DropLocal, Release, Restart
<1>10. ASSUME NEW t \in Threads,
              \/ \E stamp \in 1 .. MaxStamp, d \in Dims \cup {0} : Request(t, stamp, d)
              \/ Request(t, 0, 0)
              \/ Unchanging(Lookup(t)) \/ Unchanging(Open(t))
              \/ Unchanging(Apply(t)) \/ Unchanging(Refuse(t))
       PROVE  NoOrphanOverride'
  <2>1. UNCHANGED <<meta, marred>>
    BY <1>10 DEF Request, Unchanging
  <2> QED
    BY <1>5, <2>1
<1>11. CASE UNCHANGED vars
  BY <1>5, <1>11 DEF vars
<1> QED
  BY <1>1, <1>2, <1>3, <1>4, <1>6, <1>7, <1>8, <1>9, <1>10, <1>11 DEF Next, AdminStep

\* No shard-state override outlives its node or its collection, whatever admin
\* calls do to the directory meanwhile (DeregisterNode and DropCollection in
\* MetaState::apply), unless a transfer commits its state after they went.
THEOREM NoOverrideOrphaned == Spec => []NoOrphanOverride
<1>1. Init => NoOrphanOverride
  BY DEF Init, NoOrphanOverride
<1>2. AdminInv /\ NoOrphanOverride /\ [Next]_vars => NoOrphanOverride'
  BY OverrideNext
<1> QED
  BY <1>1, <1>2, AdminAlways, PTL DEF Spec

-----------------------------------------------------------------------------
(* The shard on one node: the types of its files and handles.              *)

AnyDim == Dims \cup {0}
Frame == [stamp : Nat, dim : AnyDim]
Snapshot == [offset : Nat, version : Nat, dim : AnyDim]
ShardRecord == [dim : AnyDim, index : AnyDim, version : Nat, len : Nat, last : Nat]
RequestRecord == [at : {"none", "lookup", "open", "apply"}, stamp : Nat, dim : AnyDim,
                  schema : AnyDim, arc : Arcs \cup {0}]

\* No handle and no snapshot is ahead of the WAL; only a request that applies
\* needs a handle.
StoreTyped ==
    /\ threshold \in Thresholds /\ wal \in Seq(Frame) /\ snap \in Snapshot
    /\ handles \in [Arcs -> ShardRecord] /\ slot \in Arcs \cup {0}
    /\ thread \in [Threads -> RequestRecord]
    /\ \A t \in Threads : thread[t].at = "apply" => thread[t].arc # 0
    /\ acked \in Nat /\ forgotten \in SUBSET Arcs /\ strayed \in BOOLEAN
    /\ snap.offset <= Len(wal) /\ \A a \in Arcs : handles[a].len <= Len(wal)

\* The replay of Shard::open has come to g[i] after i frames, into an index.
State == [version : Nat, ok : BOOLEAN]
Replays(index, g) ==
    /\ g \in [0 .. Len(wal) -> State] /\ g[0] = [version |-> snap.version, ok |-> TRUE]
    /\ \A i \in 1 .. Len(wal) :
        g[i] = IF Covered(i) THEN g[i - 1] ELSE ApplyRecord(g[i - 1], wal[i], index)

IndexFor(d) == IF snap = NoSnapshot THEN d ELSE snap.dim

\* A stamp that the files hold: a snapshot or a frame it does not cover is as new.
BackedBy(v, w, sn) == v <= sn.version \/ \E i \in 1 .. Len(w) : i > sn.offset /\ w[i].stamp >= v
Backed(v) == BackedBy(v, wal, snap)

LEMMA ApplyRecordTyped ==
    ASSUME NEW state \in State, NEW frame \in Frame, NEW d
    PROVE  ApplyRecord(state, frame, d) \in State
  BY DEF ApplyRecord, State, Frame

LEMMA WalFrames ==
    ASSUME StoreTyped
    PROVE  Len(wal) \in Nat /\ \A i \in 1 .. Len(wal) : wal[i] \in Frame
  BY LenProperties, ElementOfSeq DEF StoreTyped

LEMMA ReplaysExist ==
    ASSUME StoreTyped, NEW index
    PROVE  \E g : Replays(index, g)
<1> DEFINE D == State
           N == Len(wal)
           a == [version |-> snap.version, ok |-> TRUE]
           F == [i \in 1 .. N |-> [x \in D |->
                    IF Covered(i) THEN x ELSE ApplyRecord(x, wal[i], index)]]
<1>0. N \in Nat /\ \A i \in 1 .. N : wal[i] \in Frame
  BY WalFrames
<1>1. a \in D
  BY DEF StoreTyped, Snapshot, State
<1>2. \A i \in 1 .. N : \A x \in D : ApplyRecord(x, wal[i], index) \in D
  BY <1>0, ApplyRecordTyped
<1> HIDE DEF D
<1>3. F \in [1 .. N -> [D -> D]]
  BY <1>2
<1>4. \A i \in 1 .. N : \A x \in D :
        F[i][x] = IF Covered(i) THEN x ELSE ApplyRecord(x, wal[i], index)
  OBVIOUS
<1> HIDE DEF a, N, F
<1>5. \E g : Folded(N, D, a, F, g)
  BY <1>0, <1>1, <1>3, FoldExists
<1>6. PICK g \in [0 .. N -> D] : g[0] = a /\ \A i \in 1 .. N : g[i] = F[i][g[i - 1]]
  BY <1>5 DEF Folded
<1>7. \A i \in 1 .. N : i - 1 \in 0 .. N
  BY <1>0
<1>8. \A i \in 1 .. N : g[i - 1] \in D
  BY <1>6, <1>7
<1>9. \A i \in 1 .. N : g[i] = IF Covered(i) THEN g[i - 1] ELSE ApplyRecord(g[i - 1], wal[i], index)
  BY <1>4, <1>6, <1>8
<1>10. Replays(index, g)
  BY <1>6, <1>9 DEF Replays, D, a, N
<1> QED
  BY <1>10

\* What Shard::open makes of the files.
LEMMA RecoveredIs ==
    ASSUME StoreTyped, NEW d \in AnyDim
    PROVE  \E g : /\ Replays(IndexFor(d), g)
                  /\ Recovered(d) =
                       [ok |-> g[Len(wal)].ok,
                        shard |-> [dim |-> d, index |-> IndexFor(d), version |-> g[Len(wal)].version,
                                   len |-> Len(wal), last |-> snap.offset]]
<1> DEFINE index == IndexFor(d)
           N == Len(wal)
           a == [version |-> snap.version, ok |-> TRUE]
<1>0. N \in Nat
  BY WalFrames
<1>1. PICK h : Replays(index, h)
  BY ReplaysExist
<1> DEFINE upTo[i \in 0 .. N] ==
             IF i = 0 THEN a
             ELSE IF Covered(i) THEN upTo[i - 1]
             ELSE ApplyRecord(upTo[i - 1], wal[i], index)
<1>2. \A i \in 0 .. N : i = 0 \/ i \in 1 .. N
  BY <1>0
<1>3. h = [i \in 0 .. N |-> IF i = 0 THEN a
                           ELSE IF Covered(i) THEN h[i - 1]
                           ELSE ApplyRecord(h[i - 1], wal[i], index)]
  BY <1>1, <1>2 DEF Replays
<1>4. upTo = [i \in 0 .. N |-> IF i = 0 THEN a
                              ELSE IF Covered(i) THEN upTo[i - 1]
                              ELSE ApplyRecord(upTo[i - 1], wal[i], index)]
  BY <1>3
<1>5. Recovered(d) =
        [ok |-> upTo[N].ok, shard |-> [dim |-> d, index |-> index, version |-> upTo[N].version,
                                       len |-> N, last |-> snap.offset]]
  BY DEF Recovered, IndexFor
<1> HIDE DEF upTo
<1>6. upTo[0] = a
  BY <1>0, <1>4
<1>7. \A i \in 1 .. N : upTo[i] = IF Covered(i) THEN upTo[i - 1]
                                 ELSE ApplyRecord(upTo[i - 1], wal[i], index)
  <2>1. \A i \in 1 .. N : i \in 0 .. N /\ i # 0
    BY <1>0
  <2> QED
    BY <1>4, <2>1
<1>8. \A i \in 0 .. N : upTo[i] \in State
  <2> DEFINE T == {i \in 0 .. N : upTo[i] \in State}
  <2>0. a \in State /\ 0 \in 0 .. N
    BY <1>0 DEF StoreTyped, Snapshot, State
  <2>1. 0 \in T
    BY <1>6, <2>0
  <2>2. ASSUME NEW i \in 1 .. N, i - 1 \in T
        PROVE  i \in T
    <3>1. wal[i] \in Frame /\ i \in 0 .. N
      BY <1>0, WalFrames
    <3>2. upTo[i - 1] \in State
      BY <2>2
    <3>3. ApplyRecord(upTo[i - 1], wal[i], index) \in State
      BY <3>1, <3>2, ApplyRecordTyped
    <3>4. upTo[i] \in State
      BY <1>7, <3>2, <3>3
    <3> QED
      BY <3>1, <3>4
  <2> HIDE DEF T
  <2>3. \A i \in 0 .. N : i \in T
    BY <1>0, <2>1, <2>2, UpToAll
  <2> QED
    BY <2>3 DEF T
<1>9. upTo \in [0 .. N -> State]
  BY <1>4, <1>8
<1>10. Replays(index, upTo)
  BY <1>6, <1>7, <1>9 DEF Replays
<1> QED
  BY <1>5, <1>10

LEMMA RecoveredTyped ==
    ASSUME StoreTyped, NEW d \in AnyDim
    PROVE  /\ Recovered(d).ok \in BOOLEAN /\ Recovered(d).shard \in ShardRecord
           /\ Recovered(d).shard.dim = d /\ Recovered(d).shard.index = IndexFor(d)
           /\ Recovered(d).shard.len = Len(wal)
<1>1. PICK g : /\ Replays(IndexFor(d), g)
               /\ Recovered(d) =
                    [ok |-> g[Len(wal)].ok,
                     shard |-> [dim |-> d, index |-> IndexFor(d), version |-> g[Len(wal)].version,
                                len |-> Len(wal), last |-> snap.offset]]
  BY RecoveredIs
<1>2. Len(wal) \in Nat /\ Len(wal) \in 0 .. Len(wal)
  BY WalFrames
<1>3. g[Len(wal)].ok \in BOOLEAN /\ g[Len(wal)].version \in Nat
  BY <1>1, <1>2 DEF Replays, State
<1>4. IndexFor(d) \in AnyDim /\ snap.offset \in Nat
  BY DEF IndexFor, StoreTyped, Snapshot
<1> HIDE DEF AnyDim
<1> QED
  BY <1>1, <1>2, <1>3, <1>4 DEF ShardRecord

\* A healthy recovery has everything the files hold.
LEMMA RecoveredCovers ==
    ASSUME StoreTyped, NEW d \in AnyDim, NEW v \in Nat, Recovered(d).ok, Backed(v)
    PROVE  Recovered(d).shard.version >= v
<1> DEFINE N == Len(wal)
<1>0. N \in Nat /\ (\A i \in 1 .. N : wal[i] \in Frame) /\ snap.offset \in Nat /\ snap.version \in Nat
  BY WalFrames DEF StoreTyped, Snapshot
<1>1. PICK g : /\ Replays(IndexFor(d), g)
               /\ Recovered(d) =
                    [ok |-> g[Len(wal)].ok,
                     shard |-> [dim |-> d, index |-> IndexFor(d), version |-> g[Len(wal)].version,
                                len |-> Len(wal), last |-> snap.offset]]
  BY RecoveredIs
<1>2. g[N].ok /\ Recovered(d).shard.version = g[N].version
  BY <1>1
<1> DEFINE Covers(i) ==
             g[i].ok => /\ g[i].version >= snap.version
                        /\ \A j \in 1 .. N : j <= i /\ j > snap.offset => g[i].version >= wal[j].stamp
           T == {i \in 0 .. N : Covers(i)}
<1>3. 0 \in T
  BY <1>0, <1>1 DEF Replays
<1>4. ASSUME NEW i \in 1 .. N, i - 1 \in T
      PROVE  i \in T
  <2>1. i \in 0 .. N /\ i - 1 \in 0 .. N /\ wal[i] \in Frame /\ Covers(i - 1)
    BY <1>0, <1>4
  <2>2. g[i - 1] \in State /\ g[i] \in State
    BY <1>1, <2>1 DEF Replays
  <2>3. g[i] = IF Covered(i) THEN g[i - 1] ELSE ApplyRecord(g[i - 1], wal[i], IndexFor(d))
    BY <1>1 DEF Replays
  <2>4. \A j \in 1 .. N : j <= i => j = i \/ j <= i - 1
    BY <1>0
  <2>5. CASE Covered(i)
    <3>1. g[i] = g[i - 1] /\ ~(i > snap.offset)
      BY <1>0, <2>3, <2>5 DEF Covered
    <3> QED
      BY <2>1, <2>4, <3>1
  <2>6. CASE ~Covered(i)
    <3>1. g[i] = ApplyRecord(g[i - 1], wal[i], IndexFor(d))
      BY <2>3, <2>6
    <3>2. g[i].ok => g[i - 1].ok /\ g[i].version >= g[i - 1].version /\ g[i].version >= wal[i].stamp
      BY <2>1, <2>2, <3>1 DEF ApplyRecord, State, Frame
    <3>3. \A j \in 1 .. N : wal[j].stamp \in Nat
      BY <1>0 DEF Frame
    <3>4. g[i].version \in Nat /\ g[i - 1].version \in Nat
      BY <2>2 DEF State
    <3>5. ASSUME g[i].ok, NEW j \in 1 .. N, j <= i, j > snap.offset
          PROVE  g[i].version >= wal[j].stamp
      <4>1. CASE j = i
        BY <3>2, <3>5, <4>1
      <4>2. CASE j <= i - 1
        <5>1. g[i - 1].version >= wal[j].stamp
          BY <2>1, <3>2, <3>5, <4>2
        <5> QED
          BY <3>2, <3>3, <3>4, <3>5, <5>1
      <4> QED
        BY <2>4, <3>5, <4>1, <4>2
    <3>6. g[i].ok => g[i].version >= snap.version
      BY <1>0, <2>1, <3>2, <3>4
    <3>7. Covers(i)
      BY <3>5, <3>6
    <3> QED
      BY <2>1, <3>7
  <2> QED
    BY <2>5, <2>6
<1> HIDE DEF T
<1>5. \A i \in 0 .. N : i \in T
  BY <1>0, <1>3, <1>4, UpToAll
<1>6. Covers(N) /\ g[N] \in State
  BY <1>0, <1>1, <1>5 DEF T, Replays
<1>7. g[N].version \in Nat /\ \A j \in 1 .. N : wal[j].stamp \in Nat
  BY <1>0, <1>6 DEF State, Frame
<1> QED
  BY <1>0, <1>2, <1>6, <1>7 DEF Backed, BackedBy

\* And nothing else.
LEMMA RecoveredBacked ==
    ASSUME StoreTyped, NEW d \in AnyDim
    PROVE  Backed(Recovered(d).shard.version)
<1> DEFINE N == Len(wal)
<1>0. N \in Nat /\ (\A i \in 1 .. N : wal[i] \in Frame) /\ snap.offset \in Nat /\ snap.version \in Nat
  BY WalFrames DEF StoreTyped, Snapshot
<1>1. PICK g : /\ Replays(IndexFor(d), g)
               /\ Recovered(d) =
                    [ok |-> g[Len(wal)].ok,
                     shard |-> [dim |-> d, index |-> IndexFor(d), version |-> g[Len(wal)].version,
                                len |-> Len(wal), last |-> snap.offset]]
  BY RecoveredIs
<1>2. Recovered(d).shard.version = g[N].version
  BY <1>1
<1> DEFINE T == {i \in 0 .. N : Backed(g[i].version)}
<1>3. 0 \in T
  BY <1>0, <1>1 DEF Replays, Backed, BackedBy
<1>4. ASSUME NEW i \in 1 .. N, i - 1 \in T
      PROVE  i \in T
  <2>1. i \in 0 .. N /\ wal[i] \in Frame /\ Backed(g[i - 1].version)
    BY <1>0, <1>4
  <2>2. g[i] = IF Covered(i) THEN g[i - 1] ELSE ApplyRecord(g[i - 1], wal[i], IndexFor(d))
    BY <1>1 DEF Replays
  <2>3. ~Covered(i) => i > snap.offset
    BY <1>0 DEF Covered
  <2>4. ~Covered(i) => Backed(wal[i].stamp)
    <3>1. wal[i].stamp \in Nat
      BY <2>1 DEF Frame
    <3> QED
      BY <2>3, <3>1 DEF Backed, BackedBy
  <2>5. \/ g[i] = g[i - 1]
        \/ ~Covered(i) /\ g[i].version = wal[i].stamp
    BY <2>2 DEF ApplyRecord
  <2>6. Backed(g[i].version)
    BY <2>1, <2>4, <2>5
  <2> QED
    BY <2>1, <2>6
<1> HIDE DEF T
<1>5. \A i \in 0 .. N : i \in T
  BY <1>0, <1>3, <1>4, UpToAll
<1> QED
  BY <1>0, <1>2, <1>5 DEF T

\* When every vector fits, so does the recovery.
LEMMA RecoveredOk ==
    ASSUME StoreTyped, NEW d \in AnyDim, \A i \in 1 .. Len(wal) : wal[i].dim \in {0, IndexFor(d)}
    PROVE  Recovered(d).ok
<1> DEFINE N == Len(wal)
<1>0. N \in Nat /\ (\A i \in 1 .. N : wal[i] \in Frame)
  BY WalFrames
<1>1. PICK g : /\ Replays(IndexFor(d), g)
               /\ Recovered(d) =
                    [ok |-> g[Len(wal)].ok,
                     shard |-> [dim |-> d, index |-> IndexFor(d), version |-> g[Len(wal)].version,
                                len |-> Len(wal), last |-> snap.offset]]
  BY RecoveredIs
<1> DEFINE T == {i \in 0 .. N : g[i].ok = TRUE}
<1>3. 0 \in T
  BY <1>0, <1>1 DEF Replays
<1>4. ASSUME NEW i \in 1 .. N, i - 1 \in T
      PROVE  i \in T
  <2>1. i \in 0 .. N /\ g[i - 1].ok = TRUE /\ (wal[i].dim \in {0, IndexFor(d)}) = TRUE
    BY <1>0, <1>4
  <2>2. g[i] = IF Covered(i) THEN g[i - 1] ELSE ApplyRecord(g[i - 1], wal[i], IndexFor(d))
    BY <1>1 DEF Replays
  <2>3. \/ g[i] = g[i - 1]
        \/ g[i] = [version |-> wal[i].stamp, ok |-> wal[i].dim \in {0, IndexFor(d)}]
    BY <2>2 DEF ApplyRecord
  <2>4. g[i].ok = TRUE
    <3> DEFINE fits == wal[i].dim \in {0, IndexFor(d)}
    <3>1. fits = TRUE
      BY <2>1
    <3>2. g[i] = g[i - 1] \/ g[i] = [version |-> wal[i].stamp, ok |-> fits]
      BY <2>3
    <3> HIDE DEF fits
    <3>3. g[i] = g[i - 1] \/ g[i] = [version |-> wal[i].stamp, ok |-> TRUE]
      BY <3>1, <3>2
    <3> QED
      BY <2>1, <3>3
  <2> QED
    BY <2>1, <2>4
<1> HIDE DEF T
<1>5. \A i \in 0 .. N : i \in T
  BY <1>0, <1>3, <1>4, UpToAll
<1> QED
  BY <1>0, <1>1, <1>5 DEF T

\* There is a handle for a thread that opens the shard.
LEMMA UnusedIsFree ==
    ASSUME StoreTyped, slot = 0
    PROVE  Unused \in Arcs /\ Unused \notin Held /\ Unused # 0
<1> DEFINE K == Cardinality(Threads)
           f == [t \in Threads |-> thread[t].arc]
<1>1. K \in Nat
  BY ThreadsAssumption, FS_CardinalityType
<1>2. f \in Surjection(Threads, Held)
  BY DEF Held, Surjection
<1>3. IsFiniteSet(Held) /\ Cardinality(Held) <= K
  BY <1>2, ThreadsAssumption, FS_Surjection
<1>4. IsFiniteSet(Arcs) /\ Cardinality(Arcs) = K + 1
  BY <1>1, FS_Interval DEF Arcs
<1> DEFINE free == Arcs \ (Held \cup {slot})
<1>5. free # {}
  <2>1. SUFFICES ASSUME free = {}
                 PROVE  FALSE
    OBVIOUS
  <2>2. 0 \notin Arcs
    BY <1>1 DEF Arcs
  <2>3. Arcs \in SUBSET Held
    BY <2>1, <2>2
  <2>4. Cardinality(Arcs) <= Cardinality(Held)
    BY <1>3, <2>3, FS_Subset
  <2>5. Cardinality(Held) \in Nat
    BY <1>3, FS_CardinalityType
  <2> QED
    BY <1>1, <1>3, <1>4, <2>4, <2>5
<1>6. free \in SUBSET Nat
  BY <1>1 DEF Arcs
<1>7. Unused = Min(free)
  BY DEF Unused
<1> HIDE DEF free
<1>8. \E x \in free : \A y \in free : x <= y
  BY <1>5, <1>6, LeastNat
<1>9. Unused \in free
  BY <1>7, <1>8 DEF Min
<1> QED
  BY <1>9, <1>1 DEF free, Arcs

-----------------------------------------------------------------------------
(* The inductive invariant of the shard.                                   *)

InUse(a) == a = slot \/ a \in Held

\* A request holds the handle in the map or one that the map forgot; as long as
\* none appended through the latter, the handle in the map has every
\* acknowledged write and no other is ahead of it.
Served ==
    /\ \A t \in Threads : thread[t].arc \in {0, slot} \cup forgotten
    /\ ~strayed /\ slot # 0 =>
          /\ handles[slot].version >= acked
          /\ \A t \in Threads :
                thread[t].arc # 0 => handles[thread[t].arc].version <= handles[slot].version

NoneTaken == threshold = 0 => snap = NoSnapshot

\* The files hold what was acknowledged, and what a handle would acknowledge.
AllBacked ==
    ~strayed \/ threshold = 0 =>
        Backed(acked) /\ \A a \in Arcs : InUse(a) => Backed(handles[a].version)

\* One dimension, everywhere.
OneDim ==
    /\ meta.dim \in {0, FirstDim}
    /\ snap # NoSnapshot => snap.dim = FirstDim
    /\ \A i \in 1 .. Len(wal) : wal[i].dim \in {0, FirstDim}
    /\ \A t \in Threads : thread[t].at # "none" => thread[t].schema = FirstDim
    /\ \A a \in Arcs : InUse(a) => handles[a].dim = FirstDim /\ handles[a].index = FirstDim

StoreInv ==
    StoreTyped /\ Served /\ NoneTaken /\ AllBacked /\ ("redim" \notin marred => OneDim)

LEMMA FirstDimIs == FirstDim \in Dims /\ FirstDim # 0
<1>1. Dims \in SUBSET Nat /\ Dims # {} /\ 0 \notin Dims
  BY DimsAssumption
<1>2. \E x \in Dims : \A y \in Dims : x <= y
  BY <1>1, LeastNat
<1> QED
  BY <1>1, <1>2 DEF FirstDim, Min

LEMMA ArcsAre == 0 \notin Arcs
<1>1. Cardinality(Threads) \in Nat
  BY ThreadsAssumption, FS_CardinalityType
<1> QED
  BY <1>1 DEF Arcs

\* The store stays, except that a dropped collection owes nothing.
LEMMA StoreQuiet ==
    ASSUME StoreInv, UNCHANGED <<fileVars, handles, slot, thread, forgotten, strayed>>,
           acked' \in {acked, 0}, marred \subseteq marred',
           "redim" \notin marred' => meta'.dim \in {0, FirstDim}
    PROVE  StoreInv'
<1> USE DEF fileVars
<1>1. StoreTyped'
  BY DEF StoreInv, StoreTyped
<1>2. Served'
  <2>1. slot # 0 => handles[slot].version \in Nat
    BY DEF StoreInv, StoreTyped, ShardRecord
  <2> QED
    BY <2>1 DEF StoreInv, Served
<1>3. NoneTaken'
  BY DEF StoreInv, NoneTaken
<1>4. AllBacked'
  <2>1. BackedBy(0, wal, snap)
    BY DEF StoreInv, StoreTyped, Snapshot, BackedBy
  <2> QED
    BY <2>1 DEF StoreInv, AllBacked, InUse, Held, Backed
<1>5. "redim" \notin marred' => OneDim'
  BY DEF StoreInv, OneDim, InUse, Held
<1> QED
  BY <1>1, <1>2, <1>3, <1>4, <1>5 DEF StoreInv

\* A step that only moves a request.
LEMMA ThreadMoves ==
    ASSUME StoreInv, UNCHANGED <<fileVars, handles, slot, acked, forgotten, strayed, marred, meta>>,
           NEW t \in Threads, thread' = [thread EXCEPT ![t] = thread'[t]],
           thread'[t] \in RequestRecord, thread'[t].arc \in {0, slot},
           thread'[t].at = "apply" => thread'[t].arc # 0,
           "redim" \notin marred /\ thread'[t].at # "none" => thread'[t].schema = FirstDim
    PROVE  StoreInv'
<1> USE DEF fileVars
<1>0. \A u \in Threads : u # t => thread'[u] = thread[u]
  BY DEF StoreInv, StoreTyped
<1>1. StoreTyped'
  <2>1. thread' \in [Threads -> RequestRecord]
    BY DEF StoreInv, StoreTyped
  <2>2. \A u \in Threads : thread'[u].at = "apply" => thread'[u].arc # 0
    BY <1>0 DEF StoreInv, StoreTyped
  <2>3. RequestRecord' = RequestRecord
    BY DEF RequestRecord, Arcs
  <2> QED
    BY <2>1, <2>2, <2>3 DEF StoreInv, StoreTyped
<1>2. Served'
  <2>1. slot # 0 => handles[slot].version \in Nat
    BY DEF StoreInv, StoreTyped, ShardRecord
  <2>2. \A u \in Threads : thread'[u].arc \in {0, slot} \cup forgotten
    BY <1>0 DEF StoreInv, Served
  <2>3. ASSUME ~strayed, slot # 0, NEW u \in Threads, thread'[u].arc # 0
        PROVE  handles[thread'[u].arc].version <= handles[slot].version
    <3>1. CASE u = t
      BY <2>1, <2>3, <3>1
    <3>2. CASE u # t
      BY <1>0, <2>3, <3>2 DEF StoreInv, Served
    <3> QED
      BY <3>1, <3>2
  <2> QED
    BY <2>2, <2>3 DEF StoreInv, Served
<1>3. NoneTaken'
  BY DEF StoreInv, NoneTaken
<1>4. \A a \in Arcs : InUse(a)' => InUse(a)
  BY <1>0, ArcsAre DEF InUse, Held
<1>5. AllBacked'
  BY <1>4 DEF StoreInv, AllBacked, Backed
<1>6. "redim" \notin marred' => OneDim'
  BY <1>0, <1>4 DEF StoreInv, OneDim
<1> QED
  BY <1>1, <1>2, <1>3, <1>5, <1>6 DEF StoreInv

LEMMA GotoIs ==
    ASSUME StoreTyped, NEW t \in Threads, NEW at \in {"open", "apply"}, NEW arc \in Arcs \cup {0},
           Goto(t, at, arc)
    PROVE  /\ thread' = [thread EXCEPT ![t] = thread'[t]] /\ thread'[t] \in RequestRecord
           /\ thread'[t].at = at /\ thread'[t].arc = arc /\ thread'[t].schema = thread[t].schema
<1>1. thread \in [Threads -> RequestRecord] /\ thread[t] \in RequestRecord
  BY DEF StoreTyped
<1> DEFINE here == [thread[t] EXCEPT !.at = at]
           both == [here EXCEPT !.arc = arc]
<1>2. thread' = [thread EXCEPT ![t] = both]
  BY <1>1 DEF Goto
<1>3. here \in RequestRecord /\ here.at = at /\ here.schema = thread[t].schema
  BY <1>1 DEF RequestRecord
<1> HIDE DEF here
<1>4. both \in RequestRecord /\ both.at = at /\ both.schema = thread[t].schema /\ both.arc = arc
  BY <1>3 DEF RequestRecord
<1> HIDE DEF both
<1>5. thread'[t] = both
  BY <1>1, <1>2
<1> QED
  BY <1>1, <1>2, <1>4, <1>5

LEMMA ReturnIs ==
    ASSUME StoreTyped, NEW t \in Threads, Return(t)
    PROVE  /\ thread' = [thread EXCEPT ![t] = thread'[t]] /\ thread'[t] \in RequestRecord
           /\ thread'[t].at = "none" /\ thread'[t].arc = 0
<1>1. thread'[t] = NoRequest /\ thread' = [thread EXCEPT ![t] = NoRequest]
  BY DEF StoreTyped, Return
<1>2. NoRequest \in RequestRecord /\ NoRequest.at = "none" /\ NoRequest.arc = 0
  BY DEF NoRequest, RequestRecord, AnyDim
<1> QED
  BY <1>1, <1>2

LEMMA BeginRequestKeeps ==
    ASSUME StoreInv, meta \in Metas, NEW t \in Threads, NEW stamp \in Nat, NEW d \in AnyDim,
           meta.dim # 0, BeginRequest(t, stamp, d, meta.dim), UNCHANGED <<marred, meta>>
    PROVE  StoreInv'
<1> DEFINE r == [at |-> "lookup", stamp |-> stamp, dim |-> d, schema |-> meta.dim, arc |-> 0]
<1>1. /\ thread' = [thread EXCEPT ![t] = r] /\ thread'[t] = r
      /\ UNCHANGED <<fileVars, handles, slot, acked, forgotten, strayed>>
  BY DEF BeginRequest, StoreInv, StoreTyped
<1>2. r \in RequestRecord /\ r.at = "lookup" /\ r.arc = 0 /\ r.schema = meta.dim
  BY DEF RequestRecord, Metas, AnyDim
<1> HIDE DEF r
<1>3. "redim" \notin marred => meta.dim = FirstDim
  BY DEF StoreInv, OneDim
<1> QED
  BY <1>1, <1>2, <1>3, ThreadMoves

LEMMA LookupKeeps ==
    ASSUME StoreInv, NEW t \in Threads, Lookup(t), UNCHANGED <<marred, meta>>
    PROVE  StoreInv'
<1> DEFINE at == IF slot # 0 THEN "apply" ELSE "open"
<1>1. /\ thread[t].at = "lookup" /\ Goto(t, at, slot)
      /\ UNCHANGED <<fileVars, handles, slot, acked, forgotten, strayed>>
  BY DEF Lookup
<1>2. StoreTyped /\ slot \in Arcs \cup {0} /\ at \in {"open", "apply"} /\ (at = "apply" => slot # 0)
  BY DEF StoreInv, StoreTyped
<1> HIDE DEF at
<1>3. /\ thread' = [thread EXCEPT ![t] = thread'[t]] /\ thread'[t] \in RequestRecord
      /\ thread'[t].at = at /\ thread'[t].arc = slot /\ thread'[t].schema = thread[t].schema
  BY <1>1, <1>2, GotoIs
<1>4. "redim" \notin marred => thread[t].schema = FirstDim
  BY <1>1 DEF StoreInv, OneDim
<1> QED
  BY <1>1, <1>2, <1>3, <1>4, ThreadMoves

LEMMA RefuseKeeps ==
    ASSUME StoreInv, NEW t \in Threads, Return(t),
           UNCHANGED <<fileVars, handles, slot, acked, forgotten, strayed, marred, meta>>
    PROVE  StoreInv'
<1>1. /\ thread' = [thread EXCEPT ![t] = thread'[t]] /\ thread'[t] \in RequestRecord
      /\ thread'[t].at = "none" /\ thread'[t].arc = 0
  BY ReturnIs DEF StoreInv
<1> QED
  BY <1>1, ThreadMoves

LEMMA OpenKeeps ==
    ASSUME StoreInv, NEW t \in Threads, Open(t), UNCHANGED <<marred, meta>>
    PROVE  StoreInv'
<1> DEFINE r == Recovered(thread[t].schema)
<1>0. thread[t].at = "open" /\ UNCHANGED <<fileVars, acked, strayed>>
  BY DEF Open
<1>1. /\ StoreTyped /\ slot \in Arcs \cup {0} /\ thread[t] \in RequestRecord
      /\ thread[t].schema \in AnyDim
  BY DEF StoreInv, StoreTyped, RequestRecord
<1>2. "redim" \notin marred => thread[t].schema = FirstDim
  BY <1>0 DEF StoreInv, OneDim
<1>3. CASE slot # 0 /\ Goto(t, "apply", slot) /\ UNCHANGED <<handles, slot, forgotten>>
  <2>1. /\ thread' = [thread EXCEPT ![t] = thread'[t]] /\ thread'[t] \in RequestRecord
        /\ thread'[t].at = "apply" /\ thread'[t].arc = slot /\ thread'[t].schema = thread[t].schema
    BY <1>1, <1>3, GotoIs
  <2> QED
    BY <1>0, <1>2, <1>3, <2>1, ThreadMoves
<1>4. CASE Return(t) /\ UNCHANGED <<handles, slot, forgotten>>
  BY <1>0, <1>4, RefuseKeeps
<1>5. CASE /\ slot = 0 /\ r.ok /\ handles' = [handles EXCEPT ![Unused] = r.shard]
           /\ slot' = Unused /\ forgotten' = forgotten \ {Unused}
           /\ Goto(t, "apply", Unused)
  <2> DEFINE a == Unused
  <2>1. a \in Arcs /\ a \notin Held /\ a # 0
    BY <1>1, <1>5, UnusedIsFree
  <2>2. /\ r.shard \in ShardRecord /\ r.shard.len = Len(wal) /\ r.shard.version \in Nat
        /\ r.shard.dim = thread[t].schema /\ r.shard.index = IndexFor(thread[t].schema)
    BY <1>1, RecoveredTyped DEF ShardRecord
  <2>3. Backed(r.shard.version)
    BY <1>1, RecoveredBacked
  <2>4. Backed(acked) => r.shard.version >= acked
    BY <1>1, <1>5, RecoveredCovers DEF StoreTyped
  <2>5. /\ handles' = [handles EXCEPT ![a] = r.shard] /\ slot' = a /\ Goto(t, "apply", a)
        /\ forgotten' = forgotten \ {a}
    BY <1>5
  <2> HIDE DEF r, a
  <2>6. /\ thread' = [thread EXCEPT ![t] = thread'[t]] /\ thread'[t] \in RequestRecord
        /\ thread'[t].at = "apply" /\ thread'[t].arc = a /\ thread'[t].schema = thread[t].schema
    BY <1>1, <2>1, <2>5, GotoIs
  <2>7. \A u \in Threads : u # t => thread'[u] = thread[u]
    BY <1>1, <2>6 DEF StoreTyped
  <2>8. handles'[a] = r.shard /\ \A x \in Arcs : x # a => handles'[x] = handles[x]
    BY <1>1, <2>1, <2>5 DEF StoreTyped
  <2>9. StoreTyped'
    <3>1. thread' \in [Threads -> RequestRecord] /\ handles' \in [Arcs -> ShardRecord]
      BY <1>1, <2>2, <2>5, <2>6 DEF StoreTyped
    <3>2. \A u \in Threads : thread'[u].at = "apply" => thread'[u].arc # 0
      BY <1>1, <2>1, <2>6, <2>7 DEF StoreTyped
    <3>3. \A x \in Arcs : handles'[x].len <= Len(wal)
      BY <1>1, <2>2, <2>8, WalFrames DEF StoreTyped
    <3> QED
      BY <1>0, <1>1, <2>1, <2>5, <3>1, <3>2, <3>3 DEF StoreTyped, fileVars, RequestRecord, Arcs
  <2>10. Served'
    <3>1. ASSUME NEW u \in Threads
          PROVE  thread'[u].arc \in {0, slot'} \cup forgotten'
      <4>1. thread[u].arc \in {0} \cup forgotten /\ thread[u].arc # a
        BY <1>5, <2>1 DEF StoreInv, Served, Held
      <4> QED
        BY <2>5, <2>6, <2>7, <4>1
    <3>2. ~strayed => r.shard.version >= acked
      BY <2>4 DEF StoreInv, AllBacked
    <3>3. ASSUME ~strayed, NEW u \in Threads, thread'[u].arc # 0
          PROVE  handles'[thread'[u].arc].version <= r.shard.version
      <4>1. CASE u = t
        BY <2>2, <2>6, <2>8, <4>1
      <4>2. CASE u # t
        <5>1. thread[u].arc \in Arcs /\ thread[u].arc # a /\ InUse(thread[u].arc)
          BY <1>1, <2>1, <2>7, <3>3, <4>2 DEF StoreTyped, RequestRecord, InUse, Held
        <5>2. Backed(handles[thread[u].arc].version) /\ handles[thread[u].arc].version \in Nat
          BY <1>1, <3>3, <5>1 DEF StoreInv, AllBacked, StoreTyped, ShardRecord
        <5>3. r.shard.version >= handles[thread[u].arc].version
          BY <1>1, <1>5, <5>2, RecoveredCovers DEF r
        <5> QED
          BY <2>2, <2>7, <2>8, <4>2, <5>1, <5>2, <5>3
      <4> QED
        BY <4>1, <4>2
    <3> QED
      BY <1>0, <2>5, <2>8, <3>1, <3>2, <3>3 DEF Served
  <2>11. NoneTaken'
    BY <1>0 DEF StoreInv, NoneTaken, fileVars
  <2>12. \A x \in Arcs : InUse(x)' => x = a \/ (InUse(x) /\ x # a)
    BY <2>1, <2>5, <2>6, <2>7, ArcsAre DEF InUse, Held
  <2>13. AllBacked'
    BY <1>0, <2>3, <2>8, <2>12 DEF StoreInv, AllBacked, Backed, fileVars
  <2>14. ASSUME "redim" \notin marred
         PROVE  OneDim'
    <3>1. OneDim /\ thread[t].schema = FirstDim
      BY <1>2, <2>14 DEF StoreInv
    <3>2. r.shard.dim = FirstDim /\ r.shard.index = FirstDim
      BY <2>2, <3>1 DEF IndexFor, OneDim
    <3> QED
      BY <1>0, <2>6, <2>7, <2>8, <2>12, <3>1, <3>2 DEF OneDim, fileVars
  <2> QED
    BY <2>9, <2>10, <2>11, <2>13, <2>14 DEF StoreInv
<1> QED
  BY <1>3, <1>4, <1>5 DEF Open

LEMMA ForgetKeeps ==
    ASSUME StoreInv, Forget, UNCHANGED <<acked, marred, meta>>
    PROVE  StoreInv'
<1> USE DEF fileVars
<1>1. /\ slot' = 0 /\ forgotten' = (forgotten \cup {slot}) \ {0}
      /\ UNCHANGED <<fileVars, handles, thread, strayed>>
  BY DEF Forget
<1>2. StoreTyped'
  BY <1>1 DEF StoreInv, StoreTyped, RequestRecord, Arcs
<1>3. Served'
  BY <1>1 DEF StoreInv, Served
<1>4. NoneTaken'
  BY <1>1 DEF StoreInv, NoneTaken
<1>5. \A a \in Arcs : InUse(a)' => InUse(a)
  BY <1>1, ArcsAre DEF InUse, Held
<1>6. AllBacked'
  BY <1>1, <1>5 DEF StoreInv, AllBacked, Backed
<1>7. "redim" \notin marred' => OneDim'
  BY <1>1, <1>5 DEF StoreInv, OneDim
<1> QED
  BY <1>2, <1>3, <1>4, <1>6, <1>7 DEF StoreInv

LEMMA RestartKeeps ==
    ASSUME StoreInv, RestartStore, UNCHANGED <<marred, meta>>
    PROVE  StoreInv'
<1> USE DEF fileVars
<1>1. /\ slot' = 0 /\ handles' = [a \in Arcs |-> NoShard] /\ thread' = [t \in Threads |-> NoRequest]
      /\ forgotten' = {} /\ UNCHANGED <<fileVars, acked, strayed>>
  BY DEF RestartStore
<1>2. NoRequest \in RequestRecord /\ NoRequest.at = "none" /\ NoRequest.arc = 0
  BY DEF NoRequest, RequestRecord, AnyDim
<1>3. NoShard \in ShardRecord /\ NoShard.len = 0
  BY DEF NoShard, ShardRecord, AnyDim
<1>4. \A t \in Threads : thread'[t] = NoRequest
  BY <1>1
<1>5. StoreTyped'
  BY <1>1, <1>2, <1>3, WalFrames DEF StoreInv, StoreTyped, RequestRecord, Arcs
<1>6. Served'
  BY <1>1, <1>2, <1>4 DEF Served
<1>7. NoneTaken'
  BY <1>1 DEF StoreInv, NoneTaken
<1>8. \A a \in Arcs : ~InUse(a)'
  BY <1>1, <1>2, <1>4, ArcsAre DEF InUse, Held
<1>9. AllBacked'
  BY <1>1, <1>8 DEF StoreInv, AllBacked, Backed
<1>10. "redim" \notin marred' => OneDim'
  BY <1>1, <1>2, <1>4, <1>8 DEF StoreInv, OneDim
<1> QED
  BY <1>5, <1>6, <1>7, <1>9, <1>10 DEF StoreInv

\* A frame more, and what it backs.
LEMMA AppendBacks ==
    ASSUME StoreTyped, NEW f \in Frame
    PROVE  LET w == Append(wal, f)
           IN  /\ w \in Seq(Frame) /\ Len(w) = Len(wal) + 1 /\ Len(wal) \in Nat
               /\ \A i \in 1 .. Len(w) : (i \in 1 .. Len(wal) /\ w[i] = wal[i]) \/ w[i] = f
               /\ BackedBy(f.stamp, w, snap)
               /\ \A v \in Nat : BackedBy(v, wal, snap) => BackedBy(v, w, snap)
<1> DEFINE w == Append(wal, f)
<1>0. wal \in Seq(Frame) /\ Len(wal) \in Nat /\ snap.offset \in Nat /\ snap.offset <= Len(wal)
  BY WalFrames DEF StoreTyped, Snapshot
<1>1. /\ w \in Seq(Frame) /\ Len(w) = Len(wal) + 1 /\ w[Len(wal) + 1] = f
      /\ \A i \in 1 .. Len(wal) : w[i] = wal[i]
  BY <1>0, AppendProperties
<1> HIDE DEF w
<1>2. \A i \in 1 .. Len(w) : i \in 1 .. Len(wal) \/ i = Len(wal) + 1
  BY <1>0, <1>1
<1>3. Len(wal) + 1 \in 1 .. Len(w) /\ Len(wal) + 1 > snap.offset /\ f.stamp >= f.stamp
  BY <1>0, <1>1 DEF Frame
<1>4. BackedBy(f.stamp, w, snap)
  BY <1>1, <1>3 DEF BackedBy
<1>5. \A i \in 1 .. Len(wal) : i \in 1 .. Len(w)
  BY <1>0, <1>1
<1>6. \A v \in Nat : BackedBy(v, wal, snap) => BackedBy(v, w, snap)
  BY <1>1, <1>5 DEF BackedBy
<1>7. \A i \in 1 .. Len(w) : (i \in 1 .. Len(wal) /\ w[i] = wal[i]) \/ w[i] = f
  BY <1>1, <1>2
<1> QED
  BY <1>0, <1>1, <1>4, <1>6, <1>7 DEF w

LEMMA MaxOfTwo ==
    ASSUME NEW x \in Nat, NEW y \in Nat
    PROVE  Max({x, y}) = IF x >= y THEN x ELSE y
<1>1. CASE x >= y
  BY <1>1 DEF Max
<1>2. CASE ~(x >= y)
  <2>1. \A z \in {x, y} : y >= z
    BY <1>2
  <2>2. \A z \in {x, y} : (\A u \in {x, y} : z >= u) => z = y
    BY <1>2
  <2> QED
    BY <1>2, <2>1, <2>2 DEF Max
<1> QED
  BY <1>1, <1>2

LEMMA GrownIs ==
    ASSUME NEW s \in ShardRecord
    PROVE  LET g == [s EXCEPT !.len = @ + 1]
           IN  /\ g \in ShardRecord /\ g.len = s.len + 1 /\ g.version = s.version
               /\ g.dim = s.dim /\ g.index = s.index
  BY DEF ShardRecord

\* Appending through a handle leaves its dimensions, and the other handles.
LEMMA HandleGrows ==
    ASSUME NEW old \in [Arcs -> ShardRecord], NEW a \in Arcs, NEW h \in ShardRecord,
           h.len = old[a].len + 1, h.dim = old[a].dim, h.index = old[a].index
    PROVE  LET now == [old EXCEPT ![a] = h]
           IN  /\ now \in [Arcs -> ShardRecord] /\ now[a] = h
               /\ \A x \in Arcs : x # a => now[x] = old[x]
               /\ \A x \in Arcs : /\ now[x].dim = old[x].dim /\ now[x].index = old[x].index
                                   /\ old[x].version \in Nat /\ old[x].len \in Nat
                                   /\ now[x].len \in Nat /\ now[x].len <= old[x].len + 1
<1> DEFINE now == [old EXCEPT ![a] = h]
<1>1. now \in [Arcs -> ShardRecord] /\ now[a] = h /\ \A x \in Arcs : x # a => now[x] = old[x]
  OBVIOUS
<1> HIDE DEF now
<1>2. \A x \in Arcs : now[x].dim = old[x].dim /\ now[x].index = old[x].index
  BY <1>1
<1>3. \A x \in Arcs : old[x].version \in Nat /\ old[x].len \in Nat /\ now[x].len \in Nat
  BY <1>1 DEF ShardRecord
<1>4. \A x \in Arcs : now[x].len = old[x].len + 1 \/ now[x].len = old[x].len
  BY <1>1
<1>5. \A x \in Arcs : now[x].len <= old[x].len + 1
  BY <1>3, <1>4
<1> QED
  BY <1>1, <1>2, <1>3, <1>5 DEF now

LEMMA ApplyKeeps ==
    ASSUME StoreInv, NEW t \in Threads, Apply(t), UNCHANGED <<marred, meta>>
    PROVE  StoreInv'
<1> DEFINE r == thread[t]
           a == r.arc
           s == handles[a]
           grown == [s EXCEPT !.len = @ + 1]
           new == [grown EXCEPT !.version = r.stamp]
           due == threshold # 0 /\ new.len - new.last >= threshold
           f == [stamp |-> r.stamp, dim |-> r.dim]
<1>1. /\ r.at = "apply" /\ Fits(r.dim, s.dim) /\ Return(t)
      /\ strayed' = (strayed \/ (wal' # wal /\ a \in forgotten))
      /\ UNCHANGED <<threshold, slot, forgotten>>
      /\ \/ /\ r.stamp <= s.version /\ UNCHANGED <<wal, snap, handles>>
            /\ acked' = Max({acked, r.stamp})
         \/ /\ r.stamp > s.version /\ r.dim \in {0, s.index} /\ wal' = Append(wal, f)
            /\ handles' = [handles EXCEPT ![a] = [new EXCEPT !.last = IF due THEN new.len ELSE @]]
            /\ snap' = IF due THEN [offset |-> new.len, version |-> new.version, dim |-> new.index]
                       ELSE snap
            /\ acked' = Max({acked, r.stamp})
         \/ /\ r.stamp > s.version /\ r.dim \notin {0, s.index} /\ wal' = Append(wal, f)
            /\ handles' = [handles EXCEPT ![a] = grown] /\ UNCHANGED <<snap, acked>>
  BY Zenon DEF Apply
<1>2. /\ StoreTyped /\ r \in RequestRecord /\ a \in Arcs /\ s \in ShardRecord /\ acked \in Nat
      /\ handles \in [Arcs -> ShardRecord] /\ snap \in Snapshot
      /\ s.len <= Len(wal) /\ a # 0 /\ Len(wal) \in Nat /\ InUse(a)
  BY <1>1, WalFrames DEF StoreInv, StoreTyped, RequestRecord, InUse, Held
<1>3. /\ s.version \in Nat /\ r.stamp \in Nat /\ r.dim \in AnyDim /\ s.len \in Nat
      /\ s.dim \in AnyDim /\ s.index \in AnyDim /\ f \in Frame /\ f.stamp = r.stamp /\ f.dim = r.dim
  BY <1>2 DEF RequestRecord, ShardRecord, Frame
<1>4. acked' = Max({acked, r.stamp}) => acked' = IF acked >= r.stamp THEN acked ELSE r.stamp
  BY <1>2, <1>3, MaxOfTwo
<1>5. /\ thread' = [thread EXCEPT ![t] = thread'[t]] /\ thread'[t] \in RequestRecord
      /\ thread'[t].at = "none" /\ thread'[t].arc = 0
  BY <1>1, <1>2, ReturnIs
<1>6. \A u \in Threads : u # t => thread'[u] = thread[u]
  BY <1>5 DEF StoreInv, StoreTyped
<1>7. /\ thread' \in [Threads -> RequestRecord]
      /\ \A u \in Threads : thread'[u].at = "apply" => thread'[u].arc # 0
  BY <1>5, <1>6 DEF StoreInv, StoreTyped
<1>8. \A x \in Arcs : InUse(x)' => InUse(x)
  BY <1>1, <1>5, <1>6, ArcsAre DEF InUse, Held
<1>9. /\ a \in {slot} \cup forgotten
      /\ ~strayed /\ slot # 0 =>
            /\ handles[slot].version >= acked
            /\ \A x \in Arcs : InUse(x) => handles[x].version <= handles[slot].version
  <2>1. a \in {slot} \cup forgotten
    BY <1>2 DEF StoreInv, Served
  <2>2. ASSUME ~strayed, slot # 0
        PROVE  /\ handles[slot].version >= acked
               /\ \A x \in Arcs : InUse(x) => handles[x].version <= handles[slot].version
    <3>1. slot \in Arcs /\ handles[slot].version \in Nat
      BY <1>2, <2>2 DEF StoreTyped, ShardRecord
    <3>2. \A u \in Threads : thread[u].arc # 0 =>
                                handles[thread[u].arc].version <= handles[slot].version
      BY <2>2 DEF StoreInv, Served
    <3> QED
      BY <2>2, <3>1, <3>2, ArcsAre DEF StoreInv, Served, InUse, Held
  <2> QED
    BY <2>1, <2>2
<1>10. ASSUME ~strayed', wal' # wal
       PROVE  /\ ~strayed /\ a = slot /\ s.version >= acked
              /\ \A x \in Arcs : InUse(x) => handles[x].version <= s.version
  <2>1. ~strayed /\ a = slot
    BY <1>1, <1>9, <1>10
  <2> QED
    BY <1>2, <1>9, <2>1
<1>11. ~strayed \/ threshold = 0 =>
         /\ BackedBy(acked, wal, snap) /\ BackedBy(s.version, wal, snap)
         /\ \A x \in Arcs : InUse(x) => BackedBy(handles[x].version, wal, snap)
  BY <1>2 DEF StoreInv, AllBacked, Backed
<1>12. "redim" \notin marred => OneDim /\ s.dim = FirstDim /\ s.index = FirstDim /\ r.dim \in {0, FirstDim}
  BY <1>1, <1>2 DEF StoreInv, OneDim, Fits
<1>13. ASSUME /\ StoreTyped' /\ NoneTaken'
              /\ snap # snap' => snap'.dim = s.index
              /\ ~strayed' /\ slot # 0 =>
                    /\ handles'[slot].version >= acked'
                    /\ \A x \in Arcs : InUse(x) => handles'[x].version <= handles'[slot].version
              /\ ~strayed' \/ threshold = 0 =>
                   /\ BackedBy(acked', wal', snap')
                   /\ \A x \in Arcs : InUse(x)' => BackedBy(handles'[x].version, wal', snap')
              /\ \A i \in 1 .. Len(wal') : (i \in 1 .. Len(wal) /\ wal'[i] = wal[i]) \/ wal'[i].dim = r.dim
              /\ \A x \in Arcs : handles'[x].dim = handles[x].dim /\ handles'[x].index = handles[x].index
       PROVE  StoreInv'
  <2>1. Served'
    <3>1. \A u \in Threads : thread'[u].arc \in {0, slot} \cup forgotten
      BY <1>5, <1>6 DEF StoreInv, Served
    <3>2. \A u \in Threads : thread'[u].arc # 0 =>
                                thread'[u].arc \in Arcs /\ InUse(thread'[u].arc)
      BY <1>2, <1>5, <1>6 DEF StoreTyped, RequestRecord, InUse, Held
    <3> QED
      BY <1>1, <1>13, <3>1, <3>2 DEF Served
  <2>2. AllBacked'
    BY <1>1, <1>13 DEF AllBacked, Backed
  <2>3. ASSUME "redim" \notin marred
        PROVE  OneDim'
    <3>1. OneDim /\ s.index = FirstDim /\ r.dim \in {0, FirstDim}
      BY <1>12, <2>3
    <3>2. \A i \in 1 .. Len(wal') : wal'[i].dim \in {0, FirstDim}
      BY <1>13, <3>1 DEF OneDim
    <3>3. snap' # NoSnapshot => snap'.dim = FirstDim
      BY <1>13, <3>1 DEF OneDim
    <3>4. \A u \in Threads : thread'[u].at # "none" => thread'[u].schema = FirstDim
      BY <1>5, <1>6, <3>1 DEF OneDim
    <3>5. \A x \in Arcs : InUse(x)' => handles'[x].dim = FirstDim /\ handles'[x].index = FirstDim
      BY <1>8, <1>13, <3>1 DEF OneDim
    <3>6. meta'.dim \in {0, FirstDim}
      BY <3>1 DEF OneDim
    <3> QED
      BY <3>2, <3>3, <3>4, <3>5, <3>6 DEF OneDim
  <2> QED
    BY <1>13, <2>1, <2>2, <2>3 DEF StoreInv
<1>14. CASE r.stamp <= s.version /\ UNCHANGED <<wal, snap, handles>> /\ acked' = Max({acked, r.stamp})
  <2>1. acked' \in Nat /\ acked' \in {acked, r.stamp}
    BY <1>2, <1>3, <1>4, <1>14
  <2>2. BackedBy(s.version, wal, snap) => BackedBy(r.stamp, wal, snap)
    <3>1. \A i \in 1 .. Len(wal) : wal[i].stamp \in Nat
      BY <1>2, WalFrames DEF Frame
    <3>2. snap.version \in Nat
      BY <1>2 DEF Snapshot
    <3> QED
      BY <1>3, <1>14, <3>1, <3>2 DEF BackedBy
  <2>3. StoreTyped'
    BY <1>1, <1>2, <1>7, <1>14, <2>1 DEF StoreTyped, RequestRecord, Arcs
  <2>4. NoneTaken'
    BY <1>1, <1>14 DEF StoreInv, NoneTaken
  <2>5. ~strayed' /\ slot # 0 =>
           /\ handles'[slot].version >= acked'
           /\ \A x \in Arcs : InUse(x) => handles'[x].version <= handles'[slot].version
    <3>1. (strayed' <=> strayed) /\ handles' = handles
      BY <1>1, <1>14
    <3>2. slot # 0 => handles[slot].version \in Nat
      BY <1>2 DEF StoreTyped, ShardRecord
    <3> QED
      BY <1>2, <1>3, <1>9, <1>14, <2>1, <3>1, <3>2
  <2>6. ~strayed' \/ threshold = 0 =>
           /\ BackedBy(acked', wal', snap')
           /\ \A x \in Arcs : InUse(x)' => BackedBy(handles'[x].version, wal', snap')
    BY <1>1, <1>8, <1>11, <1>14, <2>1, <2>2
  <2> QED
    BY <1>13, <1>14, <2>3, <2>4, <2>5, <2>6
<1>15. CASE /\ r.stamp > s.version /\ r.dim \notin {0, s.index} /\ wal' = Append(wal, f)
            /\ handles' = [handles EXCEPT ![a] = grown] /\ UNCHANGED <<snap, acked>>
  <2>1. /\ grown \in ShardRecord /\ grown.len = s.len + 1 /\ grown.version = s.version
        /\ grown.dim = s.dim /\ grown.index = s.index
    BY <1>2, GrownIs
  <2> HIDE DEF grown, f
  <2>2. /\ wal' \in Seq(Frame) /\ Len(wal') = Len(wal) + 1
        /\ \A i \in 1 .. Len(wal') : (i \in 1 .. Len(wal) /\ wal'[i] = wal[i]) \/ wal'[i] = f
        /\ \A v \in Nat : BackedBy(v, wal, snap) => BackedBy(v, wal', snap)
    BY <1>2, <1>3, <1>15, AppendBacks
  <2>3. /\ handles' \in [Arcs -> ShardRecord] /\ handles'[a] = grown
        /\ \A x \in Arcs : x # a => handles'[x] = handles[x]
        /\ \A x \in Arcs : /\ handles'[x].dim = handles[x].dim /\ handles'[x].index = handles[x].index
                            /\ handles[x].version \in Nat /\ handles[x].len \in Nat
                            /\ handles'[x].len \in Nat /\ handles'[x].len <= handles[x].len + 1
    <3>1. handles' = [handles EXCEPT ![a] = grown]
      BY <1>15
    <3>2. /\ handles \in [Arcs -> ShardRecord] /\ a \in Arcs /\ grown \in ShardRecord
          /\ grown.len = handles[a].len + 1 /\ grown.dim = handles[a].dim
          /\ grown.index = handles[a].index
      BY <1>2, <2>1
    <3> HIDE DEF a
    <3> QED
      BY <3>1, <3>2, HandleGrows
  <2>4. \A x \in Arcs : handles'[x].version = handles[x].version
    BY <2>1, <2>3
  <2>5. StoreTyped'
    <3>1. snap.offset \in Nat /\ snap.offset <= Len(wal')
      BY <1>2, <2>2 DEF StoreTyped, Snapshot
    <3>2. \A x \in Arcs : handles'[x].len <= Len(wal')
      <4>1. \A x \in Arcs : handles[x].len <= Len(wal)
        BY <1>2 DEF StoreTyped
      <4>2. \A x \in Arcs : handles'[x].len \in Nat
        BY <2>3 DEF ShardRecord
      <4> QED
        BY <1>2, <2>2, <2>3, <4>1, <4>2
    <3> QED
      BY <1>1, <1>2, <1>7, <1>15, <2>2, <2>3, <3>1, <3>2 DEF StoreTyped, RequestRecord, Arcs
  <2>6. NoneTaken'
    BY <1>1, <1>15 DEF StoreInv, NoneTaken
  <2>7. ~strayed' /\ slot # 0 =>
           /\ handles'[slot].version >= acked'
           /\ \A x \in Arcs : InUse(x) => handles'[x].version <= handles'[slot].version
    BY <1>1, <1>2, <1>9, <1>15, <2>4 DEF StoreTyped
  <2>8. ~strayed' \/ threshold = 0 =>
           /\ BackedBy(acked', wal', snap')
           /\ \A x \in Arcs : InUse(x)' => BackedBy(handles'[x].version, wal', snap')
    BY <1>1, <1>2, <1>8, <1>11, <1>15, <2>2, <2>3, <2>4
  <2> QED
    BY <1>3, <1>13, <1>15, <2>2, <2>3, <2>5, <2>6, <2>7, <2>8
<1>16. CASE /\ r.stamp > s.version /\ r.dim \in {0, s.index} /\ wal' = Append(wal, f)
            /\ handles' = [handles EXCEPT ![a] = [new EXCEPT !.last = IF due THEN new.len ELSE @]]
            /\ snap' = IF due THEN [offset |-> new.len, version |-> new.version, dim |-> new.index]
                       ELSE snap
            /\ acked' = Max({acked, r.stamp})
  <2> DEFINE h == [new EXCEPT !.last = IF due THEN new.len ELSE @]
             taken == [offset |-> new.len, version |-> new.version, dim |-> new.index]
  <2>0. acked' \in Nat /\ acked' \in {acked, r.stamp} /\ (r.stamp >= acked => acked' = r.stamp)
    BY <1>2, <1>3, <1>4, <1>16
  <2>1. /\ grown \in ShardRecord /\ grown.len = s.len + 1 /\ grown.dim = s.dim /\ grown.index = s.index
    BY <1>2, GrownIs
  <2> HIDE DEF grown
  <2>2. /\ new \in ShardRecord /\ new.len = s.len + 1 /\ new.version = r.stamp
        /\ new.dim = s.dim /\ new.index = s.index
    BY <1>3, <2>1 DEF ShardRecord
  <2>3. due \in BOOLEAN /\ (due => threshold # 0)
    OBVIOUS
  <2> HIDE DEF new, due
  <2>4. /\ h \in ShardRecord /\ h.len = s.len + 1 /\ h.version = r.stamp
        /\ h.dim = s.dim /\ h.index = s.index
    BY <2>2 DEF ShardRecord
  <2>5. taken \in Snapshot /\ taken.offset = s.len + 1 /\ taken.version = r.stamp /\ taken.dim = s.index
    BY <2>2, <1>3 DEF Snapshot, ShardRecord
  <2>6. handles' = [handles EXCEPT ![a] = h] /\ snap' = (IF due THEN taken ELSE snap)
    BY <1>16
  <2> HIDE DEF h, taken, f
  <2>7. /\ wal' \in Seq(Frame) /\ Len(wal') = Len(wal) + 1
        /\ \A i \in 1 .. Len(wal') : (i \in 1 .. Len(wal) /\ wal'[i] = wal[i]) \/ wal'[i] = f
        /\ BackedBy(r.stamp, wal', snap)
        /\ \A v \in Nat : BackedBy(v, wal, snap) => BackedBy(v, wal', snap)
    BY <1>2, <1>3, <1>16, AppendBacks
  <2>8. /\ handles' \in [Arcs -> ShardRecord] /\ handles'[a] = h
        /\ \A x \in Arcs : x # a => handles'[x] = handles[x]
        /\ \A x \in Arcs : /\ handles'[x].dim = handles[x].dim /\ handles'[x].index = handles[x].index
                            /\ handles[x].version \in Nat /\ handles[x].len \in Nat
                            /\ handles'[x].len \in Nat /\ handles'[x].len <= handles[x].len + 1
    BY <1>2, <2>4, <2>6, HandleGrows
  <2>9. \A x \in Arcs : /\ handles'[x].dim = handles[x].dim /\ handles'[x].index = handles[x].index
                         /\ handles[x].version \in Nat
                         /\ handles[x].len \in Nat /\ handles'[x].len <= handles[x].len + 1
    BY <2>8
  <2>10. StoreTyped'
    <3>1. snap' \in Snapshot /\ snap'.offset <= Len(wal')
      <4>1. snap.offset \in Nat /\ snap.offset <= Len(wal)
        BY <1>2 DEF StoreTyped, Snapshot
      <4> QED
        BY <1>2, <1>3, <2>5, <2>6, <2>7, <4>1
    <3>2. \A x \in Arcs : handles'[x].len <= Len(wal')
      <4>1. \A x \in Arcs : handles[x].len <= Len(wal)
        BY <1>2 DEF StoreTyped
      <4>2. \A x \in Arcs : handles'[x].len \in Nat
        BY <2>8 DEF ShardRecord
      <4> QED
        BY <1>2, <2>7, <2>9, <4>1, <4>2
    <3> QED
      BY <1>1, <1>2, <1>7, <2>0, <2>7, <2>8, <3>1, <3>2 DEF StoreTyped, RequestRecord, Arcs
  <2>11. NoneTaken'
    BY <1>1, <2>3, <2>6 DEF StoreInv, NoneTaken
  <2>12. ASSUME ~strayed'
         PROVE  /\ a = slot /\ r.stamp >= acked /\ acked' = r.stamp
                /\ \A x \in Arcs : InUse(x) => handles'[x].version <= r.stamp
    <3>1. wal' # wal
      BY <1>2, <2>7
    <3>2. /\ a = slot /\ s.version >= acked
          /\ \A x \in Arcs : InUse(x) => handles[x].version <= s.version
      BY <1>10, <2>12, <3>1
    <3>3. \A x \in Arcs : InUse(x) /\ x # a => handles'[x].version <= r.stamp
      BY <1>3, <1>16, <2>8, <2>9, <3>2
    <3>4. handles'[a].version <= r.stamp
      BY <1>3, <2>4, <2>8
    <3>5. r.stamp >= acked
      BY <1>2, <1>3, <1>16, <3>2
    <3> QED
      BY <2>0, <3>2, <3>3, <3>4, <3>5
  <2>13. ~strayed' /\ slot # 0 =>
             /\ handles'[slot].version >= acked'
             /\ \A x \in Arcs : InUse(x) => handles'[x].version <= handles'[slot].version
    BY <1>3, <2>4, <2>8, <2>12
  <2>14. ASSUME ~strayed' \/ threshold = 0
         PROVE  /\ BackedBy(acked', wal', snap')
                /\ \A x \in Arcs : InUse(x)' => BackedBy(handles'[x].version, wal', snap')
    <3>1. CASE ~due
      <4>1. snap' = snap
        BY <2>6, <3>1
      <4>2. BackedBy(acked', wal', snap)
        BY <1>1, <1>2, <1>11, <2>0, <2>7, <2>14
      <4>3. ASSUME NEW x \in Arcs, InUse(x)'
            PROVE  BackedBy(handles'[x].version, wal', snap)
        <5>1. CASE x = a
          BY <2>4, <2>7, <2>8, <5>1
        <5>2. CASE x # a
          BY <1>1, <1>8, <1>11, <2>7, <2>8, <2>9, <2>14, <4>3, <5>2
        <5> QED
          BY <5>1, <5>2
      <4> QED
        BY <4>1, <4>2, <4>3
    <3>2. CASE due
      <4>1. ~strayed' /\ snap' = taken
        BY <2>3, <2>6, <2>14, <3>2
      <4>2. BackedBy(r.stamp, wal', taken)
        BY <1>3, <2>5 DEF BackedBy
      <4>3. ASSUME NEW x \in Arcs, InUse(x)'
            PROVE  BackedBy(handles'[x].version, wal', taken)
        <5>1. handles'[x].version <= r.stamp /\ handles'[x].version \in Nat
          BY <1>8, <2>8, <2>12, <4>1, <4>3 DEF ShardRecord
        <5> QED
          BY <2>5, <5>1 DEF BackedBy
      <4> QED
        BY <2>12, <4>1, <4>2, <4>3
    <3> QED
      BY <3>1, <3>2
  <2>15. snap # snap' => snap'.dim = s.index
    BY <2>5, <2>6
  <2>16. \A i \in 1 .. Len(wal') : (i \in 1 .. Len(wal) /\ wal'[i] = wal[i]) \/ wal'[i].dim = r.dim
    BY <1>3, <2>7
  <2> QED
    BY <1>13, <2>9, <2>10, <2>11, <2>13, <2>14, <2>15, <2>16
<1> QED
  BY <1>1, <1>14, <1>15, <1>16

LEMMA StoreStarts == Init => StoreInv
<1> SUFFICES ASSUME Init
             PROVE  StoreInv
  OBVIOUS
<1>1. /\ threshold \in Thresholds /\ wal = <<>> /\ snap = NoSnapshot
      /\ handles = [a \in Arcs |-> NoShard] /\ slot = 0
      /\ thread = [t \in Threads |-> NoRequest] /\ acked = 0
      /\ forgotten = {} /\ strayed = FALSE
      /\ meta.dim = FirstDim
  BY DEF Init, StoreInit
<1>2. NoRequest \in RequestRecord /\ NoRequest.at = "none" /\ NoRequest.arc = 0
  BY DEF NoRequest, RequestRecord, AnyDim
<1>3. NoShard \in ShardRecord /\ NoShard.len = 0
  BY DEF NoShard, ShardRecord, AnyDim
<1>4. NoSnapshot \in Snapshot /\ NoSnapshot.offset = 0 /\ NoSnapshot.version = 0
  BY DEF NoSnapshot, Snapshot, AnyDim
<1>5. wal \in Seq(Frame) /\ Len(wal) = 0
  BY <1>1
<1>6. StoreTyped
  <2>1. handles \in [Arcs -> ShardRecord] /\ \A a \in Arcs : handles[a].len <= 0
    BY <1>1, <1>3
  <2>2. thread \in [Threads -> RequestRecord] /\ \A t \in Threads : thread[t].at = "none"
    BY <1>1, <1>2
  <2>3. snap \in Snapshot /\ snap.offset <= Len(wal)
    BY <1>1, <1>4, <1>5
  <2>4. threshold \in Thresholds /\ slot \in Arcs \cup {0} /\ acked \in Nat
    BY <1>1
  <2>5. forgotten \in SUBSET Arcs /\ strayed \in BOOLEAN
    BY <1>1
  <2>6. \A a \in Arcs : handles[a].len <= Len(wal)
    BY <1>5, <2>1
  <2>7. \A t \in Threads : thread[t].at # "apply"
    BY <2>2
  <2> QED
    BY <1>5, <2>1, <2>2, <2>3, <2>4, <2>5, <2>6, <2>7, Zenon DEF StoreTyped
<1>7. Served /\ NoneTaken
  BY <1>1, <1>2 DEF Served, NoneTaken
<1>8. \A a \in Arcs : ~InUse(a)
  BY <1>1, <1>2, ArcsAre DEF InUse, Held
<1>9. AllBacked
  BY <1>1, <1>4, <1>8 DEF AllBacked, Backed, BackedBy
<1>10. OneDim
  BY <1>1, <1>2, <1>5, <1>8 DEF OneDim
<1> QED
  BY <1>6, <1>7, <1>9, <1>10 DEF StoreInv

LEMMA StoreNext == AdminInv /\ StoreInv /\ [Next]_vars => StoreInv'
<1> SUFFICES ASSUME AdminInv, StoreInv, [Next]_vars
             PROVE  StoreInv'
  OBVIOUS
<1>0. meta \in Metas
  BY DEF AdminInv, AdminTyped
<1>1. ASSUME UNCHANGED storeVars, marred \subseteq marred', meta'.dim = meta.dim
      PROVE  StoreInv'
  <2>1. "redim" \notin marred' => meta'.dim \in {0, FirstDim}
    BY <1>1 DEF StoreInv, OneDim
  <2> QED
    BY <1>1, <2>1, StoreQuiet DEF storeVars, fileVars
<1>2. ASSUME NEW c \in Calls, Register(c) \/ Deregister(c)
      PROVE  StoreInv'
  <2>1. /\ meta' \in {meta, RegisterNode(call[c].node), DeregisterNode(call[c].node)}
        /\ marred \subseteq marred' /\ UNCHANGED storeVars
    BY <1>2 DEF Register, Deregister, Submit
  <2>2. /\ RegisterNode(call[c].node).dim = meta.dim
        /\ DeregisterNode(call[c].node).dim = meta.dim
    BY <1>0 DEF RegisterNode, DeregisterNode, Metas
  <2> QED
    BY <1>1, <2>1, <2>2
<1>3. ASSUME NEW c \in Calls, AddLearner(c) \/ ReadVoters(c) \/ ChangeMembership(c) \/ ChangeRefused(c)
      PROVE  StoreInv'
  <2>1. UNCHANGED <<meta, storeVars>> /\ marred \subseteq marred'
    BY <1>3 DEF AddLearner, ReadVoters, ChangeMembership, ChangeRefused, Submit
  <2> QED
    BY <1>1, <2>1
<1>4. ASSUME NEW c \in Calls, Bootstrap(c) \/ \E n \in Nodes : Join(c, n) \/ Leave(c, n)
      PROVE  StoreInv'
  <2>1. UNCHANGED <<meta, storeVars>> /\ marred \subseteq marred'
    BY <1>4 DEF Bootstrap, Join, Leave, BeginCall
  <2> QED
    BY <1>1, <2>1
<1>5. ASSUME NEW n \in Nodes, Elect(n) \/ BeginAcquire(n) \/ MarkSyncing(n) \/ MarkActive(n)
      PROVE  StoreInv'
  <2>1. UNCHANGED storeVars /\ marred \subseteq marred'
    BY <1>5 DEF Elect, BeginAcquire, MarkSyncing, MarkActive
  <2>2. meta'.dim = meta.dim
    BY <1>0, <1>5 DEF Elect, BeginAcquire, MarkSyncing, MarkActive, SetShardState, Metas
  <2> QED
    BY <1>1, <2>1, <2>2
<1>6. ASSUME NEW d \in Dims, Create(d)
      PROVE  StoreInv'
  <2>1. /\ UNCHANGED storeVars /\ marred \subseteq marred'
        /\ "redim" \notin marred' => meta'.dim = FirstDim
    BY <1>6 DEF Create
  <2> QED
    BY <2>1, StoreQuiet DEF storeVars, fileVars
<1>7. ASSUME NEW here \in BOOLEAN, Drop(here)
      PROVE  StoreInv'
  <2>1. /\ UNCHANGED <<fileVars, handles, slot, thread, forgotten, strayed, marred>> /\ acked' = 0
        /\ meta' = DropCollection
    BY <1>7 DEF Drop
  <2>2. meta'.dim = 0
    BY <1>0, <2>1 DEF DropCollection, Metas
  <2> QED
    BY <2>1, <2>2, StoreQuiet
<1>8. ASSUME DropLocal \/ Release
      PROVE  StoreInv'
  <2>1. Forget /\ UNCHANGED <<acked, marred, meta>>
    BY <1>8 DEF DropLocal, Release
  <2> QED
    BY <2>1, ForgetKeeps
<1>9. ASSUME Restart
      PROVE  StoreInv'
  <2>1. RestartStore /\ UNCHANGED <<marred, meta>>
    BY <1>9 DEF Restart
  <2> QED
    BY <2>1, RestartKeeps
<1>10. ASSUME NEW t \in Threads, NEW stamp \in Nat, NEW d \in AnyDim, Request(t, stamp, d)
       PROVE  StoreInv'
  <2>1. meta.dim # 0 /\ BeginRequest(t, stamp, d, meta.dim) /\ UNCHANGED <<marred, meta>>
    BY <1>10 DEF Request
  <2> QED
    BY <1>0, <2>1, BeginRequestKeeps
<1>11. ASSUME NEW t \in Threads,
              \/ \E stamp \in 1 .. MaxStamp, d \in Dims \cup {0} : Request(t, stamp, d)
              \/ Request(t, 0, 0)
       PROVE  StoreInv'
  <2>1. \A stamp \in 1 .. MaxStamp : stamp \in Nat
    BY CallsAssumption
  <2> QED
    BY <1>10, <1>11, <2>1 DEF AnyDim
<1>12. ASSUME NEW t \in Threads,
              \/ Unchanging(Lookup(t)) \/ Unchanging(Open(t))
              \/ Unchanging(Apply(t)) \/ Unchanging(Refuse(t))
       PROVE  StoreInv'
  <2>1. UNCHANGED <<marred, meta>> /\ (Lookup(t) \/ Open(t) \/ Apply(t) \/ Refuse(t))
    BY <1>12 DEF Unchanging
  <2>2. CASE Refuse(t)
    <3>1. Return(t) /\ UNCHANGED <<fileVars, handles, slot, acked, forgotten, strayed, marred, meta>>
      BY <2>1, <2>2 DEF Refuse
    <3> QED
      BY <3>1, RefuseKeeps
  <2> QED
    BY <2>1, <2>2, LookupKeeps, OpenKeeps, ApplyKeeps
<1>13. CASE UNCHANGED vars
  BY <1>1, <1>13 DEF vars
<1> QED
  BY <1>2, <1>3, <1>4, <1>5, <1>6, <1>7, <1>8, <1>9, <1>11, <1>12, <1>13 DEF Next, AdminStep

LEMMA StoreAlways == Spec => []StoreInv
<1>1. Init => StoreInv
  BY StoreStarts
<1>2. AdminInv /\ StoreInv /\ [Next]_vars => StoreInv'
  BY StoreNext
<1> QED
  BY <1>1, <1>2, AdminAlways, PTL DEF Spec

\* The shard in the map has every acknowledged write, whichever requests race to
\* open it (the second look of get_or_open) and whichever handles in use the map
\* forgets, until a request appends through a forgotten one (drop_shard).
THEOREM AckedStaysServed == Spec => []AckedServed
<1>1. StoreInv => AckedServed
  BY DEF StoreInv, Served, AckedServed
<1> QED
  BY <1>1, StoreAlways, PTL

\* As long as the collection keeps its dimension, Shard::open succeeds on the
\* files: no vector of another dimension gets past the checks of upsert.
THEOREM AlwaysReopens == Spec => []Reopens
<1>1. StoreInv => Reopens
  <2> SUFFICES ASSUME StoreInv, "redim" \notin marred
               PROVE  Recovered(FirstDim).ok
    BY DEF Reopens
  <2>1. IndexFor(FirstDim) = FirstDim /\ FirstDim \in AnyDim
    BY FirstDimIs DEF StoreInv, OneDim, IndexFor, AnyDim
  <2>2. \A i \in 1 .. Len(wal) : wal[i].dim \in {0, IndexFor(FirstDim)}
    BY <2>1 DEF StoreInv, OneDim
  <2> QED
    BY <2>1, <2>2, RecoveredOk DEF StoreInv
<1> QED
  BY <1>1, StoreAlways, PTL

\* The next open recovers every acknowledged write as long as no request appended
\* through a forgotten handle, and even then when nobody snapshots (Shard::open,
\* maybe_snapshot).
THEOREM AckedStaysRecoverable == Spec => []AckedRecoverable
<1>1. StoreInv => AckedRecoverable
  <2> SUFFICES ASSUME StoreInv, "redim" \notin marred, ~strayed \/ threshold = 0
               PROVE  Recovered(FirstDim).shard.version >= acked
    BY DEF AckedRecoverable
  <2>1. IndexFor(FirstDim) = FirstDim /\ FirstDim \in AnyDim
    BY FirstDimIs DEF StoreInv, OneDim, IndexFor, AnyDim
  <2>2. \A i \in 1 .. Len(wal) : wal[i].dim \in {0, IndexFor(FirstDim)}
    BY <2>1 DEF StoreInv, OneDim
  <2>3. Recovered(FirstDim).ok /\ Backed(acked) /\ acked \in Nat
    BY <2>1, <2>2, RecoveredOk DEF StoreInv, AllBacked, StoreTyped
  <2> QED
    BY <2>1, <2>3, RecoveredCovers DEF StoreInv
<1> QED
  BY <1>1, StoreAlways, PTL

-----------------------------------------------------------------------------
(* Type correctness.                                                       *)

PlaneTyped ==
    /\ mark \in [Nodes -> {"none", "begun", "syncing"}]
    /\ dropping \in BOOLEAN /\ left \in Setup

\* What is left of a setup is a setup.
LEMMA LeftIs ==
    ASSUME NEW s \in Setup
    PROVE  /\ s.calls > 0 => [s EXCEPT !.calls = @ - 1] \in Setup
           /\ s.faults > 0 => [s EXCEPT !.faults = @ - 1] \in Setup
           /\ s.acquires > 0 => [s EXCEPT !.acquires = @ - 1] \in Setup
           /\ s.drops > 0 => [s EXCEPT !.drops = @ - 1] \in Setup
           /\ s.creates > 0 => [s EXCEPT !.creates = @ - 1] \in Setup
           /\ s.releases > 0 => [s EXCEPT !.releases = @ - 1] \in Setup
           /\ s.requests > 0 => [s EXCEPT !.requests = @ - 1] \in Setup
           /\ s.restarts > 0 => [s EXCEPT !.restarts = @ - 1] \in Setup
<1>1. \A k \in Nat : k > 0 => k - 1 \in Nat
  OBVIOUS
<1> QED
  BY <1>1 DEF Setup

LEMMA PlaneNext == PlaneTyped /\ [Next]_vars => PlaneTyped'
<1> SUFFICES ASSUME PlaneTyped, [Next]_vars
             PROVE  PlaneTyped'
  OBVIOUS
<1>0. left \in Setup
  BY DEF PlaneTyped
<1>1. ASSUME NEW c \in Calls, Bootstrap(c) \/ \E n \in Nodes : Join(c, n) \/ Leave(c, n)
      PROVE  PlaneTyped'
  <2>1. UNCHANGED <<mark, dropping>> /\ left.calls > 0 /\ left' = [left EXCEPT !.calls = @ - 1]
    BY <1>1 DEF Bootstrap, Join, Leave, BeginCall
  <2> QED
    BY <1>0, <2>1, LeftIs DEF PlaneTyped
<1>2. ASSUME NEW c \in Calls, AdminStep(c)
      PROVE  PlaneTyped'
  <2>1. /\ UNCHANGED <<mark, dropping>>
        /\ \/ UNCHANGED left
           \/ left.faults > 0 /\ left' = [left EXCEPT !.faults = @ - 1]
    BY <1>2 DEF AdminStep, Register, AddLearner, ReadVoters, ChangeMembership, ChangeRefused,
                Deregister, Submit
  <2> QED
    BY <1>0, <2>1, LeftIs DEF PlaneTyped
<1>3. ASSUME NEW n \in Nodes, Elect(n)
      PROVE  PlaneTyped'
  <2>1. /\ UNCHANGED <<mark, dropping>>
        /\ \/ UNCHANGED left
           \/ left.faults > 0 /\ left' = [left EXCEPT !.faults = @ - 1]
    BY <1>3 DEF Elect
  <2> QED
    BY <1>0, <2>1, LeftIs DEF PlaneTyped
<1>4. ASSUME NEW n \in Nodes, BeginAcquire(n) \/ MarkSyncing(n) \/ MarkActive(n)
      PROVE  PlaneTyped'
  <2>1. mark' \in [Nodes -> {"none", "begun", "syncing"}] /\ UNCHANGED dropping
    BY <1>4 DEF BeginAcquire, MarkSyncing, MarkActive, PlaneTyped
  <2>2. \/ UNCHANGED left
        \/ left.acquires > 0 /\ left' = [left EXCEPT !.acquires = @ - 1]
    BY <1>4 DEF BeginAcquire, MarkSyncing, MarkActive
  <2> QED
    BY <1>0, <2>1, <2>2, LeftIs DEF PlaneTyped
<1>5. ASSUME NEW d \in Dims, Create(d)
      PROVE  PlaneTyped'
  <2>1. UNCHANGED <<mark, dropping>> /\ left.creates > 0 /\ left' = [left EXCEPT !.creates = @ - 1]
    BY <1>5 DEF Create
  <2> QED
    BY <1>0, <2>1, LeftIs DEF PlaneTyped
<1>6. ASSUME NEW here \in BOOLEAN, Drop(here)
      PROVE  PlaneTyped'
  <2>1. /\ UNCHANGED mark /\ dropping' \in BOOLEAN
        /\ left.drops > 0 /\ left' = [left EXCEPT !.drops = @ - 1]
    BY <1>6 DEF Drop
  <2> QED
    BY <1>0, <2>1, LeftIs DEF PlaneTyped
<1>7. ASSUME DropLocal \/ Release \/ Restart
      PROVE  PlaneTyped'
  <2>1. /\ UNCHANGED mark /\ (dropping' = dropping \/ dropping' = FALSE)
        /\ \/ UNCHANGED left
           \/ left.releases > 0 /\ left' = [left EXCEPT !.releases = @ - 1]
           \/ left.restarts > 0 /\ left' = [left EXCEPT !.restarts = @ - 1]
    BY <1>7 DEF DropLocal, Release, Restart
  <2> QED
    BY <1>0, <2>1, LeftIs DEF PlaneTyped
<1>8. ASSUME NEW t \in Threads,
             \/ \E stamp \in 1 .. MaxStamp, d \in Dims \cup {0} : Request(t, stamp, d)
             \/ Request(t, 0, 0)
             \/ Unchanging(Lookup(t)) \/ Unchanging(Open(t))
             \/ Unchanging(Apply(t)) \/ Unchanging(Refuse(t))
      PROVE  PlaneTyped'
  <2>1. /\ UNCHANGED <<mark, dropping>>
        /\ \/ UNCHANGED left
           \/ left.requests > 0 /\ left' = [left EXCEPT !.requests = @ - 1]
    BY <1>8 DEF Request, Unchanging
  <2> QED
    BY <1>0, <2>1, LeftIs DEF PlaneTyped
<1>9. CASE UNCHANGED vars
  BY <1>9 DEF vars, PlaneTyped
<1> QED
  BY <1>1, <1>2, <1>3, <1>4, <1>5, <1>6, <1>7, <1>8, <1>9 DEF Next

\* Every variable keeps its type: MetaState, openraft's membership, the admin
\* calls in progress and the shard's files and handles.
THEOREM TypeCorrect == Spec => []TypeOK
<1>1. Init => PlaneTyped
  BY SetupsAssumption DEF Init, PlaneTyped
<1>2. PlaneTyped /\ [Next]_vars => PlaneTyped'
  BY PlaneNext
<1>3. AdminInv /\ StoreInv /\ PlaneTyped => TypeOK
  <2> SUFFICES ASSUME AdminInv, StoreInv, PlaneTyped
               PROVE  TypeOK
    OBVIOUS
  <2>1. meta.nodes \subseteq Nodes /\ meta.dim \in Dims \cup {0} /\ meta.syncing \subseteq Nodes
    BY DEF AdminInv, AdminTyped, Metas
  <2>2. /\ raft.configs \in Seq((SUBSET Nodes) \ {{}}) /\ raft.nodes \subseteq Nodes
        /\ raft.leader \in Voters \cup {0} /\ Voters \subseteq raft.nodes
    BY DEF AdminInv, AdminTyped, RaftTyped, RaftState, Configs, Voters, VotersOf
  <2>3. ASSUME NEW c \in Calls, call[c] # NoCall
        PROVE  At(c) \in Range(Script(call[c].kind))
    <3>1. /\ CallTyped(call[c]) /\ call[c].kind \in {"bootstrap", "join", "leave"}
          /\ call[c].step \in Nat /\ call[c].step >= 1 /\ call[c].step <= Len(Script(call[c].kind))
      BY <2>3 DEF AdminInv, AdminTyped, CallTyped, CallRecord, Kinds
    <3>2. Script(call[c].kind) \in Seq(Steps)
      <4>1. <<"register">> \in Seq(Steps)
        BY DEF Steps
      <4>2. <<"register", "learner", "voters", "change", "settle">> \in Seq(Steps)
        BY DEF Steps
      <4>3. <<"voters", "change", "settle", "deregister">> \in Seq(Steps)
        BY DEF Steps
      <4> QED
        BY <3>1, <4>1, <4>2, <4>3, Scripts, Zenon
    <3>3. call[c].step \in DOMAIN Script(call[c].kind)
      BY <3>1, <3>2, LenProperties
    <3>4. At(c) = Script(call[c].kind)[call[c].step]
      BY <2>3 DEF At
    <3> QED
      BY <3>3, <3>4 DEF Range
  <2>4. /\ told \in [Nodes -> {"unsure", "in", "out"}]
        /\ marred \subseteq {"bootstrap", "join", "leave", "overlap", "stray", "redim"}
    BY DEF AdminInv, AdminTyped
  <2>5. StoreTypeOK
    <3>1. \A i \in DOMAIN wal : wal[i].stamp \in Nat /\ wal[i].dim \in Dims \cup {0}
      <4>1. DOMAIN wal = 1 .. Len(wal)
        BY LenProperties DEF StoreInv, StoreTyped
      <4>2. \A i \in 1 .. Len(wal) : wal[i] \in Frame
        BY WalFrames DEF StoreInv
      <4> QED
        BY <4>1, <4>2 DEF Frame, AnyDim
    <3>2. snap.offset \in Nat /\ snap.version \in Nat /\ snap.dim \in Dims \cup {0}
      BY DEF StoreInv, StoreTyped, Snapshot, AnyDim
    <3> QED
      BY <3>1, <3>2 DEF StoreInv, StoreTyped, StoreTypeOK, ShardRecord, RequestRecord, AnyDim
  <2> QED
    BY <2>1, <2>2, <2>3, <2>4, <2>5 DEF TypeOK, PlaneTyped
<1> QED
  BY <1>1, <1>2, <1>3, AdminAlways, StoreAlways, PTL DEF Spec

-----------------------------------------------------------------------------
(* Placement.  The ring is the vnodes of the members in sorted order, the  *)
(* walk goes round it once, and so meets the members in an order that is   *)
(* fixed by the hashes.                                                    *)

RingTyped == pos \in [Nodes \X Indexes -> 0 .. Points - 1] /\ home \in 0 .. Points - 1

Vnode == Nodes \X Indexes

\* How far clockwise from the home a vnode is, and the order that this gives.
Distance(v) == (pos[v] + Points - home) % Points
Nearer(v, w) ==
    \/ Distance(v) < Distance(w)
    \/ Distance(v) = Distance(w) /\ v[1] < w[1]
    \/ Distance(v) = Distance(w) /\ v[1] = w[1] /\ v[2] < w[2]

LEMMA Wraps ==
    ASSUME NEW n \in Nat, n # 0, NEW x \in Nat, x < 2 * n
    PROVE  x % n = IF x < n THEN x ELSE x - n
<1>1. CASE x < n
  BY <1>1
<1>2. CASE x >= n
  BY <1>2
<1> QED
  BY <1>1, <1>2

LEMMA VnodeIs ==
    ASSUME RingTyped, NEW v \in Vnode
    PROVE  /\ v[1] \in Nat /\ v[1] \in Nodes /\ v[2] \in Nat /\ v[2] \in Indexes /\ v = <<v[1], v[2]>>
           /\ pos[v] \in Nat /\ pos[v] < Points /\ home \in Nat /\ home < Points
           /\ Points \in Nat /\ Points # 0
<1>1. Points \in Nat /\ Points # 0 /\ Vnodes \in Nat /\ Nodes \subseteq Nat
  BY SizesAssumption, NodesAssumption
<1>2. pos[v] \in 0 .. Points - 1 /\ home \in 0 .. Points - 1
  BY DEF RingTyped, Vnode
<1>3. PICK a \in Nodes, i \in Indexes : v = <<a, i>>
  BY DEF Vnode
<1>4. v[1] = a /\ v[2] = i /\ i \in Nat
  BY <1>1, <1>3 DEF Indexes
<1> QED
  BY <1>1, <1>2, <1>3, <1>4

LEMMA DistanceIs ==
    ASSUME RingTyped, NEW v \in Vnode
    PROVE  /\ Distance(v) = IF pos[v] < home THEN pos[v] + Points - home ELSE pos[v] - home
           /\ Distance(v) \in Nat
<1>1. /\ pos[v] \in Nat /\ pos[v] < Points /\ home \in Nat /\ home < Points
      /\ Points \in Nat /\ Points # 0
  BY VnodeIs
<1> DEFINE x == pos[v] + Points - home
<1>2. x \in Nat /\ x < 2 * Points /\ (x < Points <=> pos[v] < home)
  BY <1>1
<1>3. x % Points = IF x < Points THEN x ELSE x - Points
  BY <1>1, <1>2, Wraps
<1> QED
  BY <1>1, <1>2, <1>3 DEF Distance

\* Ring::new sorts by a strict total order.
LEMMA SortIsTotal ==
    ASSUME RingTyped, NEW u \in Vnode, NEW v \in Vnode, NEW w \in Vnode
    PROVE  /\ ~SortsBefore(v, v)
           /\ SortsBefore(u, v) /\ SortsBefore(v, w) => SortsBefore(u, w)
           /\ v # w => SortsBefore(v, w) \/ SortsBefore(w, v)
<1>1. /\ u[1] \in Nat /\ u[2] \in Nat /\ pos[u] \in Nat
      /\ v[1] \in Nat /\ v[2] \in Nat /\ pos[v] \in Nat /\ v = <<v[1], v[2]>>
      /\ w[1] \in Nat /\ w[2] \in Nat /\ pos[w] \in Nat /\ w = <<w[1], w[2]>>
  BY VnodeIs
<1>2. v # w => v[1] # w[1] \/ v[2] # w[2]
  BY <1>1
<1> QED
  BY <1>1, <1>2 DEF SortsBefore

Rank(V, v) == Cardinality({w \in V : SortsBefore(w, v)})

LEMMA RankOrders ==
    ASSUME RingTyped, NEW V \in SUBSET Vnode, IsFiniteSet(V), NEW v \in V, NEW w \in V
    PROVE  /\ Rank(V, v) \in 0 .. Cardinality(V) - 1
           /\ SortsBefore(v, w) <=> Rank(V, v) < Rank(V, w)
           /\ Rank(V, v) = Rank(V, w) => v = w
<1> DEFINE B(x) == {y \in V : SortsBefore(y, x)}
<1>1. ASSUME NEW x \in V
      PROVE  /\ IsFiniteSet(B(x)) /\ Cardinality(B(x)) \in Nat /\ x \notin B(x)
             /\ Cardinality(B(x)) < Cardinality(V) /\ Cardinality(V) \in Nat
  <2>1. x \notin B(x) /\ B(x) \subseteq V /\ B(x) # V
    BY SortIsTotal
  <2> HIDE DEF B
  <2>2. IsFiniteSet(B(x)) /\ Cardinality(B(x)) <= Cardinality(V) /\ Cardinality(B(x)) # Cardinality(V)
    BY <2>1, FS_Subset
  <2>3. Cardinality(B(x)) \in Nat /\ Cardinality(V) \in Nat
    BY <2>2, FS_CardinalityType
  <2> QED
    BY <2>1, <2>2, <2>3
<1>2. ASSUME NEW x \in V, NEW y \in V, SortsBefore(x, y)
      PROVE  Cardinality(B(x)) < Cardinality(B(y))
  <2>1. B(x) \subseteq B(y)
    BY <1>2, SortIsTotal
  <2>2. x \in B(y) /\ x \notin B(x)
    BY <1>1, <1>2
  <2> HIDE DEF B
  <2>3. Cardinality(B(x)) <= Cardinality(B(y)) /\ Cardinality(B(x)) # Cardinality(B(y))
    BY <1>1, <2>1, <2>2, FS_Subset
  <2> QED
    BY <1>1, <2>3
<1>3. \A x \in V : Rank(V, x) = Cardinality(B(x))
  BY DEF Rank
<1> HIDE DEF B
<1>4. v = w \/ SortsBefore(v, w) \/ SortsBefore(w, v)
  BY SortIsTotal
<1>5. ~SortsBefore(v, v)
  BY SortIsTotal
<1> QED
  BY <1>1, <1>2, <1>3, <1>4, <1>5

LEMMA RankOnto ==
    ASSUME RingTyped, NEW V \in SUBSET Vnode, IsFiniteSet(V), NEW k \in 0 .. Cardinality(V) - 1
    PROVE  \E v \in V : Rank(V, v) = k
<1> DEFINE N == Cardinality(V)
           f == [v \in V |-> Rank(V, v)]
<1>1. N \in Nat /\ IsFiniteSet(0 .. N - 1) /\ Cardinality(0 .. N - 1) = N
  <2>1. N \in Nat
    BY FS_CardinalityType
  <2>2. IsFiniteSet(0 .. N - 1) /\ Cardinality(0 .. N - 1) = IF 0 > N - 1 THEN 0 ELSE N - 1 - 0 + 1
    <3>1. N - 1 \in Int /\ 0 \in Int
      BY <2>1
    <3> HIDE DEF N
    <3> QED
      BY <3>1, FS_Interval
  <2> QED
    BY <2>1, <2>2
<1>2. f \in [V -> 0 .. N - 1]
  BY RankOrders
<1>3. \A v, w \in V : f[v] = f[w] => v = w
  BY RankOrders
<1>4. f \in Injection(V, 0 .. N - 1)
  BY <1>2, <1>3 DEF Injection, IsInjective
<1>5. f \in Surjection(V, 0 .. N - 1)
  BY <1>1, <1>4, FS_Injection
<1>6. \E v \in V : f[v] = k
  BY <1>5 DEF Surjection
<1> QED
  BY <1>6

\* The vnodes V in that order, each once.
Sorted(V, r) ==
    /\ V \in SUBSET Vnode /\ Len(r) \in Nat /\ DOMAIN r = 1 .. Len(r)
    /\ r \in [1 .. Len(r) -> V]
    /\ \A i, j \in 1 .. Len(r) : i < j => SortsBefore(r[i], r[j])
    /\ \A v \in V : \E i \in 1 .. Len(r) : r[i] = v

LEMMA RingIs ==
    ASSUME RingTyped, NEW M \in SUBSET Nodes
    PROVE  Sorted(M \X Indexes, Ring(M))
<1> DEFINE V == M \X Indexes
           N == Cardinality(V)
           r == Ring(M)
           ranked == {<<v, Cardinality({w \in V : SortsBefore(w, v)})>> : v \in V}
<1>1. V \in SUBSET Vnode
  BY DEF Vnode
<1>2. IsFiniteSet(V) /\ N \in Nat
  <2>1. IsFiniteSet(M)
    BY NodesAssumption, FS_Subset
  <2>2. 0 \in Int /\ Vnodes - 1 \in Int
    BY SizesAssumption
  <2>3. IsFiniteSet(Indexes)
    BY <2>2, FS_Interval DEF Indexes
  <2> QED
    BY <2>1, <2>3, FS_Product, FS_CardinalityType
<1>3. r = [i \in 1 .. N |-> (CHOOSE x \in ranked : x[2] = i - 1)[1]]
  BY DEF Ring
<1>4. ranked = {<<v, Rank(V, v)>> : v \in V}
  BY DEF Rank
<1> HIDE DEF V, ranked, r
<1>5. ASSUME NEW i \in 1 .. N
      PROVE  r[i] \in V /\ Rank(V, r[i]) = i - 1
  <2>1. i - 1 \in 0 .. N - 1
    BY <1>2
  <2> HIDE DEF N
  <2>2. \E v \in V : Rank(V, v) = i - 1
    BY <1>1, <1>2, <2>1, RankOnto DEF N
  <2>3. \E x \in ranked : x[2] = i - 1
    <3>1. PICK v \in V : Rank(V, v) = i - 1
      BY <2>2
    <3>2. <<v, Rank(V, v)>> \in ranked
      BY <1>4
    <3>3. <<v, Rank(V, v)>>[2] = i - 1
      BY <3>1
    <3> QED
      BY <3>2, <3>3
  <2>4. PICK x \in ranked : x[2] = i - 1 /\ r[i] = x[1]
    BY <1>3, <2>3
  <2> QED
    BY <1>4, <2>4
<1> HIDE DEF N
<1>6. r \in [1 .. N -> V]
  BY <1>3, <1>5
<1>7. r \in Seq(V) /\ Len(r) = N
  BY <1>2, <1>6, SeqDef, LenProperties
<1>8. ASSUME NEW i \in 1 .. N, NEW j \in 1 .. N, i < j
      PROVE  SortsBefore(r[i], r[j])
  <2>1. i - 1 < j - 1
    BY <1>2, <1>8
  <2> QED
    BY <1>1, <1>2, <1>5, <2>1, RankOrders
<1>9. ASSUME NEW v \in V
      PROVE  \E i \in 1 .. N : r[i] = v
  <2>1. Rank(V, v) \in 0 .. N - 1
    BY <1>1, <1>2, RankOrders DEF N
  <2>2. Rank(V, v) + 1 \in 1 .. N /\ Rank(V, v) + 1 - 1 = Rank(V, v)
    BY <1>2, <2>1
  <2>3. r[Rank(V, v) + 1] = v
    BY <1>1, <1>2, <1>5, <2>2, RankOrders
  <2> QED
    BY <2>2, <2>3
<1>10. Sorted(V, r)
  BY <1>1, <1>2, <1>6, <1>7, <1>8, <1>9 DEF Sorted
<1> QED
  BY <1>10 DEF V, r

\* A set of positions that reaches down to 1 is known by its size.
LEMMA PrefixIs ==
    ASSUME NEW N \in Nat, NEW P \in SUBSET (1 .. N),
           \A i \in P : \A j \in 1 .. N : j < i => j \in P
    PROVE  Cardinality(P) \in 0 .. N /\ P = 1 .. Cardinality(P)
<1>1. CASE P = {}
  <2>1. Cardinality(P) = 0
    BY <1>1, FS_EmptySet
  <2> QED
    BY <1>1, <2>1
<1>2. CASE P # {}
  <2>1. P \in SUBSET (0 .. N)
    OBVIOUS
  <2>2. PICK c \in P : \A y \in P : c >= y
    BY <1>2, <2>1, GreatestNat
  <2>3. P = 1 .. c /\ c \in 1 .. N
    <3>1. c \in 1 .. N /\ \A j \in 1 .. c : j \in 1 .. N /\ (j = c \/ j < c)
      BY <2>2
    <3>2. \A j \in 1 .. c : j \in P
      BY <2>2, <3>1
    <3>3. \A j \in P : j \in 1 .. c
      BY <2>2, <3>1
    <3> QED
      BY <3>1, <3>2, <3>3
  <2>4. Cardinality(1 .. c) = IF 1 > c THEN 0 ELSE c - 1 + 1
    <3>1. 1 \in Int /\ c \in Int
      BY <2>3
    <3> QED
      BY <3>1, FS_Interval
  <2> QED
    BY <2>3, <2>4
<1> QED
  BY <1>1, <1>2

\* partition_point: the vnodes before the home position are the first c.
LEMMA StartIs ==
    ASSUME RingTyped, NEW M \in SUBSET Nodes, M # {}
    PROVE  LET r == Ring(M)
               N == Len(r)
           IN  /\ N \in Nat \ {0}
               /\ \E c \in 0 .. N : /\ \A i \in 1 .. N : pos[r[i]] < home <=> i <= c
                                    /\ Start(r) = IF c = N THEN 0 ELSE c
<1> DEFINE V == M \X Indexes
           r == Ring(M)
           N == Len(r)
           P == {i \in DOMAIN r : pos[r[i]] < home}
           c == Cardinality(P)
<1>1. /\ V \in SUBSET Vnode /\ N \in Nat /\ DOMAIN r = 1 .. N /\ r \in [1 .. N -> V]
      /\ \A i, j \in 1 .. N : i < j => SortsBefore(r[i], r[j])
      /\ \A v \in V : \E i \in 1 .. N : r[i] = v
  BY RingIs DEF Sorted
<1>2. Start(r) = c % N
  BY DEF Start
<1> HIDE DEF r, N, V
<1>3. N # 0
  <2>1. PICK a \in M : TRUE
    OBVIOUS
  <2>2. <<a, 0>> \in V
    BY SizesAssumption DEF V, Indexes
  <2> QED
    BY <1>1, <2>2
<1>4. \A i \in 1 .. N : r[i] \in Vnode /\ pos[r[i]] \in Nat /\ home \in Nat
  BY <1>1, VnodeIs
<1>5. ASSUME NEW i \in 1 .. N, NEW j \in 1 .. N, i < j
      PROVE  pos[r[i]] <= pos[r[j]]
  <2>1. SortsBefore(r[i], r[j]) /\ pos[r[i]] \in Nat /\ pos[r[j]] \in Nat
    BY <1>1, <1>4, <1>5
  <2> QED
    BY <2>1 DEF SortsBefore
<1>6. P \in SUBSET (1 .. N) /\ \A i \in P : \A j \in 1 .. N : j < i => j \in P
  BY <1>1, <1>4, <1>5
<1>7. c \in 0 .. N /\ P = 1 .. c
  <2> HIDE DEF P
  <2> QED
    BY <1>1, <1>6, PrefixIs
<1>8. \A i \in 1 .. N : i \in P <=> pos[r[i]] < home
  BY <1>1
<1> HIDE DEF P, c
<1>9. \A i \in 1 .. N : pos[r[i]] < home <=> i <= c
  BY <1>1, <1>7, <1>8
<1>10. c % N = IF c = N THEN 0 ELSE c
  BY <1>1, <1>3, <1>7, Wraps
<1> QED
  BY <1>1, <1>2, <1>3, <1>7, <1>9, <1>10 DEF r, N

\* The vnode that a step of the walk meets, and where it is in the ring.
Met(r, k) == r[((Start(r) + k - 1) % Len(r)) + 1]

LEMMA MetIs ==
    ASSUME NEW N \in Nat \ {0}, NEW s \in 0 .. N - 1, NEW k \in 1 .. N
    PROVE  /\ ((s + k - 1) % N) + 1 = IF s + k <= N THEN s + k ELSE s + k - N
           /\ ((s + k - 1) % N) + 1 \in 1 .. N
<1> DEFINE x == s + k - 1
<1>1. x \in Nat /\ x < 2 * N /\ N # 0 /\ N \in Nat
  OBVIOUS
<1>2. x % N = IF x < N THEN x ELSE x - N
  BY <1>1, Wraps
<1> QED
  BY <1>2

\* The walk meets every vnode, the nearer ones first.
Walks(V, r) ==
    /\ \A k \in 1 .. Len(r) : Met(r, k) \in V
    /\ \A j, k \in 1 .. Len(r) : j < k => Nearer(Met(r, j), Met(r, k))
    /\ \A v \in V : \E k \in 1 .. Len(r) : Met(r, k) = v

LEMMA SameSideNearer ==
    ASSUME RingTyped, NEW v \in Vnode, NEW w \in Vnode, SortsBefore(v, w),
           pos[v] < home <=> pos[w] < home
    PROVE  Nearer(v, w)
<1>1. /\ pos[v] \in Nat /\ pos[w] \in Nat /\ home \in Nat /\ Points \in Nat
      /\ pos[v] < Points /\ pos[w] < Points /\ home < Points
  BY VnodeIs
<1>2. /\ Distance(v) = IF pos[v] < home THEN pos[v] + Points - home ELSE pos[v] - home
      /\ Distance(w) = IF pos[w] < home THEN pos[w] + Points - home ELSE pos[w] - home
  BY DistanceIs
<1>3. /\ pos[v] < pos[w] => Distance(v) < Distance(w)
      /\ pos[v] = pos[w] => Distance(v) = Distance(w)
  BY <1>1, <1>2
<1> QED
  BY <1>3 DEF SortsBefore, Nearer

LEMMA OtherSideNearer ==
    ASSUME RingTyped, NEW v \in Vnode, NEW w \in Vnode, ~(pos[v] < home), pos[w] < home
    PROVE  Nearer(v, w)
<1>1. /\ pos[v] \in Nat /\ pos[w] \in Nat /\ home \in Nat /\ Points \in Nat
      /\ pos[v] < Points /\ pos[w] < Points /\ home < Points
  BY VnodeIs
<1>2. Distance(v) = pos[v] - home /\ Distance(w) = pos[w] + Points - home
  BY DistanceIs
<1>3. Distance(v) < Distance(w)
  BY <1>1, <1>2
<1> QED
  BY <1>3 DEF Nearer

LEMMA WalkIsClockwise ==
    ASSUME RingTyped, NEW M \in SUBSET Nodes, M # {}
    PROVE  Walks(M \X Indexes, Ring(M))
<1> DEFINE V == M \X Indexes
           r == Ring(M)
           N == Len(r)
           s == Start(r)
           Slot(k) == ((s + k - 1) % N) + 1
<1>1. /\ V \in SUBSET Vnode /\ r \in [1 .. N -> V]
      /\ \A i, j \in 1 .. N : i < j => SortsBefore(r[i], r[j])
      /\ \A v \in V : \E i \in 1 .. N : r[i] = v
  BY RingIs DEF Sorted
<1>2. N \in Nat \ {0}
  BY StartIs
<1>3. PICK c \in 0 .. N : /\ \A i \in 1 .. N : pos[r[i]] < home <=> i <= c
                         /\ s = IF c = N THEN 0 ELSE c
  BY StartIs
<1>4. \A k \in 1 .. N : Met(r, k) = r[Slot(k)]
  BY DEF Met
<1> HIDE DEF V, r, N, s
<1>5. s \in 0 .. N - 1
  BY <1>2, <1>3
<1>6. \A k \in 1 .. N : /\ Slot(k) = IF s + k <= N THEN s + k ELSE s + k - N
                       /\ Slot(k) \in 1 .. N
  BY <1>2, <1>5, MetIs
<1> HIDE DEF Slot
<1>7. ASSUME NEW j \in 1 .. N, NEW k \in 1 .. N, j < k
      PROVE  Nearer(r[Slot(j)], r[Slot(k)])
  <2>1. /\ Slot(j) \in 1 .. N /\ Slot(k) \in 1 .. N
        /\ r[Slot(j)] \in Vnode /\ r[Slot(k)] \in Vnode
    BY <1>1, <1>6
  <2>2. CASE s + j <= N /\ s + k > N
    <3>1. s = c /\ Slot(j) = s + j /\ Slot(k) = s + k - N
      BY <1>2, <1>3, <1>6, <2>2
    <3>2. ~(Slot(j) <= c) /\ Slot(k) <= c
      BY <1>2, <1>3, <1>7, <3>1
    <3> QED
      BY <1>3, <2>1, <3>2, OtherSideNearer
  <2>3. CASE s + k <= N \/ s + j > N
    <3>1. Slot(j) < Slot(k)
      BY <1>2, <1>5, <1>6, <1>7, <2>3
    <3>2. Slot(j) <= c <=> Slot(k) <= c
      <4>1. CASE s + k <= N
        <5>1. Slot(j) = s + j /\ Slot(k) = s + k
          BY <1>2, <1>5, <1>6, <1>7, <4>1
        <5> QED
          BY <1>2, <1>3, <1>7, <4>1, <5>1
      <4>2. CASE s + j > N
        <5>1. Slot(j) = s + j - N /\ Slot(k) = s + k - N /\ s = c
          BY <1>2, <1>3, <1>5, <1>6, <1>7, <4>2
        <5> QED
          BY <1>2, <1>3, <5>1
      <4> QED
        BY <2>3, <4>1, <4>2
    <3>3. SortsBefore(r[Slot(j)], r[Slot(k)])
      BY <1>1, <2>1, <3>1
    <3> QED
      BY <1>3, <2>1, <3>2, <3>3, SameSideNearer
  <2> QED
    BY <1>2, <1>5, <2>2, <2>3
<1>8. ASSUME NEW v \in V
      PROVE  \E k \in 1 .. N : r[Slot(k)] = v
  <2>1. PICK i \in 1 .. N : r[i] = v
    BY <1>1
  <2> DEFINE k == IF i > s THEN i - s ELSE i - s + N
  <2>2. k \in 1 .. N /\ (IF s + k <= N THEN s + k ELSE s + k - N) = i
    BY <1>2, <1>5
  <2>3. Slot(k) = i
    BY <1>6, <2>2
  <2> HIDE DEF k
  <2> QED
    BY <2>1, <2>2, <2>3
<1>9. \A k \in 1 .. N : r[Slot(k)] \in V
  BY <1>1, <1>6
<1>10. Walks(V, r)
  BY <1>4, <1>7, <1>8, <1>9 DEF Walks, N
<1> QED
  BY <1>10 DEF V, r

LEMMA OffsetIs ==
    ASSUME RingTyped, NEW n \in Nodes
    PROVE  /\ Offset(n) \in Nat
           /\ \E i \in Indexes : Offset(n) = Distance(<<n, i>>)
           /\ \A i \in Indexes : Offset(n) <= Distance(<<n, i>>)
<1> DEFINE T == {Distance(<<n, i>>) : i \in Indexes}
<1>1. \A i \in Indexes : <<n, i>> \in Vnode /\ Distance(<<n, i>>) \in Nat
  BY DistanceIs DEF Vnode
<1>2. T \in SUBSET Nat
  BY <1>1
<1>3. T # {}
  <2>1. 0 \in Indexes
    BY SizesAssumption DEF Indexes
  <2> QED
    BY <2>1
<1>4. Offset(n) = Min(T)
  BY DEF Offset, Distance
<1> HIDE DEF T
<1>5. \E x \in T : \A y \in T : x <= y
  BY <1>2, <1>3, LeastNat
<1>6. Min(T) \in T /\ \A y \in T : Min(T) <= y
  BY <1>5 DEF Min
<1> QED
  BY <1>2, <1>4, <1>6 DEF T

\* When the walk meets a node for the first time, it has met those before it.
IsNew(r, k) == \A j \in 1 .. k - 1 : Met(r, j)[1] # Met(r, k)[1]
MetBefore(M, r, k) ==
    {m \in M : Before(m, Met(r, k)[1])} = {Met(r, j)[1] : j \in 1 .. k - 1}

LEMMA FirstMet ==
    ASSUME RingTyped, NEW M \in SUBSET Nodes, NEW r, Walks(M \X Indexes, r), Len(r) \in Nat,
           NEW k \in 1 .. Len(r), IsNew(r, k)
    PROVE  MetBefore(M, r, k)
<1> DEFINE V == M \X Indexes
           N == Len(r)
           x == Met(r, k)
           n == x[1]
<1>0. V \subseteq Vnode /\ \A v \in V : v[1] \in M
  BY DEF Vnode
<1>1. /\ \A j \in 1 .. N : Met(r, j) \in V
      /\ \A j, l \in 1 .. N : j < l => Nearer(Met(r, j), Met(r, l))
      /\ \A v \in V : \E j \in 1 .. N : Met(r, j) = v
  BY DEF Walks
<1>2. \A j \in 1 .. k - 1 : j \in 1 .. N /\ j < k
  OBVIOUS
<1>3. x \in V /\ n \in M /\ n \in Nodes /\ x = <<n, x[2]>> /\ x[2] \in Indexes
  BY <1>0, <1>1, VnodeIs
<1>4. \A v \in V : Distance(v) \in Nat /\ v[1] \in Nat /\ v[2] \in Nat
  BY <1>0, DistanceIs, VnodeIs
<1>5. Offset(n) = Distance(x)
  <2>1. PICK i \in Indexes : Offset(n) = Distance(<<n, i>>)
    BY <1>3, OffsetIs
  <2>2. <<n, i>> \in V /\ <<n, i>>[1] = n
    BY <1>3
  <2>3. PICK l \in 1 .. N : Met(r, l) = <<n, i>>
    BY <1>1, <2>2
  <2>4. ~(l < k)
    <3>1. Met(r, l)[1] = n
      BY <2>2, <2>3
    <3> QED
      BY <3>1 DEF IsNew
  <2>5. l = k \/ Nearer(x, <<n, i>>)
    BY <1>1, <2>3, <2>4
  <2>6. Distance(x) <= Distance(<<n, i>>)
    BY <1>3, <1>4, <2>2, <2>3, <2>5 DEF Nearer
  <2>7. Offset(n) <= Distance(x)
    BY <1>3, OffsetIs
  <2> QED
    BY <1>3, <1>4, <2>1, <2>2, <2>6, <2>7
<1>6. ASSUME NEW j \in 1 .. k - 1
      PROVE  Met(r, j)[1] \in M /\ Before(Met(r, j)[1], n)
  <2> DEFINE y == Met(r, j)
             m == y[1]
  <2>1. y \in V /\ m \in M /\ m \in Nodes /\ y = <<m, y[2]>> /\ y[2] \in Indexes /\ m # n
    BY <1>0, <1>1, <1>2, VnodeIs DEF IsNew
  <2>2. Nearer(y, x)
    BY <1>1, <1>2
  <2>3. Offset(m) <= Distance(y) /\ Offset(m) \in Nat
    BY <2>1, OffsetIs
  <2>4. Distance(y) \in Nat /\ Distance(x) \in Nat /\ m \in Nat /\ n \in Nat
    BY <1>3, <1>4, <2>1
  <2>5. \/ Distance(y) < Distance(x)
        \/ Distance(y) = Distance(x) /\ m < n
    BY <2>1, <2>2 DEF Nearer
  <2> HIDE DEF m, y, n, x
  <2>6. Before(m, n)
    BY <1>5, <2>3, <2>4, <2>5 DEF Before
  <2> QED
    BY <2>1, <2>6 DEF m, y
<1>7. ASSUME NEW m \in M, Before(m, n)
      PROVE  \E j \in 1 .. k - 1 : Met(r, j)[1] = m
  <2>1. PICK i \in Indexes : Offset(m) = Distance(<<m, i>>)
    BY OffsetIs
  <2> DEFINE y == <<m, i>>
  <2>2. y \in V /\ y[1] = m
    OBVIOUS
  <2>3. PICK l \in 1 .. N : Met(r, l) = y
    BY <1>1, <2>2
  <2>4. Distance(y) \in Nat /\ Distance(x) \in Nat /\ m \in Nat /\ n \in Nat
    BY <1>3, <1>4, <2>2
  <2> HIDE DEF y
  <2>5. Distance(y) < Distance(x) \/ (Distance(y) = Distance(x) /\ m < n)
    BY <1>5, <1>7, <2>1 DEF Before, y
  <2>6. y # x /\ ~Nearer(x, y)
    BY <2>2, <2>4, <2>5 DEF Nearer
  <2>7. l < k
    BY <1>1, <2>3, <2>6
  <2>8. l \in 1 .. k - 1
    BY <2>7
  <2> QED
    BY <2>2, <2>3, <2>8
<1> QED
  BY <1>6, <1>7 DEF MetBefore

-----------------------------------------------------------------------------
(* The replicas: after k steps the walk has s.                             *)

Distinct(s) == \A i, j \in 1 .. Len(s) : i < j => s[i] # s[j]

LEMMA DistinctCount ==
    ASSUME NEW M, NEW s \in Seq(M), Distinct(s), NEW n \in 0 .. Len(s)
    PROVE  /\ IsFiniteSet({s[j] : j \in 1 .. n})
           /\ Cardinality({s[j] : j \in 1 .. n}) = n
<1> DEFINE T == {s[j] : j \in 1 .. n}
           f == [j \in 1 .. n |-> s[j]]
<1>0. Len(s) \in Nat /\ n \in Nat /\ \A j \in 1 .. n : j \in 1 .. Len(s)
  BY LenProperties
<1>1. f \in [1 .. n -> T] /\ \A t \in T : \E j \in 1 .. n : f[j] = t
  OBVIOUS
<1>2. \A i, j \in 1 .. n : f[i] = f[j] => i = j
  BY <1>0 DEF Distinct
<1>3. f \in Bijection(1 .. n, T)
  BY <1>1, <1>2 DEF Bijection, Injection, IsInjective, Surjection
<1>4. ExistsBijection(1 .. n, T)
  BY <1>3 DEF ExistsBijection
<1>5. 1 \in Int /\ n \in Int
  BY <1>0
<1>6. IsFiniteSet(1 .. n) /\ Cardinality(1 .. n) = IF 1 > n THEN 0 ELSE n - 1 + 1
  BY <1>5, FS_Interval
<1> HIDE DEF T
<1>7. IsFiniteSet(T) /\ Cardinality(T) = Cardinality(1 .. n)
  BY <1>4, <1>6, FS_Bijection
<1> QED
  BY <1>0, <1>6, <1>7 DEF T

WalkOK(M, r, want, s, k) ==
    /\ s \in Seq(M) /\ Len(s) <= want
    /\ \A i \in 1 .. Len(s) : {m \in M : Before(m, s[i])} = {s[j] : j \in 1 .. i - 1}
    /\ Len(s) < want => {s[j] : j \in 1 .. Len(s)} = {Met(r, j)[1] : j \in 1 .. k}

LEMMA BeforeIsStrict == \A n \in Nodes : RingTyped => ~Before(n, n)
<1>1. ASSUME NEW n \in Nodes, RingTyped
      PROVE  ~Before(n, n)
  <2>1. Offset(n) \in Nat /\ n \in Nat
    BY <1>1, OffsetIs, NodesAssumption
  <2> QED
    BY <2>1 DEF Before
<1> QED
  BY <1>1

LEMMA WalkIsDistinct ==
    ASSUME RingTyped, NEW M \in SUBSET Nodes, NEW r, NEW want, NEW s, NEW k,
           WalkOK(M, r, want, s, k)
    PROVE  /\ s \in Seq(M) /\ Len(s) \in Nat /\ \A i \in 1 .. Len(s) : s[i] \in M
           /\ Distinct(s)
<1>1. s \in Seq(M) /\ Len(s) \in Nat /\ \A i \in 1 .. Len(s) : s[i] \in M
  BY LenProperties, ElementOfSeq DEF WalkOK
<1>2. ASSUME NEW i \in 1 .. Len(s), NEW j \in 1 .. Len(s), i < j
      PROVE  s[i] # s[j]
  <2>1. i \in 1 .. j - 1
    BY <1>1, <1>2
  <2>2. s[i] \in {m \in M : Before(m, s[j])}
    BY <2>1 DEF WalkOK
  <2> QED
    BY <1>1, <2>2, BeforeIsStrict
<1> QED
  BY <1>1, <1>2 DEF Distinct

LEMMA VisitKeeps ==
    ASSUME RingTyped, NEW M \in SUBSET Nodes, NEW r, Walks(M \X Indexes, r), Len(r) \in Nat,
           NEW want \in Nat, NEW k \in 1 .. Len(r), NEW s, WalkOK(M, r, want, s, k - 1)
    PROVE  WalkOK(M, r, want, Visit(s, Met(r, k)[1], want), k)
<1> DEFINE n == Met(r, k)[1]
           t == Append(s, n)
<1>0. /\ s \in Seq(M) /\ Len(s) \in Nat /\ \A i \in 1 .. Len(s) : s[i] \in M
  BY WalkIsDistinct
<1>1. n \in M
  BY DEF Walks
<1>2. /\ {Met(r, j)[1] : j \in 1 .. k} = {Met(r, j)[1] : j \in 1 .. k - 1} \cup {n}
  <2>1. \A j \in 1 .. k : j = k \/ j \in 1 .. k - 1
    OBVIOUS
  <2>2. k \in 1 .. k /\ \A j \in 1 .. k - 1 : j \in 1 .. k
    OBVIOUS
  <2> QED
    BY <2>1, <2>2
<1>3. CASE Len(s) = want
  <2>1. Visit(s, n, want) = s
    BY <1>3 DEF Visit
  <2> QED
    BY <1>0, <1>3, <2>1 DEF WalkOK
<1>4. CASE Len(s) < want /\ \E i \in 1 .. Len(s) : s[i] = n
  <2>1. Visit(s, n, want) = s
    BY <1>4 DEF Visit, Contains
  <2>2. {s[j] : j \in 1 .. Len(s)} = {Met(r, j)[1] : j \in 1 .. k - 1}
    BY <1>4 DEF WalkOK
  <2>3. n \in {s[j] : j \in 1 .. Len(s)}
    BY <1>4
  <2>4. {s[j] : j \in 1 .. Len(s)} = {Met(r, j)[1] : j \in 1 .. k}
    BY <1>2, <2>2, <2>3
  <2>5. /\ s \in Seq(M) /\ Len(s) <= want
        /\ \A i \in 1 .. Len(s) : {m \in M : Before(m, s[i])} = {s[j] : j \in 1 .. i - 1}
    BY DEF WalkOK
  <2>6. WalkOK(M, r, want, s, k)
    BY <2>4, <2>5, Zenon DEF WalkOK
  <2> QED
    BY <2>1, <2>6
<1>5. CASE Len(s) < want /\ ~\E i \in 1 .. Len(s) : s[i] = n
  <2> HIDE DEF n
  <2>1. Visit(s, n, want) = t
    BY <1>0, <1>5 DEF Visit, Contains
  <2>2. {s[j] : j \in 1 .. Len(s)} = {Met(r, j)[1] : j \in 1 .. k - 1}
    BY <1>5 DEF WalkOK
  <2>3. \A j \in 1 .. k - 1 : Met(r, j)[1] # n
    BY <1>5, <2>2
  <2>4. {m \in M : Before(m, n)} = {s[j] : j \in 1 .. Len(s)}
    <3>1. \A j \in 1 .. k - 1 : Met(r, j)[1] # Met(r, k)[1]
      BY <2>3 DEF n
    <3>2. MetBefore(M, r, k)
      BY <3>1, FirstMet DEF IsNew
    <3>3. {m \in M : Before(m, n)} = {Met(r, j)[1] : j \in 1 .. k - 1}
      BY <3>2 DEF n, MetBefore
    <3> QED
      BY <2>2, <3>3
  <2>5. /\ t \in Seq(M) /\ Len(t) = Len(s) + 1 /\ t[Len(s) + 1] = n
        /\ \A i \in 1 .. Len(s) : t[i] = s[i]
    BY <1>0, <1>1, AppendProperties
  <2> HIDE DEF t
  <2>6. ASSUME NEW i \in 1 .. Len(s) + 1
        PROVE  {t[j] : j \in 1 .. i - 1} = {s[j] : j \in 1 .. i - 1}
    <3>1. \A j \in 1 .. i - 1 : j \in 1 .. Len(s)
      BY <1>0
    <3>2. \A j \in 1 .. i - 1 : t[j] = s[j]
      BY <2>5, <3>1
    <3> QED
      BY <3>2
  <2>7. ASSUME NEW i \in 1 .. Len(t)
        PROVE  {m \in M : Before(m, t[i])} = {t[j] : j \in 1 .. i - 1}
    <3>1. CASE i \in 1 .. Len(s)
      <4>1. {m \in M : Before(m, s[i])} = {s[j] : j \in 1 .. i - 1}
        BY <3>1 DEF WalkOK
      <4> QED
        BY <2>5, <2>6, <2>7, <3>1, <4>1
    <3>2. CASE i = Len(s) + 1
      <4>1. i - 1 = Len(s) /\ t[i] = n
        BY <1>0, <2>5, <3>2
      <4> QED
        BY <2>4, <2>5, <2>6, <2>7, <4>1
    <3> QED
      BY <1>0, <2>5, <3>1, <3>2
  <2>8. {t[j] : j \in 1 .. Len(t)} = {Met(r, j)[1] : j \in 1 .. k}
    <3>1. {t[j] : j \in 1 .. Len(t)} = {s[j] : j \in 1 .. Len(s)} \cup {n}
      <4>1. \A j \in 1 .. Len(t) : j = Len(s) + 1 \/ j \in 1 .. Len(s)
        BY <1>0, <2>5
      <4>2. Len(s) + 1 \in 1 .. Len(t) /\ \A j \in 1 .. Len(s) : j \in 1 .. Len(t)
        BY <1>0, <2>5
      <4> QED
        BY <2>5, <4>1, <4>2
    <3> QED
      BY <1>2, <2>2, <3>1 DEF n
  <2>9. Len(t) <= want
    BY <1>0, <1>5, <2>5
  <2>10. WalkOK(M, r, want, t, k)
    BY <2>5, <2>7, <2>8, <2>9 DEF WalkOK
  <2> QED
    BY <2>1, <2>10 DEF n
<1>6. Len(s) <= want
  BY DEF WalkOK
<1> QED
  BY <1>0, <1>3, <1>4, <1>5, <1>6

LEMMA WantIs ==
    ASSUME NEW c \in Nat
    PROVE  /\ Min({RF, c}) \in Nat /\ Min({RF, c}) <= c /\ (c = 0 => Min({RF, c}) = 0)
<1> DEFINE T == {RF, c}
<1>1. T \in SUBSET Nat /\ T # {} /\ RF \in Nat
  BY SizesAssumption
<1>2. \E x \in T : \A y \in T : x <= y
  <2> HIDE DEF T
  <2> QED
    BY <1>1, LeastNat
<1>3. Min(T) \in T /\ \A y \in T : Min(T) <= y
  <2> HIDE DEF T
  <2> QED
    BY <1>2 DEF Min
<1> QED
  BY <1>1, <1>3

LEMMA VisitTyped ==
    ASSUME NEW M, NEW s \in Seq(M), NEW n \in M, NEW want
    PROVE  Visit(s, n, want) \in Seq(M)
  BY AppendProperties DEF Visit

\* g has what the walk has found after each step.
Stages(M, r, want, g) ==
    /\ g \in [0 .. Len(r) -> Seq(M)] /\ g[0] = <<>>
    /\ \A k \in 1 .. Len(r) : g[k] = Visit(g[k - 1], Met(r, k)[1], want)

LEMMA StagesExist ==
    ASSUME NEW M, NEW r, Len(r) \in Nat, \A k \in 1 .. Len(r) : Met(r, k)[1] \in M, NEW want
    PROVE  \E g : Stages(M, r, want, g)
<1> DEFINE D == Seq(M)
           N == Len(r)
           a == <<>>
           F == [i \in 1 .. N |-> [x \in D |-> Visit(x, Met(r, i)[1], want)]]
<1>1. a \in D /\ \A i \in 1 .. N : \A x \in D : Visit(x, Met(r, i)[1], want) \in D
  BY VisitTyped, EmptySeq
<1> HIDE DEF D
<1>2. F \in [1 .. N -> [D -> D]]
  BY <1>1
<1>3. \A i \in 1 .. N : \A x \in D : F[i][x] = Visit(x, Met(r, i)[1], want)
  OBVIOUS
<1>4. N \in Nat
  OBVIOUS
<1> HIDE DEF a, N, F
<1>5. \E g : Folded(N, D, a, F, g)
  BY <1>1, <1>2, <1>4, FoldExists
<1>6. PICK g \in [0 .. N -> D] : g[0] = a /\ \A i \in 1 .. N : g[i] = F[i][g[i - 1]]
  BY <1>5 DEF Folded
<1>7. \A i \in 1 .. N : i - 1 \in 0 .. N
  BY <1>4
<1>8. \A i \in 1 .. N : g[i] = Visit(g[i - 1], Met(r, i)[1], want)
  BY <1>3, <1>6, <1>7
<1>9. Stages(M, r, want, g)
  BY <1>6, <1>8 DEF Stages, D, a, N
<1> QED
  BY <1>9

LEMMA ReplicasAre ==
    ASSUME RingTyped, NEW M \in SUBSET Nodes, M # {}
    PROVE  LET r == Ring(M)
               want == Min({RF, Cardinality(M)})
           IN  \E g : Stages(M, r, want, g) /\ ReplicasForShard(M) = g[Len(r)]
<1> DEFINE r == Ring(M)
           N == Len(r)
           want == Min({RF, Cardinality(M)})
<1>1. N \in Nat /\ Walks(M \X Indexes, r)
  BY RingIs, WalkIsClockwise DEF Sorted
<1>2. \A k \in 1 .. N : Met(r, k)[1] \in M
  BY <1>1 DEF Walks
<1> DEFINE walk[step \in 0 .. N] ==
             IF step = 0 THEN <<>>
             ELSE Visit(walk[step - 1], r[((Start(r) + step - 1) % N) + 1][1], want)
<1>3. ReplicasForShard(M) = walk[N]
  BY DEF ReplicasForShard
<1>4. PICK h : Stages(M, r, want, h)
  <2> HIDE DEF r, want
  <2> QED
    BY <1>1, <1>2, StagesExist
<1>5. \A i \in 0 .. N : i = 0 \/ i \in 1 .. N
  BY <1>1
<1>6. h = [step \in 0 .. N |->
             IF step = 0 THEN <<>>
             ELSE Visit(h[step - 1], r[((Start(r) + step - 1) % N) + 1][1], want)]
  BY <1>4, <1>5 DEF Stages, Met
<1>7. walk = [step \in 0 .. N |->
             IF step = 0 THEN <<>>
             ELSE Visit(walk[step - 1], r[((Start(r) + step - 1) % N) + 1][1], want)]
  BY <1>6
<1> HIDE DEF walk, r, want
<1>8. walk[0] = <<>>
  BY <1>1, <1>7
<1>9. \A k \in 1 .. N : walk[k] = Visit(walk[k - 1], Met(r, k)[1], want)
  <2>1. \A k \in 1 .. N : k \in 0 .. N /\ k # 0
    BY <1>1
  <2> QED
    BY <1>7, <2>1 DEF Met
<1>10. \A k \in 0 .. N : walk[k] \in Seq(M)
  <2> DEFINE T == {k \in 0 .. N : walk[k] \in Seq(M)}
  <2>0. walk[0] \in Seq(M) /\ 0 \in 0 .. N
    BY <1>1, <1>8, EmptySeq
  <2>1. 0 \in T
    BY <2>0
  <2>2. ASSUME NEW k \in 1 .. N, k - 1 \in T
        PROVE  k \in T
    <3>1. k \in 0 .. N /\ walk[k - 1] \in Seq(M)
      BY <1>1, <2>2
    <3>2. walk[k] \in Seq(M)
      BY <1>2, <1>9, <3>1, VisitTyped
    <3> QED
      BY <3>1, <3>2
  <2> HIDE DEF T
  <2>3. \A k \in 0 .. N : k \in T
    BY <1>1, <2>1, <2>2, UpToAll
  <2> QED
    BY <2>3 DEF T
<1>11. walk \in [0 .. N -> Seq(M)]
  BY <1>7, <1>10
<1>12. Stages(M, r, want, walk)
  BY <1>8, <1>9, <1>11 DEF Stages
<1> QED
  BY <1>3, <1>12 DEF r, want

\* Ring::replicas_for_shard finds the first `want' members of the fixed order.
LEMMA ReplicasFollowOrder ==
    ASSUME RingTyped, NEW M \in SUBSET Nodes
    PROVE  LET walk == ReplicasForShard(M)
           IN  /\ Len(walk) = Min({RF, Cardinality(M)})
               /\ \A i \in DOMAIN walk : Cardinality({n \in M : Before(n, walk[i])}) = i - 1
<1> DEFINE r == Ring(M)
           N == Len(r)
           want == Min({RF, Cardinality(M)})
           walk == ReplicasForShard(M)
<1>1. IsFiniteSet(M) /\ Cardinality(M) \in Nat
  BY NodesAssumption, FS_Subset, FS_CardinalityType
<1>2. want \in Nat /\ want <= Cardinality(M) /\ (Cardinality(M) = 0 => want = 0)
  BY <1>1, WantIs
<1>3. CASE M = {}
  <2>1. walk = <<>> /\ want = 0
    BY <1>2, <1>3, FS_EmptySet DEF ReplicasForShard
  <2>2. Len(<<>>) = 0 /\ DOMAIN <<>> = {}
    OBVIOUS
  <2> QED
    BY <2>1, <2>2
<1>4. CASE M # {}
  <2>1. N \in Nat /\ Walks(M \X Indexes, r)
    BY <1>4, RingIs, WalkIsClockwise DEF Sorted
  <2>2. PICK g : Stages(M, r, want, g) /\ walk = g[N]
    BY <1>4, ReplicasAre
  <2> HIDE DEF r, want, walk
  <2> DEFINE T == {k \in 0 .. N : WalkOK(M, r, want, g[k], k)}
  <2>3. 0 \in T
    <3>1. g[0] = <<>> /\ <<>> \in Seq(M) /\ Len(<<>>) = 0 /\ 1 .. 0 = {}
      BY <2>2, EmptySeq DEF Stages
    <3>2. WalkOK(M, r, want, <<>>, 0)
      BY <1>2, <3>1 DEF WalkOK
    <3> QED
      BY <2>1, <3>1, <3>2
  <2>4. ASSUME NEW k \in 1 .. N, k - 1 \in T
        PROVE  k \in T
    <3>1. k \in 0 .. N /\ g[k] = Visit(g[k - 1], Met(r, k)[1], want)
      BY <2>1, <2>2 DEF Stages
    <3>2. WalkOK(M, r, want, g[k - 1], k - 1)
      BY <2>4
    <3>3. WalkOK(M, r, want, Visit(g[k - 1], Met(r, k)[1], want), k)
      BY <1>2, <2>1, <3>2, VisitKeeps
    <3> QED
      BY <3>1, <3>3
  <2> HIDE DEF T
  <2>5. \A k \in 0 .. N : k \in T
    BY <2>1, <2>3, <2>4, UpToAll
  <2>6. WalkOK(M, r, want, walk, N)
    BY <2>1, <2>2, <2>5 DEF T
  <2>7. /\ walk \in Seq(M) /\ Len(walk) \in Nat /\ DOMAIN walk = 1 .. Len(walk)
        /\ Distinct(walk)
    BY <2>6, WalkIsDistinct, LenProperties
  <2>8. Len(walk) = want
    <3>0. Len(walk) <= want /\ Len(walk) \in Nat /\ want \in Nat
      BY <1>2, <2>6, <2>7 DEF WalkOK
    <3>1. SUFFICES ASSUME Len(walk) < want
                   PROVE  FALSE
      BY <3>0
    <3>2. {walk[j] : j \in 1 .. Len(walk)} = {Met(r, j)[1] : j \in 1 .. N}
      BY <2>6, <3>1 DEF WalkOK
    <3>3. M \subseteq {Met(r, j)[1] : j \in 1 .. N}
      <4>1. SUFFICES ASSUME NEW m \in M
                     PROVE  \E j \in 1 .. N : Met(r, j)[1] = m
        OBVIOUS
      <4>2. <<m, 0>> \in M \X Indexes /\ <<m, 0>>[1] = m
        BY SizesAssumption DEF Indexes
      <4> QED
        BY <2>1, <4>2 DEF Walks
    <3> DEFINE R == {walk[j] : j \in 1 .. Len(walk)}
    <3>4. IsFiniteSet(R) /\ Cardinality(R) = Len(walk)
      <4>1. Len(walk) \in 0 .. Len(walk)
        BY <2>7
      <4> QED
        BY <2>7, <4>1, DistinctCount
    <3>5. M \in SUBSET R
      BY <3>2, <3>3
    <3> HIDE DEF R
    <3>6. Cardinality(M) <= Len(walk)
      BY <3>4, <3>5, FS_Subset
    <3> QED
      BY <1>1, <1>2, <2>7, <3>1, <3>6
  <2>9. ASSUME NEW i \in 1 .. Len(walk)
        PROVE  Cardinality({n \in M : Before(n, walk[i])}) = i - 1
    <3>1. {n \in M : Before(n, walk[i])} = {walk[j] : j \in 1 .. i - 1}
      BY <2>6 DEF WalkOK
    <3> DEFINE c == i - 1
    <3>2. c \in 0 .. Len(walk)
      BY <2>7
    <3> HIDE DEF c
    <3>3. Cardinality({walk[j] : j \in 1 .. c}) = c
      BY <2>7, <3>2, DistinctCount
    <3> QED
      BY <3>1, <3>3 DEF c
  <2> QED
    BY <2>7, <2>8, <2>9 DEF walk, want
<1> QED
  BY <1>3, <1>4

-----------------------------------------------------------------------------
LEMMA RingStarts == Init => RingTyped
<1> SUFFICES ASSUME Init
             PROVE  RingTyped
  OBVIOUS
<1>1. RingInit
  BY DEF Init
<1> QED
  BY <1>1, NodesAssumption DEF RingInit, RingTyped

\* No call, transfer or request moves a vnode.
LEMMA RingStays == [Next]_vars => UNCHANGED <<pos, home>>
<1> SUFFICES ASSUME [Next]_vars
             PROVE  UNCHANGED <<pos, home>>
  OBVIOUS
<1>1. ASSUME NEW c \in Calls,
             \/ Bootstrap(c) \/ AdminStep(c)
             \/ \E n \in Nodes : Join(c, n) \/ Leave(c, n)
      PROVE  UNCHANGED <<pos, home>>
  BY <1>1 DEF Bootstrap, Join, Leave, BeginCall, AdminStep, Register, AddLearner, ReadVoters,
              ChangeMembership, ChangeRefused, Deregister, Submit, ringVars
<1>2. ASSUME NEW n \in Nodes, Elect(n) \/ BeginAcquire(n) \/ MarkSyncing(n) \/ MarkActive(n)
      PROVE  UNCHANGED <<pos, home>>
  BY <1>2 DEF Elect, BeginAcquire, MarkSyncing, MarkActive, ringVars
<1>3. ASSUME (\E d \in Dims : Create(d)) \/ (\E here \in BOOLEAN : Drop(here))
      PROVE  UNCHANGED <<pos, home>>
  BY <1>3 DEF Create, Drop, ringVars
<1>4. ASSUME DropLocal \/ Release \/ Restart
      PROVE  UNCHANGED <<pos, home>>
  BY <1>4 DEF DropLocal, Release, Restart, ringVars
<1>5. ASSUME NEW t \in Threads,
             \/ \E stamp \in 1 .. MaxStamp, d \in Dims \cup {0} : Request(t, stamp, d)
             \/ Request(t, 0, 0)
             \/ Unchanging(Lookup(t)) \/ Unchanging(Open(t))
             \/ Unchanging(Apply(t)) \/ Unchanging(Refuse(t))
      PROVE  UNCHANGED <<pos, home>>
  BY <1>5 DEF Request, Unchanging, ringVars
<1>6. CASE UNCHANGED vars
  BY <1>6 DEF vars
<1> QED
  BY <1>1, <1>2, <1>3, <1>4, <1>5, <1>6 DEF Next

\* Whoever joins and leaves, whatever fails in between and wherever the hashes put
\* the vnodes and the home, colliding or wrapping round: the replicas of a shard
\* are the first RF members in one order of all nodes, home node first, and are
\* fewer than RF only when there are fewer members.
THEOREM PlacementFollowsFixedOrder == Spec => []WalkFollowsFixedOrder
<1>1. RingTyped /\ [Next]_vars => RingTyped'
  BY RingStays DEF RingTyped
<1>2. ASSUME RingTyped, AdminInv
      PROVE  WalkFollowsFixedOrder
  <2>1. meta.nodes \in SUBSET Nodes
    BY <1>2 DEF AdminInv, AdminTyped, Metas
  <2> QED
    BY <1>2, <2>1, ReplicasFollowOrder DEF WalkFollowsFixedOrder
<1> QED
  BY <1>1, <1>2, RingStarts, AdminAlways, PTL DEF Spec
=============================================================================
