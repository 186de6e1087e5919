------------------------ MODULE StreamScheduleProofs ------------------------
(***************************************************************************)
(* ScheduleInv is inductive; from it, for every set of programs, any       *)
(* number of ops, cells and SMs: the types, that the concurrent replay     *)
(* reads what the sequential walker would, on lanes of its own, and that   *)
(* what runs at once fits on the device.                                   *)
(***************************************************************************)
EXTENDS StreamSchedule, FiniteSetTheorems, WellFoundedInduction, TLAPS

\* A non-empty set of naturals has a least element.
LEMMA NatHasLeast ==
  ASSUME NEW S, S \subseteq Nat, S # {}
  PROVE  \E x \in S : \A y \in S : x <= y
<1> DEFINE R == OpToRel(<, Nat)
<1>1. \A x, y \in Nat : (<< x, y >> \in R) <=> x < y
  BY DEF OpToRel
<1>2. IsWellFoundedOn(R, Nat)
  BY NatLessThanWellFounded, Zenon
<1> HIDE DEF R
<1>3. PICK x \in S : \A y \in S : ~ (<< y, x >> \in R)
  BY <1>2, WFMin, Zenon
<1>4. \A y \in S : ~ (y < x) /\ y \in Nat /\ x \in Nat
  BY <1>1, <1>3
<1> QED BY <1>3, <1>4

Analysed(k) == pc # "analyze" \/ k < op
Captured(k) == pc \in {"replay", "joined"} \/ (pc = "capture" /\ k < op)

Types ==
    /\ prog \in Programs
    /\ pc \in {"analyze", "capture", "replay", "joined"} /\ op \in Nat
    /\ anc \in [Ops -> SUBSET Ops] /\ A \in [Ops -> SUBSET Ops]
    /\ lane \in [Ops -> Nat] /\ chain \in [Ops -> Nat]
    /\ deps \in [Ops -> SUBSET Ops] /\ barrier \subseteq Sel
    /\ held \in [Ops -> Nat] /\ ended \subseteq Sel
    /\ mem \in [Cells -> Ops \cup {0}]

\* A is transitive, and orders what conflicts.
Order ==
    /\ \A k \in Ops : \A j \in anc[k] : j < k
    /\ \A k \in Ops : \A j \in A[k] : j \in Sel /\ j < k /\ A[j] \subseteq A[k]
    /\ \A k \in Ops : ~ Analysed(k) => A[k] = {}
    /\ \A k \in Sel : Analysed(k) =>
         \A j \in Sel : j < k /\ Conflict(j, k) => j \in A[k]

\* Ops of one slot that are not ordered have different lanes.
Lanes ==
    /\ \A k \in Ops : lane[k] < k /\ chain[k] <= N
    /\ \A k \in Sel : Analysed(k) =>
         \A j \in Sel : j < k /\ prog.slot[j] = prog.slot[k] /\ j \notin A[k]
                          => lane[j] # lane[k]

\* The captured edges contain the transitive reduction.
Edges ==
    /\ \A k \in Ops : \A j \in deps[k] : j \in Sel /\ j < k
    /\ \A j \in barrier : Captured(j)
    /\ \A k \in Sel : Captured(k) => Preds(k) \subseteq deps[k]

\* What started has all its ancestors behind it; a cell holds what the
\* greatest op that ended and writes it has written.
Replayed ==
    /\ pc \in {"analyze", "capture"} => ended = {} /\ \A k \in Ops : held[k] = 0
    /\ \A k \in Ops : Running(k) => k \in Sel /\ k \notin ended
    /\ \A k \in Ops : Running(k) \/ k \in ended => A[k] \subseteq ended
    /\ \A c \in Cells : mem[c] # 0 => mem[c] \in ended /\ c \in prog.wr[mem[c]]
    /\ \A c \in Cells : \A j \in ended : c \in prog.wr[j] => j <= mem[c]
    /\ pc = "joined" => Final \subseteq ended

\* Ops of one chain come one after the other; the chains are numbered from 1.
Chains ==
    /\ \A k \in Sel : Analysed(k) =>
         \A j \in Sel : j < k /\ chain[j] = chain[k] => j \in A[k]
    /\ \A k \in Sel : Analysed(k) =>
         /\ chain[k] # 0
         /\ \A c \in 1..chain[k] : \E j \in Sel : j <= k /\ chain[j] = c

\* An exclusive op is ordered by edges, one or two, after all before it and
\* before all after it.
Apart ==
    /\ \A k \in Sel : Captured(k) /\ Exclusive(k) => Earlier(k) \subseteq deps[k]
    /\ \A e \in Sel : Captured(e) /\ Exclusive(e) =>
         \E b \in barrier : e = b \/ e \in deps[b]
    /\ \A e, k \in Sel : e < k /\ Captured(k) /\ Exclusive(e) =>
         e \in deps[k] \/ \E f \in deps[k] : e \in deps[f]

\* An op starts when what its edges name has ended, and no more SMs are held
\* than there are.
Resident ==
    /\ \A k \in Sel : Running(k) \/ k \in ended => deps[k] \subseteq ended
    /\ Cardinality(Owners) <= SMs

ScheduleInv == /\ Types /\ Order /\ Lanes /\ Edges /\ Replayed
               /\ Chains /\ Apart /\ Resident

-----------------------------------------------------------------------------
(* What the analysis chooses from.                                         *)

\* The fields of a program.
LEMMA ProgramFields ==
  ASSUME prog \in Programs
  PROVE  /\ Sel \subseteq Ops
         /\ prog.ins \in [Ops -> SUBSET Ops]
         /\ prog.rd \in [Ops -> SUBSET Cells] /\ prog.wr \in [Ops -> SUBSET Cells]
         /\ prog.slot \in [Ops -> Slots]
         /\ \A k \in Ops : \A j \in prog.ins[k] : j < k
BY StreamAssumption DEF Sel

\* Ops are positive integers.
LEMMA OpsAreNat == Ops \subseteq Nat /\ 0 \notin Ops /\ N \in Nat /\ \A k \in Ops : k <= N
BY StreamAssumption DEF Ops

\* A non-empty set of naturals with an upper bound has a greatest element.
LEMMA HasGreatest ==
  ASSUME NEW S, S \subseteq Nat, S # {}, NEW b \in Nat, \A x \in S : x <= b
  PROVE  \E x \in S : \A y \in S : y <= x
<1> DEFINE T == {b - x : x \in S}
<1>1. T \subseteq Nat /\ T # {}
  <2>1. PICK s \in S : TRUE
    OBVIOUS
  <2>2. \A x \in S : b - x \in Nat
    OBVIOUS
  <2> QED BY <2>1, <2>2
<1>2. PICK m \in T : \A y \in T : m <= y
  <2> HIDE DEF T
  <2> QED BY <1>1, NatHasLeast
<1>3. PICK x \in S : m = b - x
  BY <1>2
<1>4. ASSUME NEW y \in S PROVE y <= x
  <2>1. b - y \in T
    OBVIOUS
  <2>2. m <= b - y
    BY <1>2, <2>1
  <2>3. x \in Nat /\ y \in Nat
    BY <1>3
  <2> HIDE DEF T
  <2> QED BY <1>3, <2>2, <2>3
<1> QED BY <1>3, <1>4

\* Lane(k) is one of the first k lanes, and not taken.
LEMMA LaneIsFree ==
  ASSUME ScheduleInv, NEW k \in Ops
  PROVE  Lane(k) \in Nat /\ Lane(k) < k /\ Lane(k) \notin Taken(k)
<1> DEFINE S == {x \in Nat : x \notin Taken(k)}
<1>0. k \in Nat /\ k # 0 /\ Sel \subseteq Ops /\ Ops \subseteq Nat
  BY OpsAreNat, ProgramFields DEF ScheduleInv, Types
<1>1. ASSUME NEW x \in Taken(k) PROVE x \in Nat /\ x < k - 1
  <2>1. PICK j \in Earlier(k) : x = lane[j]
    BY DEF Taken
  <2>2. j \in Ops /\ j < k
    BY <1>0 DEF Earlier
  <2>3. lane[j] \in Nat /\ lane[j] < j
    BY <2>2 DEF ScheduleInv, Types, Lanes
  <2> QED BY <1>0, <2>1, <2>2, <2>3
<1>2. k - 1 \in S
  BY <1>0, <1>1
<1>3. PICK x \in S : \A y \in S : x <= y
  BY <1>2, NatHasLeast
<1>4. x \in 0 .. k /\ x < k /\ x \notin Taken(k)
  BY <1>0, <1>2, <1>3
<1>5. \A y \in 0 .. x - 1 : y \in Taken(k)
  BY <1>0, <1>3
<1>6. /\ Lane(k) \in 0 .. k /\ Lane(k) \notin Taken(k)
      /\ \A y \in 0 .. Lane(k) - 1 : y \in Taken(k)
  BY <1>4, <1>5, Zenon DEF Lane
<1>7. Lane(k) <= x
  BY <1>0, <1>4, <1>6
<1> QED BY <1>0, <1>4, <1>6, <1>7

\* Chain(k) is a number up to N.
LEMMA ChainIsSmall ==
  ASSUME ScheduleInv, NEW k \in Ops
  PROVE  Chain(k) \in Nat /\ Chain(k) <= N
<1>0. k \in Nat /\ k # 0 /\ k <= N /\ N \in Nat /\ Sel \subseteq Ops /\ Ops \subseteq Nat /\ 0 \notin Ops
  BY OpsAreNat, ProgramFields DEF ScheduleInv, Types
<1>1. \A j \in Earlier(k) : chain[j] \in Nat /\ chain[j] <= N
  BY <1>0 DEF Earlier, ScheduleInv, Types, Lanes
<1>2. CASE Extends(k) = {}
  <2>1. ASSUME NEW j \in Earlier(k) PROVE j \in 1 .. k - 1
    <3>1. j \in Nat /\ j # 0 /\ j < k
      BY <1>0 DEF Earlier
    <3> QED BY <1>0, <3>1
  <2>2. IsFiniteSet(1 .. k - 1) /\ Cardinality(1 .. k - 1) = k - 1
    BY <1>0, FS_Interval
  <2>3. IsFiniteSet(Earlier(k)) /\ Cardinality(Earlier(k)) <= k - 1
    BY <2>1, <2>2, FS_Subset
  <2>4. IsFiniteSet(ChainsOf(k)) /\ Cardinality(ChainsOf(k)) <= Cardinality(Earlier(k))
    <3> DEFINE f == [j \in Earlier(k) |-> chain[j]]
    <3>1. f \in Surjection(Earlier(k), ChainsOf(k))
      BY DEF Surjection, ChainsOf
    <3> HIDE DEF f
    <3> QED BY <2>3, <3>1, FS_Surjection
  <2>5. Cardinality(ChainsOf(k)) \in Nat /\ Cardinality(Earlier(k)) \in Nat
    BY <2>3, <2>4, FS_CardinalityType
  <2> QED BY <1>0, <1>2, <2>3, <2>4, <2>5 DEF Chain
<1>3. CASE Extends(k) # {}
  <2>1. \A c \in Extends(k) : c \in Nat /\ c <= N
    BY <1>1 DEF Extends, ChainsOf
  <2>2. \E c \in Extends(k) : \A d \in Extends(k) : d <= c
    BY <1>0, <1>3, <2>1, HasGreatest
  <2>3. Chain(k) \in Extends(k)
    BY <1>3, <2>2 DEF Chain
  <2> QED BY <2>1, <2>3
<1> QED BY <1>2, <1>3

\* An op continues a chain whose ops all come before it, or begins the next.
LEMMA ChainChosen ==
  ASSUME ScheduleInv, NEW k \in Ops,
         \A j \in Earlier(k) : Analysed(j),
         \A j \in Before(k) : A[j] \subseteq Before(k)
  PROVE  /\ Chain(k) # 0
         /\ \A j \in Earlier(k) : chain[j] = Chain(k) => j \in Before(k)
         /\ \A c \in 1..Chain(k) : c = Chain(k) \/ \E j \in Earlier(k) : chain[j] = c
<1>0. k \in Nat /\ Sel \subseteq Ops /\ Ops \subseteq Nat
  BY OpsAreNat, ProgramFields DEF ScheduleInv, Types
<1>1. ASSUME NEW j \in Earlier(k)
      PROVE  /\ j \in Sel /\ j < k /\ j \in Nat
             /\ chain[j] \in Nat \ {0} /\ chain[j] <= N
             /\ \A i \in Earlier(k) : i < j /\ chain[i] = chain[j] => i \in A[j]
             /\ \A c \in 1..chain[j] : \E i \in Earlier(k) : chain[i] = c
  <2>1. j \in Sel /\ j < k /\ j \in Nat /\ j \in Ops
    BY <1>0 DEF Earlier
  <2>2. chain[j] \in Nat \ {0} /\ chain[j] <= N
    BY <2>1 DEF ScheduleInv, Types, Lanes, Chains
  <2>3. \A i \in Earlier(k) : i < j /\ chain[i] = chain[j] => i \in A[j]
    BY <2>1 DEF ScheduleInv, Chains, Earlier
  <2>4. ASSUME NEW c \in 1..chain[j] PROVE \E i \in Earlier(k) : chain[i] = c
    <3>1. PICK i \in Sel : i <= j /\ chain[i] = c
      BY <2>1 DEF ScheduleInv, Chains
    <3>2. i \in Nat /\ i < k
      BY <1>0, <2>1, <3>1
    <3> QED BY <3>1, <3>2 DEF Earlier
  <2> QED BY <2>1, <2>2, <2>3, <2>4
<1>2. CASE Extends(k) = {}
  <2>1. PICK m \in Nat : ChainsOf(k) = 1..m
    <3>1. CASE Earlier(k) = {}
      <4>1. ChainsOf(k) = 1..0
        BY <3>1 DEF ChainsOf
      <4> QED BY <4>1
    <3>2. CASE Earlier(k) # {}
      <4>1. \A c \in ChainsOf(k) : c \in Nat \ {0} /\ c <= N
        BY <1>1 DEF ChainsOf
      <4>2. PICK m \in ChainsOf(k) : \A c \in ChainsOf(k) : c <= m
        <5>1. ChainsOf(k) # {} /\ ChainsOf(k) \subseteq Nat /\ N \in Nat
          BY <3>2, <4>1, OpsAreNat DEF ChainsOf
        <5> QED BY <4>1, <5>1, HasGreatest
      <4>3. 1..m \subseteq ChainsOf(k)
        BY <1>1, <4>2 DEF ChainsOf
      <4>4. ChainsOf(k) \subseteq 1..m
        BY <4>1, <4>2
      <4> QED BY <4>1, <4>2, <4>3, <4>4
    <3> QED BY <3>1, <3>2
  <2>2. Chain(k) = m + 1
    <3>1. Cardinality(1..m) = m
      BY <2>1, FS_Interval
    <3> QED BY <1>2, <2>1, <3>1 DEF Chain
  <2>3. \A j \in Earlier(k) : chain[j] \in 1..m
    BY <2>1 DEF ChainsOf
  <2>4. \A c \in 1..m : \E j \in Earlier(k) : chain[j] = c
    BY <2>1 DEF ChainsOf
  <2>5. \A c \in 1..Chain(k) : c = Chain(k) \/ c \in 1..m
    BY <2>1, <2>2
  <2> QED BY <2>1, <2>2, <2>3, <2>4, <2>5
<1>3. CASE Extends(k) # {}
  <2>1. Chain(k) \in Extends(k)
    <3>1. \A c \in Extends(k) : c \in Nat /\ c <= N
      BY <1>1 DEF Extends, ChainsOf
    <3>2. \E c \in Extends(k) : \A d \in Extends(k) : d <= c
      BY <1>3, <3>1, HasGreatest, OpsAreNat
    <3> QED BY <1>3, <3>2 DEF Chain
  <2>2. PICK j \in Before(k) : j \in LastOf(Chain(k), k)
    BY <2>1 DEF Extends
  <2>3. /\ j \in Earlier(k) /\ chain[j] = Chain(k)
        /\ \A i \in Earlier(k) : chain[i] = Chain(k) => i <= j
    BY <2>2 DEF LastOf
  <2>4. ASSUME NEW i \in Earlier(k), chain[i] = Chain(k) PROVE i \in Before(k)
    <3>1. i <= j /\ i \in Nat /\ j \in Nat
      BY <1>1, <2>3, <2>4
    <3>2. i < j => i \in A[j]
      BY <1>1, <2>3, <2>4
    <3> QED BY <2>2, <3>1, <3>2
  <2> QED BY <1>1, <2>3, <2>4
<1> QED BY <1>2, <1>3

\* The SMs there are, taken one by one.
LEMMA OwnersFinite ==
  ASSUME NEW S, S \subseteq Ops \X (1..SMs)
  PROVE  IsFiniteSet(S) /\ Cardinality(S) \in Nat
<1>1. IsFiniteSet(Ops) /\ IsFiniteSet(1..SMs)
  BY StreamAssumption, FS_Interval DEF Ops
<1>2. IsFiniteSet(Ops \X (1..SMs))
  BY <1>1, FS_Product
<1>3. IsFiniteSet(S)
  BY <1>2, FS_Subset
<1> QED BY <1>3, FS_CardinalityType

\* Whether an op is exclusive is settled by the analysis.
LEMMA ExclusiveFrame ==
  ASSUME prog' = prog, A' = A, chain' = chain
  PROVE  /\ \A k : (Exclusive(k))' <=> Exclusive(k)
         /\ \A k : (Earlier(k))' = Earlier(k)
<1>1. Sel' = Sel
  BY DEF Sel
<1>2. \A k : (OtherChains(k))' = OtherChains(k)
  BY <1>1 DEF OtherChains, Unordered
<1>3. \A k : (Width(k))' = Width(k)
  BY <1>2 DEF Width
<1>4. \A k : (Budget(k))' = Budget(k)
  BY <1>3 DEF Budget
<1>5. \A k : (Need(k))' = Need(k)
  BY <1>4 DEF Need
<1>6. \A k : (Exclusive(k))' <=> Exclusive(k)
  BY <1>3, <1>4, <1>5 DEF Exclusive
<1>7. \A k : (Earlier(k))' = Earlier(k)
  BY <1>1 DEF Earlier
<1> QED BY <1>6, <1>7

-----------------------------------------------------------------------------
(* Every step preserves the invariant.                                     *)

\* The invariant holds before the first op is analysed.
LEMMA InvInit ==
  ASSUME Init PROVE ScheduleInv
<1>1. Sel \subseteq Ops /\ Ops \subseteq Nat /\ 0 \notin Ops /\ N \in Nat
  BY OpsAreNat, ProgramFields DEF Init
<1>2. Types
  BY <1>1 DEF Init, Types
<1>3. \A k \in Ops : ~ Analysed(k) /\ ~ Captured(k)
  <2> TAKE k \in Ops
  <2>1. k \in Nat /\ k # 0
    BY <1>1
  <2> QED BY <2>1 DEF Init, Analysed, Captured
<1>4. Order
  BY <1>1, <1>3 DEF Init, Order
<1>5. Lanes
  <2>1. \A k \in Ops : 0 < k /\ 0 <= N
    BY <1>1
  <2> QED BY <1>1, <1>3, <2>1 DEF Init, Lanes
<1>6. Edges
  BY <1>1, <1>3 DEF Init, Edges
<1>7. Replayed
  BY <1>1 DEF Init, Replayed, Running
<1>8. Chains /\ Apart
  BY <1>1, <1>3 DEF Chains, Apart
<1>9. Resident
  <2>1. \A k \in Sel : ~ Running(k) /\ k \notin ended
    BY <1>1 DEF Init, Running
  <2>2. Owners = {}
    BY StreamAssumption DEF Init, Owners
  <2> QED BY <2>1, <2>2, FS_EmptySet, StreamAssumption DEF Resident
<1> QED BY <1>2, <1>4, <1>5, <1>6, <1>7, <1>8, <1>9 DEF ScheduleInv

\* The analysis of an op: what Before(op) contains, and a free lane.
LEMMA InvAnalyze ==
  ASSUME ScheduleInv, Analyze PROVE ScheduleInv'
<1>0. /\ Sel \subseteq Ops /\ Ops \subseteq Nat /\ 0 \notin Ops /\ N \in Nat
      /\ op \in Ops /\ pc = "analyze" /\ \A k \in Ops : k <= N
      /\ prog \in Programs
  BY OpsAreNat, ProgramFields DEF ScheduleInv, Types, Analyze
<1>1. prog' = prog /\ Sel' = Sel
  BY DEF Analyze, Sel
<1>2. \/ pc' = "capture" /\ op' = 1 /\ op = N
      \/ pc' = "analyze" /\ op' = op + 1
  BY <1>0 DEF Analyze, Advance
<1>3. \A k \in Ops : /\ (Analysed(k))' <=> k <= op
                     /\ ~ (Captured(k))' /\ ~ Captured(k)
                     /\ Analysed(k) <=> k < op
  <2> TAKE k \in Ops
  <2>1. k \in Nat /\ k # 0 /\ op \in Nat /\ k <= N
    BY <1>0
  <2> QED BY <1>0, <1>2, <2>1 DEF Analysed, Captured
<1>4. \A j \in Flow(op) : j \in Ops /\ j < op
  <2> TAKE j \in Flow(op)
  <2>1. PICK p \in prog.ins[op] : j = p \/ j \in anc[p]
    BY DEF Flow
  <2>2. p \in Ops /\ p < op
    BY <1>0, <2>1, ProgramFields
  <2>3. j \in anc[p] => j \in Ops /\ j < p
    BY <2>2 DEF ScheduleInv, Types, Order
  <2>4. p \in Nat /\ op \in Nat /\ (j \in Ops => j \in Nat)
    BY <1>0, <2>2
  <2> QED BY <2>1, <2>2, <2>3, <2>4
<1>5. \A j \in Direct(op) : j \in Sel /\ j < op
  BY <1>4 DEF Direct, Earlier
<1>6. \A j \in Before(op) : j \in Sel /\ j < op /\ A[j] \subseteq Before(op)
  <2> TAKE j \in Before(op)
  <2>1. PICK i \in Direct(op) : j = i \/ j \in A[i]
    BY DEF Before
  <2>2. i \in Sel /\ i \in Ops /\ i < op /\ A[i] \subseteq Before(op)
    BY <1>0, <1>5, <2>1 DEF Before
  <2>3. j \in A[i] => j \in Sel /\ j < i /\ A[j] \subseteq A[i]
    BY <2>2 DEF ScheduleInv, Order
  <2>4. i \in Nat /\ op \in Nat /\ (j \in Sel => j \in Nat)
    BY <1>0, <2>2
  <2> QED BY <2>1, <2>2, <2>3, <2>4
<1>7. /\ anc' = [anc EXCEPT ![op] = Flow(op)]
      /\ op \in Sel => /\ A' = [A EXCEPT ![op] = Before(op)]
                       /\ lane' = [lane EXCEPT ![op] = Lane(op)]
                       /\ chain' = [chain EXCEPT ![op] = Chain(op)]
      /\ op \notin Sel => A' = A /\ lane' = lane /\ chain' = chain
      /\ deps' = deps /\ barrier' = barrier /\ held' = held
      /\ ended' = ended /\ mem' = mem
  BY DEF Analyze, graph, gpu
<1>8. Types'
  <2>1. Flow(op) \subseteq Ops /\ Before(op) \subseteq Ops
    BY <1>0, <1>4, <1>6
  <2>2. Lane(op) \in Nat /\ Chain(op) \in Nat
    BY <1>0, LaneIsFree, ChainIsSmall
  <2>3. anc' \in [Ops -> SUBSET Ops]
    BY <1>7, <2>1 DEF ScheduleInv, Types
  <2>4. A' \in [Ops -> SUBSET Ops]
    BY <1>7, <2>1 DEF ScheduleInv, Types
  <2>5. lane' \in [Ops -> Nat] /\ chain' \in [Ops -> Nat]
    BY <1>7, <2>2 DEF ScheduleInv, Types
  <2>6. op' \in Nat /\ pc' \in {"analyze", "capture", "replay", "joined"}
    BY <1>0, <1>2
  <2> QED BY <1>1, <1>7, <2>3, <2>4, <2>5, <2>6 DEF ScheduleInv, Types
<1>9. /\ \A k \in Ops : k # op => A'[k] = A[k] /\ lane'[k] = lane[k] /\ chain'[k] = chain[k]
                                  /\ anc'[k] = anc[k]
      /\ anc'[op] = Flow(op)
      /\ op \in Sel => A'[op] = Before(op) /\ lane'[op] = Lane(op) /\ chain'[op] = Chain(op)
      /\ op \notin Sel => A'[op] = A[op] /\ lane'[op] = lane[op] /\ chain'[op] = chain[op]
  BY <1>0, <1>7 DEF ScheduleInv, Types
<1>10. A[op] = {} /\ \A k \in Ops : k > op => A[k] = {}
  <2>1. \A k \in Ops : k >= op => ~ (k < op)
    BY <1>0
  <2>2. \A k \in Ops : k >= op => A[k] = {}
    BY <1>3, <2>1 DEF ScheduleInv, Order
  <2>3. op >= op /\ \A k \in Ops : k > op => k >= op
    BY <1>0
  <2> QED BY <1>0, <2>2, <2>3
<1>11. Order'
  <2>1. \A k \in Ops : \A j \in anc'[k] : j < k
    BY <1>4, <1>9 DEF ScheduleInv, Order
  <2>2. ASSUME NEW k \in Ops, NEW j \in A'[k]
        PROVE  j \in Sel /\ j < k /\ A'[j] \subseteq A'[k]
    <3>1. CASE k = op
      <4>1. op \in Sel /\ j \in Before(op)
        BY <1>9, <1>10, <2>2, <3>1
      <4>2. j \in Sel /\ j < op /\ A[j] \subseteq Before(op)
        BY <1>6, <4>1
      <4>3. A'[j] = A[j]
        BY <1>0, <1>9, <4>2
      <4> QED BY <1>9, <3>1, <4>1, <4>2, <4>3
    <3>2. CASE k # op
      <4>1. j \in A[k]
        BY <1>9, <2>2, <3>2
      <4>2. j \in Sel /\ j < k /\ A[j] \subseteq A[k]
        BY <4>1 DEF ScheduleInv, Order
      <4>3. k < op
        BY <1>0, <1>10, <3>2, <4>1
      <4>4. j \in Ops /\ j # op
        BY <1>0, <4>2, <4>3
      <4> QED BY <1>9, <3>2, <4>2, <4>4
    <3> QED BY <3>1, <3>2
  <2>3. ASSUME NEW k \in Ops, ~ (Analysed(k))' PROVE A'[k] = {}
    <3>1. k > op
      BY <1>0, <1>3, <2>3
    <3> QED BY <1>0, <1>9, <1>10, <3>1
  <2>4. ASSUME NEW k \in Sel, (Analysed(k))', NEW j \in Sel, j < k, Conflict(j, k)
        PROVE  j \in A'[k]
    <3>1. k \in Ops /\ j \in Ops /\ k <= op
      BY <1>0, <1>3, <2>4
    <3>2. CASE k = op
      <4>1. j \in Direct(op)
        BY <2>4, <3>2 DEF Direct, Earlier
      <4> QED BY <1>9, <3>2, <4>1 DEF Before
    <3>3. CASE k # op
      <4>1. Analysed(k)
        BY <1>0, <1>3, <3>1, <3>3
      <4>2. j \in A[k]
        BY <2>4, <4>1 DEF ScheduleInv, Order
      <4> QED BY <1>9, <3>1, <3>3, <4>2
    <3> QED BY <3>2, <3>3
  <2>5. \A j, k : (Conflict(j, k))' = Conflict(j, k)
    BY <1>1 DEF Conflict
  <2> QED BY <1>1, <2>1, <2>2, <2>3, <2>4, <2>5 DEF Order
<1>12. Lanes'
  <2>1. ASSUME NEW k \in Ops PROVE lane'[k] < k /\ chain'[k] <= N
    <3>1. lane[k] < k /\ chain[k] <= N
      BY DEF ScheduleInv, Lanes
    <3>2. Lane(op) < op /\ Chain(op) <= N
      BY <1>0, LaneIsFree, ChainIsSmall
    <3> QED BY <1>9, <3>1, <3>2
  <2>2. ASSUME NEW k \in Sel, (Analysed(k))', NEW j \in Sel, j < k,
               prog.slot[j] = prog.slot[k], j \notin A'[k]
        PROVE  lane'[j] # lane'[k]
    <3>1. k \in Ops /\ j \in Ops /\ k <= op /\ j # op
      BY <1>0, <1>3, <2>2
    <3>2. CASE k = op
      <4>1. lane[j] \in Taken(op)
        BY <1>9, <2>2, <3>2 DEF Taken, Earlier
      <4>2. lane[j] # Lane(op)
        BY <1>0, <4>1, LaneIsFree
      <4> QED BY <1>9, <2>2, <3>1, <3>2, <4>2
    <3>3. CASE k # op
      <4>1. Analysed(k)
        BY <1>0, <1>3, <3>1, <3>3
      <4>2. j \notin A[k]
        BY <1>9, <2>2, <3>1, <3>3
      <4>3. lane[j] # lane[k]
        BY <2>2, <4>1, <4>2 DEF ScheduleInv, Lanes
      <4> QED BY <1>9, <3>1, <3>3, <4>3
    <3> QED BY <3>2, <3>3
  <2> QED BY <1>1, <2>1, <2>2 DEF Lanes
<1>13. Edges'
  <2>1. barrier = {}
    BY <1>0, <1>3 DEF ScheduleInv, Types, Edges
  <2> QED BY <1>0, <1>1, <1>3, <1>7, <2>1 DEF ScheduleInv, Edges
<1>14. Replayed'
  <2>1. ended = {} /\ \A k \in Ops : held[k] = 0
    BY <1>0 DEF ScheduleInv, Replayed
  <2>2. \A k \in Ops : ~ (Running(k))'
    BY <1>7, <2>1 DEF Running
  <2>3. pc' # "joined"
    BY <1>2
  <2>4. \A c \in Cells : mem[c] = 0
    BY <2>1 DEF ScheduleInv, Replayed
  <2> QED BY <1>7, <2>1, <2>2, <2>3, <2>4 DEF Replayed
<1>15. Chains'
  <2>1. op \in Sel => /\ Chain(op) # 0
                      /\ \A j \in Earlier(op) : chain[j] = Chain(op) => j \in Before(op)
                      /\ \A c \in 1..Chain(op) :
                           c = Chain(op) \/ \E j \in Earlier(op) : chain[j] = c
    <3>1. \A j \in Earlier(op) : Analysed(j)
      BY <1>0, <1>3 DEF Earlier
    <3> QED BY <1>0, <1>6, <3>1, ChainChosen
  <2>2. ASSUME NEW k \in Sel, (Analysed(k))'
        PROVE  /\ \A j \in Sel : j < k /\ chain'[j] = chain'[k] => j \in A'[k]
               /\ chain'[k] # 0
               /\ \A c \in 1..chain'[k] : \E j \in Sel : j <= k /\ chain'[j] = c
    <3>0. k \in Ops /\ k \in Nat /\ k <= op /\ op \in Nat /\ Sel \subseteq Nat
      BY <1>0, <1>3, <2>2
    <3>1. CASE k = op
      <4>1. /\ chain'[k] = Chain(op) /\ A'[k] = Before(op)
            /\ \A j \in Earlier(op) : j \in Sel /\ j < op /\ chain'[j] = chain[j]
        BY <1>0, <1>9, <2>2, <3>0, <3>1 DEF Earlier
      <4>2. ASSUME NEW j \in Sel, j < k, chain'[j] = chain'[k] PROVE j \in A'[k]
        <5>1. j \in Earlier(op)
          BY <3>1, <4>2 DEF Earlier
        <5> QED BY <2>1, <2>2, <3>1, <4>1, <4>2, <5>1
      <4>3. ASSUME NEW c \in 1..chain'[k] PROVE \E j \in Sel : j <= k /\ chain'[j] = c
        <5>1. CASE c = Chain(op)
          BY <2>2, <3>0, <3>1, <4>1, <5>1
        <5>2. CASE \E j \in Earlier(op) : chain[j] = c
          <6>1. PICK j \in Earlier(op) : chain[j] = c
            BY <5>2
          <6>2. j \in Sel /\ j \in Nat /\ j < k /\ chain'[j] = c
            BY <3>0, <3>1, <4>1, <6>1
          <6> QED BY <3>0, <6>2
        <5> QED BY <2>1, <2>2, <3>1, <4>1, <4>3, <5>1, <5>2
      <4> QED BY <2>1, <2>2, <3>1, <4>1, <4>2, <4>3
    <3>2. CASE k # op
      <4>1. Analysed(k) /\ k < op
        BY <1>3, <3>0, <3>2
      <4>2. \A j \in Sel : j <= k => chain'[j] = chain[j] /\ j \in Nat
        BY <1>0, <1>9, <3>0, <4>1
      <4>3. chain'[k] = chain[k] /\ A'[k] = A[k]
        BY <1>9, <3>0, <3>2
      <4>4. \A j \in Sel : j < k => j <= k
        BY <3>0
      <4> QED BY <2>2, <4>1, <4>2, <4>3, <4>4 DEF ScheduleInv, Chains
    <3> QED BY <3>1, <3>2
  <2> QED BY <1>1, <2>2 DEF Chains
<1>16. Apart'
  BY <1>0, <1>1, <1>3 DEF Apart
<1>17. Resident'
  <2>1. ended' = {} /\ \A k \in Ops : ~ (Running(k))'
    BY <1>0, <1>7 DEF ScheduleInv, Replayed, Running
  <2>2. Owners' = Owners
    BY <1>7 DEF Owners
  <2> QED BY <1>0, <1>1, <2>1, <2>2 DEF ScheduleInv, Resident
<1> QED BY <1>8, <1>11, <1>12, <1>13, <1>14, <1>15, <1>16, <1>17 DEF ScheduleInv

\* The capture of an op: its edges, and the barrier it may become.
LEMMA InvCapture ==
  ASSUME ScheduleInv, Capture PROVE ScheduleInv'
<1>0. /\ Sel \subseteq Ops /\ Ops \subseteq Nat /\ 0 \notin Ops /\ N \in Nat
      /\ op \in Ops /\ pc = "capture" /\ \A k \in Ops : k <= N
  BY OpsAreNat, ProgramFields DEF ScheduleInv, Types, Capture
<1>1. /\ prog' = prog /\ Sel' = Sel /\ anc' = anc /\ A' = A /\ lane' = lane /\ chain' = chain
      /\ held' = held /\ ended' = ended /\ mem' = mem
  BY DEF Capture, Sel, analysis, gpu
<1>2. \/ pc' = "replay" /\ op' = 1 /\ op = N
      \/ pc' = "capture" /\ op' = op + 1
  BY <1>0 DEF Capture, Advance
<1>3. \A k \in Ops : /\ (Captured(k))' <=> k <= op
                     /\ Captured(k) <=> k < op
                     /\ (Analysed(k))' /\ Analysed(k)
  <2> TAKE k \in Ops
  <2>1. k \in Nat /\ k # 0 /\ op \in Nat /\ k <= N
    BY <1>0
  <2> QED BY <1>0, <1>2, <2>1 DEF Analysed, Captured
<1>4. /\ op \in Sel => \E X : /\ deps' = [deps EXCEPT ![op] = Preds(op) \cup barrier \cup X]
                              /\ X \subseteq Earlier(op)
                              /\ barrier' \in {barrier, {op}}
      /\ op \notin Sel => deps' = deps /\ barrier' = barrier
  <2>1. CASE op \in Sel
    <3> DEFINE X == IF Exclusive(op) THEN Earlier(op) ELSE {}
    <3>1. deps' = [deps EXCEPT ![op] = Preds(op) \cup barrier \cup X]
      BY <2>1 DEF Capture
    <3>2. barrier' \in {barrier, {op}}
      BY <2>1 DEF Capture, NextBarrier
    <3>3. X \subseteq Earlier(op)
      OBVIOUS
    <3> HIDE DEF X
    <3> QED BY <2>1, <3>1, <3>2, <3>3, Zenon
  <2>2. CASE op \notin Sel
    BY <2>2 DEF Capture, graph
  <2> QED BY <2>1, <2>2
<1>5. \A j \in barrier : j \in Sel /\ j < op
  BY <1>0, <1>3 DEF ScheduleInv, Types, Edges
<1>6. \A j \in Preds(op) : j \in Sel /\ j < op
  BY <1>0 DEF Preds, ScheduleInv, Order
<1>7. /\ deps' \in [Ops -> SUBSET Ops]
      /\ \A k \in Ops : k # op => deps'[k] = deps[k]
      /\ \A j \in deps'[op] : j \in Sel /\ j < op
      /\ op \in Sel => Preds(op) \subseteq deps'[op]
      /\ barrier' \subseteq Sel /\ \A j \in barrier' : j <= op
  <2>1. CASE op \in Sel
    <3>1. PICK X : /\ deps' = [deps EXCEPT ![op] = Preds(op) \cup barrier \cup X]
                   /\ X \subseteq Earlier(op)
                   /\ barrier' \in {barrier, {op}}
      BY <1>4, <2>1
    <3>2. \A j \in Preds(op) \cup barrier \cup X : j \in Sel /\ j < op
      BY <1>5, <1>6, <3>1 DEF Earlier
    <3>3. Preds(op) \cup barrier \cup X \subseteq Ops
      BY <1>0, <3>2
    <3>4. deps \in [Ops -> SUBSET Ops]
      BY DEF ScheduleInv, Types
    <3>5. /\ deps' \in [Ops -> SUBSET Ops] /\ deps'[op] = Preds(op) \cup barrier \cup X
          /\ \A k \in Ops : k # op => deps'[k] = deps[k]
      BY <1>0, <3>1, <3>3, <3>4
    <3>6. barrier' \subseteq Sel /\ \A j \in barrier' : j <= op
      <4>1. op \in Nat /\ Sel \subseteq Nat /\ op <= op
        BY <1>0
      <4>2. CASE barrier' = barrier
        <5>1. ASSUME NEW j \in barrier PROVE j \in Sel /\ j <= op
          <6>1. j \in Sel /\ j < op
            BY <1>5
          <6>2. j \in Nat
            BY <4>1, <6>1
          <6> QED BY <4>1, <6>1, <6>2
        <5> QED BY <4>2, <5>1
      <4>3. CASE barrier' = {op}
        BY <2>1, <4>1, <4>3
      <4> QED BY <3>1, <4>2, <4>3
    <3> QED BY <3>2, <3>5, <3>6
  <2>2. CASE op \notin Sel
    <3>1. deps' = deps /\ barrier' = barrier
      BY <1>4, <2>2
    <3> QED BY <1>0, <1>5, <2>2, <3>1 DEF ScheduleInv, Types, Edges
  <2> QED BY <2>1, <2>2
<1>8. Types'
  <2>1. op' \in Nat /\ pc' \in {"analyze", "capture", "replay", "joined"}
    BY <1>0, <1>2
  <2> QED BY <1>1, <1>7, <2>1 DEF ScheduleInv, Types
<1>9. Order'
  <2>1. \A j, k : (Conflict(j, k))' = Conflict(j, k)
    BY <1>1 DEF Conflict
  <2> QED BY <1>0, <1>1, <1>3, <2>1 DEF ScheduleInv, Order
<1>10. Lanes'
  BY <1>0, <1>1, <1>3 DEF ScheduleInv, Lanes
<1>11. Edges'
  <2>1. \A k : (Preds(k))' = Preds(k)
    BY <1>1 DEF Preds
  <2>2. \A k \in Ops : \A j \in deps'[k] : j \in Sel /\ j < k
    BY <1>0, <1>7 DEF ScheduleInv, Edges
  <2>3. \A j \in barrier' : (Captured(j))'
    BY <1>0, <1>3, <1>7
  <2>4. ASSUME NEW k \in Sel, (Captured(k))' PROVE Preds(k) \subseteq deps'[k]
    <3>1. k \in Ops /\ k <= op
      BY <1>0, <1>3, <2>4
    <3>2. CASE k = op
      BY <1>7, <2>4, <3>2
    <3>3. CASE k # op
      <4>1. Captured(k)
        BY <1>0, <1>3, <3>1, <3>3
      <4> QED BY <1>7, <2>4, <3>1, <3>3, <4>1 DEF ScheduleInv, Edges
    <3> QED BY <3>2, <3>3
  <2> QED BY <1>1, <2>1, <2>2, <2>3, <2>4 DEF Edges
<1>12. Replayed'
  <2>1. ended = {} /\ \A k \in Ops : held[k] = 0
    BY <1>0 DEF ScheduleInv, Replayed
  <2>2. \A k \in Ops : ~ (Running(k))'
    BY <1>1, <2>1 DEF Running
  <2>3. pc' # "joined"
    BY <1>2
  <2>4. \A c \in Cells : mem[c] = 0
    BY <2>1 DEF ScheduleInv, Replayed
  <2> QED BY <1>1, <2>1, <2>2, <2>3, <2>4 DEF Replayed
<1>13. /\ \A k : (Exclusive(k))' <=> Exclusive(k)
       /\ \A k : (Earlier(k))' = Earlier(k)
  BY <1>1, ExclusiveFrame
<1>14. Chains'
  BY <1>0, <1>1, <1>3 DEF ScheduleInv, Chains
<1>15. op \in Sel =>
         /\ barrier \subseteq deps'[op]
         /\ Exclusive(op) => Earlier(op) \subseteq deps'[op] /\ barrier' = {op}
         /\ ~ Exclusive(op) => barrier' = barrier
  BY <1>0 DEF Capture, NextBarrier, ScheduleInv, Types
<1>16. ASSUME NEW e \in Sel, e < op, Exclusive(e)
       PROVE  \E b \in barrier : b < op /\ (e = b \/ e \in deps'[b])
  <2>1. Captured(e)
    BY <1>0, <1>3, <1>16
  <2>2. PICK b \in barrier : e = b \/ e \in deps[b]
    BY <1>16, <2>1 DEF ScheduleInv, Apart
  <2>3. b < op /\ b \in Ops /\ b # op
    <3>1. b \in Sel /\ b < op
      BY <1>5, <2>2
    <3>2. b \in Ops /\ op \in Nat
      BY <1>0, <3>1
    <3> QED BY <3>1, <3>2
  <2> QED BY <1>7, <2>2, <2>3
<1>17. Apart'
  <2>1. ASSUME NEW k \in Sel, (Captured(k))', Exclusive(k)
        PROVE  Earlier(k) \subseteq deps'[k]
    <3>1. CASE k = op
      BY <1>15, <2>1, <3>1
    <3>2. CASE k # op
      <4>1. k \in Ops /\ Captured(k)
        BY <1>0, <1>3, <2>1, <3>2
      <4> QED BY <1>7, <2>1, <3>2, <4>1 DEF ScheduleInv, Apart
    <3> QED BY <3>1, <3>2
  <2>2. ASSUME NEW e \in Sel, (Captured(e))', Exclusive(e)
        PROVE  \E b \in barrier' : e = b \/ e \in deps'[b]
    <3>1. e <= op /\ e \in Nat /\ op \in Nat
      BY <1>0, <1>3, <2>2
    <3>2. CASE op \in Sel /\ Exclusive(op)
      <4>1. e < op => e \in Earlier(op)
        BY DEF Earlier
      <4> QED BY <1>15, <3>1, <3>2, <4>1
    <3>3. CASE ~ (op \in Sel /\ Exclusive(op))
      <4>1. e < op
        BY <2>2, <3>1, <3>3
      <4>2. barrier' = barrier
        BY <1>4, <1>15, <3>3
      <4> QED BY <1>16, <2>2, <4>1, <4>2
    <3> QED BY <3>2, <3>3
  <2>3. ASSUME NEW e \in Sel, NEW k \in Sel, e < k, (Captured(k))', Exclusive(e)
        PROVE  e \in deps'[k] \/ \E f \in deps'[k] : e \in deps'[f]
    <3>1. CASE k = op
      BY <1>15, <1>16, <2>3, <3>1
    <3>2. CASE k # op
      <4>1. k \in Ops /\ Captured(k) /\ k < op
        BY <1>0, <1>3, <2>3, <3>2
      <4>2. e \in deps[k] \/ \E f \in deps[k] : e \in deps[f]
        BY <2>3, <4>1 DEF ScheduleInv, Apart
      <4>3. deps'[k] = deps[k]
        BY <1>7, <3>2, <4>1
      <4>4. \A f \in deps[k] : deps'[f] = deps[f]
        <5> TAKE f \in deps[k]
        <5>1. f \in Sel /\ f < k
          BY <4>1 DEF ScheduleInv, Edges
        <5>2. f \in Ops /\ f # op
          BY <1>0, <4>1, <5>1
        <5> QED BY <1>7, <5>2
      <4> QED BY <4>2, <4>3, <4>4
    <3> QED BY <3>1, <3>2
  <2> QED BY <1>1, <1>13, <2>1, <2>2, <2>3 DEF Apart
<1>18. Resident'
  <2>1. ended' = {} /\ \A k \in Ops : ~ (Running(k))'
    BY <1>0, <1>1 DEF ScheduleInv, Replayed, Running
  <2>2. Owners' = Owners
    BY <1>1 DEF Owners
  <2> QED BY <1>0, <1>1, <2>1, <2>2 DEF ScheduleInv, Resident
<1> QED BY <1>8, <1>9, <1>10, <1>11, <1>12, <1>14, <1>17, <1>18 DEF ScheduleInv

-----------------------------------------------------------------------------
(* The replay.                                                             *)

\* Behind the captured edges is everything the op must come after: the
\* greatest ancestor that has not ended would be a direct predecessor.
LEMMA EdgesSuffice ==
  ASSUME ScheduleInv, NEW k \in Sel, Captured(k), deps[k] \subseteq ended
  PROVE  A[k] \subseteq ended
<1>0. Sel \subseteq Ops /\ Ops \subseteq Nat /\ k \in Ops /\ ended \subseteq Ops
  BY OpsAreNat, ProgramFields DEF ScheduleInv, Types
<1>1. SUFFICES ASSUME A[k] \ ended # {} PROVE FALSE
  OBVIOUS
<1>2. \A j \in A[k] : j \in Ops /\ j \in Nat /\ j <= k
  <2> TAKE j \in A[k]
  <2>1. j \in Sel /\ j < k
    BY <1>0 DEF ScheduleInv, Order
  <2>2. j \in Ops /\ j \in Nat /\ k \in Nat
    BY <1>0, <2>1
  <2> QED BY <2>1, <2>2
<1>3. PICK j \in A[k] \ ended : \A i \in A[k] \ ended : i <= j
  <2>1. A[k] \ ended \subseteq Nat /\ k \in Nat /\ \A i \in A[k] \ ended : i <= k
    BY <1>0, <1>2
  <2> QED BY <1>1, <2>1, HasGreatest
<1>4. Preds(k) \subseteq ended
  BY DEF ScheduleInv, Edges
<1>5. PICK i \in A[k] : j \in A[i]
  BY <1>3, <1>4 DEF Preds
<1>6. i \in Ops /\ i \in Nat /\ j \in Nat /\ j < i
  BY <1>2, <1>3, <1>5 DEF ScheduleInv, Order
<1>7. i \in ended
  BY <1>3, <1>5, <1>6
<1>8. A[i] \subseteq ended
  BY <1>6, <1>7 DEF ScheduleInv, Replayed
<1> QED BY <1>3, <1>5, <1>8

\* What the replay and the join leave alone.
LEMMA InvStatic ==
  ASSUME ScheduleInv, UNCHANGED <<prog, op, analysis, graph>>,
         pc \in {"replay", "joined"}, pc' \in {"replay", "joined"}
  PROVE  /\ Order' /\ Lanes' /\ Edges' /\ Chains' /\ Apart' /\ Sel' = Sel
         /\ Final' = Final
<1>1. /\ prog' = prog /\ Sel' = Sel /\ anc' = anc /\ A' = A /\ lane' = lane /\ chain' = chain
      /\ deps' = deps /\ barrier' = barrier /\ op' = op
  BY DEF Sel, analysis, graph
<1>2. \A j, k : (Conflict(j, k))' = Conflict(j, k)
  BY <1>1 DEF Conflict
<1>3. \A k : (Preds(k))' = Preds(k)
  BY <1>1 DEF Preds
<1>4. \A k : /\ (Analysed(k))' /\ Analysed(k) /\ (Captured(k))' /\ Captured(k)
  BY DEF Analysed, Captured
<1>5. Order'
  BY <1>1, <1>2, <1>4 DEF ScheduleInv, Order
<1>6. Lanes'
  BY <1>1, <1>4 DEF ScheduleInv, Lanes
<1>7. Edges'
  BY <1>1, <1>3, <1>4 DEF ScheduleInv, Edges
<1>8. Final' = Final
  BY <1>1, <1>3 DEF Final
<1>9. Chains'
  BY <1>1, <1>4 DEF ScheduleInv, Chains
<1>10. Apart'
  <2>1. /\ \A k : (Exclusive(k))' <=> Exclusive(k)
        /\ \A k : (Earlier(k))' = Earlier(k)
    BY <1>1, ExclusiveFrame
  <2> QED BY <1>1, <1>4, <2>1 DEF ScheduleInv, Apart
<1> QED BY <1>1, <1>2, <1>5, <1>6, <1>7, <1>8, <1>9, <1>10

\* The join after the last op keeps the invariant.
LEMMA InvJoin ==
  ASSUME ScheduleInv, Join PROVE ScheduleInv'
<1>1. Order' /\ Lanes' /\ Edges' /\ Chains' /\ Apart' /\ Sel' = Sel /\ Final' = Final
  BY InvStatic DEF Join
<1>2. /\ prog' = prog /\ op' = op /\ anc' = anc /\ A' = A /\ lane' = lane /\ chain' = chain
      /\ deps' = deps /\ barrier' = barrier /\ held' = held /\ ended' = ended /\ mem' = mem
      /\ pc' = "joined" /\ pc = "replay" /\ Final \subseteq ended
  BY DEF Join, analysis, graph, gpu
<1>3. Types'
  BY <1>1, <1>2 DEF ScheduleInv, Types
<1>4. Replayed'
  BY <1>1, <1>2 DEF ScheduleInv, Replayed, Running
<1>5. Resident'
  BY <1>1, <1>2 DEF ScheduleInv, Resident, Running, Owners
<1> QED BY <1>1, <1>3, <1>4, <1>5 DEF ScheduleInv

\* The first block of an op is placed when its ancestors have ended.
LEMMA InvPlace ==
  ASSUME ScheduleInv, NEW k \in Ops, Place(k) PROVE ScheduleInv'
<1>1. /\ prog' = prog /\ op' = op /\ anc' = anc /\ A' = A /\ lane' = lane /\ chain' = chain
      /\ deps' = deps /\ barrier' = barrier /\ ended' = ended /\ mem' = mem
      /\ pc' = pc /\ pc = "replay" /\ k \in Sel /\ k \notin ended /\ deps[k] \subseteq ended
      /\ held' = [held EXCEPT ![k] = held[k] + 1]
  BY DEF Place, analysis, graph
<1>2. Order' /\ Lanes' /\ Edges' /\ Chains' /\ Apart' /\ Sel' = Sel /\ Final' = Final
  BY InvStatic DEF Place
<1>3. held' \in [Ops -> Nat] /\ \A j \in Ops : j # k => held'[j] = held[j]
  BY <1>1 DEF ScheduleInv, Types
<1>4. Types'
  BY <1>1, <1>2, <1>3 DEF ScheduleInv, Types
<1>5. A[k] \subseteq ended
  BY <1>1, EdgesSuffice DEF Captured
<1>6. \A j \in Ops : (Running(j))' => j = k \/ Running(j)
  BY <1>3 DEF Running
<1>7. Replayed'
  BY <1>1, <1>2, <1>5, <1>6 DEF ScheduleInv, Replayed
<1>8. Resident'
  <2>1. Sel \subseteq Ops
    BY ProgramFields DEF ScheduleInv, Types
  <2>2. \A j \in Sel : (Running(j))' \/ j \in ended' => deps'[j] \subseteq ended'
    BY <1>1, <1>6, <2>1 DEF ScheduleInv, Resident
  <2> DEFINE x == <<k, held[k] + 1>>
  <2>3. Owners' \subseteq Owners \cup {x}
    <3>1. ASSUME NEW j \in Ops, NEW i \in 1..SMs, i <= held'[j]
          PROVE  i <= held[j] \/ (j = k /\ i = held[k] + 1)
      BY <1>1, <1>3, <3>1, StreamAssumption DEF ScheduleInv, Types
    <3> QED BY <3>1 DEF Owners
  <2>4. /\ IsFiniteSet(Owners) /\ Cardinality(Owners) \in Nat /\ Cardinality(Owners') \in Nat
    BY OwnersFinite DEF Owners
  <2>5. Cardinality(Owners) + 1 <= SMs
    BY <2>4, StreamAssumption DEF Place, Free
  <2> HIDE DEF x
  <2>6. /\ IsFiniteSet(Owners \cup {x})
        /\ Cardinality(Owners \cup {x}) <= Cardinality(Owners) + 1
    BY <2>4, FS_AddElement
  <2>7. Cardinality(Owners') <= Cardinality(Owners \cup {x})
    BY <2>3, <2>6, FS_Subset
  <2>8. Cardinality(Owners') <= SMs
    BY <2>4, <2>5, <2>6, <2>7, FS_CardinalityType, StreamAssumption
  <2> QED BY <1>2, <2>2, <2>8 DEF Resident
<1> QED BY <1>2, <1>4, <1>7, <1>8 DEF ScheduleInv

\* An op that writes a cell after a later one has would be its ancestor.
LEMMA InvEnd ==
  ASSUME ScheduleInv, NEW k \in Ops, End(k) PROVE ScheduleInv'
<1>0. Sel \subseteq Ops /\ Ops \subseteq Nat /\ 0 \notin Ops /\ ended \subseteq Sel
  BY OpsAreNat, ProgramFields DEF ScheduleInv, Types
<1>1. /\ prog' = prog /\ op' = op /\ anc' = anc /\ A' = A /\ lane' = lane /\ chain' = chain
      /\ deps' = deps /\ barrier' = barrier /\ ended' = ended \cup {k}
      /\ mem' = [c \in Cells |-> IF c \in prog.wr[k] THEN k ELSE mem[c]]
      /\ pc' = pc /\ pc = "replay" /\ k \in Sel /\ k \notin ended /\ Running(k)
      /\ held' = [held EXCEPT ![k] = 0]
  BY DEF End, analysis, graph
<1>2. Order' /\ Lanes' /\ Edges' /\ Chains' /\ Apart' /\ Sel' = Sel /\ Final' = Final
  BY InvStatic DEF End
<1>3. held' \in [Ops -> Nat] /\ held'[k] = 0 /\ \A j \in Ops : j # k => held'[j] = held[j]
  BY <1>1 DEF ScheduleInv, Types
<1>4. mem' \in [Cells -> Ops \cup {0}]
  BY <1>1 DEF ScheduleInv, Types
<1>5. Types'
  BY <1>0, <1>1, <1>2, <1>3, <1>4 DEF ScheduleInv, Types
<1>6. A[k] \subseteq ended
  BY <1>1 DEF ScheduleInv, Replayed
<1>7. ASSUME NEW j \in ended, NEW c \in Cells, c \in prog.wr[j], c \in prog.wr[k]
      PROVE  j < k
  <2>1. j \in Sel /\ j \in Nat /\ k \in Nat /\ j # k
    BY <1>0, <1>1
  <2>2. SUFFICES ASSUME k < j PROVE FALSE
    BY <2>1
  <2>3. Conflict(k, j)
    BY <1>7 DEF Conflict
  <2>4. k \in A[j]
    BY <1>1, <2>1, <2>2, <2>3 DEF ScheduleInv, Order, Analysed
  <2>5. A[j] \subseteq ended
    BY <1>0, <2>1 DEF ScheduleInv, Replayed
  <2> QED BY <1>1, <2>4, <2>5
<1>8. \A c \in Cells : mem'[c] = IF c \in prog.wr[k] THEN k ELSE mem[c]
  BY <1>1
<1>9. \A j \in Ops : (Running(j))' => j # k /\ Running(j)
  BY <1>3 DEF Running
<1>10. Replayed'
  <2>1. \A j \in Ops : (Running(j))' => j \in Sel /\ j \notin ended'
    BY <1>1, <1>9 DEF ScheduleInv, Replayed
  <2>2. \A j \in Ops : (Running(j))' \/ j \in ended' => A[j] \subseteq ended'
    BY <1>1, <1>6, <1>9 DEF ScheduleInv, Replayed
  <2>3. ASSUME NEW c \in Cells, mem'[c] # 0
        PROVE  mem'[c] \in ended' /\ c \in prog.wr[mem'[c]]
    BY <1>1, <1>8, <2>3 DEF ScheduleInv, Replayed
  <2>4. ASSUME NEW c \in Cells, NEW j \in ended', c \in prog.wr[j]
        PROVE  j <= mem'[c]
    <3>1. CASE c \in prog.wr[k]
      <4>1. mem'[c] = k /\ k \in Nat
        BY <1>0, <1>8, <3>1
      <4>2. j = k \/ j \in ended
        BY <1>1, <2>4
      <4>3. j \in ended => j < k /\ j \in Nat
        BY <1>0, <1>7, <2>4, <3>1
      <4> QED BY <4>1, <4>2, <4>3
    <3>2. CASE c \notin prog.wr[k]
      BY <1>1, <1>8, <2>4, <3>2 DEF ScheduleInv, Replayed
    <3> QED BY <3>1, <3>2
  <2>5. pc' = "replay" /\ prog' = prog /\ Sel' = Sel /\ A' = A
    BY <1>1, <1>2
  <2>6. \A c \in Cells : mem'[c] # 0 => mem'[c] \in ended' /\ c \in prog'.wr[mem'[c]]
    BY <2>3, <2>5
  <2>7. \A c \in Cells : \A j \in ended' : c \in prog'.wr[j] => j <= mem'[c]
    BY <2>4, <2>5
  <2> QED BY <2>1, <2>2, <2>5, <2>6, <2>7 DEF Replayed
<1>11. Resident'
  <2>1. \A j \in Sel : (Running(j))' \/ j \in ended' => deps'[j] \subseteq ended'
    BY <1>0, <1>1, <1>9 DEF ScheduleInv, Resident
  <2>2. Owners' \subseteq Owners
    <3>1. ASSUME NEW j \in Ops, NEW i \in 1..SMs, i <= held'[j] PROVE i <= held[j]
      BY <1>3, <3>1, StreamAssumption DEF ScheduleInv, Types
    <3> QED BY <3>1 DEF Owners
  <2>3. IsFiniteSet(Owners) /\ Cardinality(Owners) \in Nat /\ Cardinality(Owners') \in Nat
    BY OwnersFinite DEF Owners
  <2>4. Cardinality(Owners') <= Cardinality(Owners)
    BY <2>2, <2>3, FS_Subset
  <2>5. Cardinality(Owners') <= SMs
    BY <2>3, <2>4, StreamAssumption DEF ScheduleInv, Resident
  <2> QED BY <1>2, <2>1, <2>5 DEF Resident
<1> QED BY <1>2, <1>5, <1>10, <1>11 DEF ScheduleInv

\* The inductive invariant holds always: analysis, capture and replay each
\* keep it.
THEOREM ScheduleInvariant == Spec => []ScheduleInv
<1>1. Init => ScheduleInv
  BY InvInit
<1>2. ScheduleInv /\ [Next]_vars => ScheduleInv'
  <2> SUFFICES ASSUME ScheduleInv, [Next]_vars PROVE ScheduleInv'
    OBVIOUS
  <2>1. CASE Analyze
    BY <2>1, InvAnalyze
  <2>2. CASE Capture
    BY <2>2, InvCapture
  <2>3. CASE Join
    BY <2>3, InvJoin
  <2>4. ASSUME NEW k \in Ops, Place(k) PROVE ScheduleInv'
    BY <2>4, InvPlace
  <2>5. ASSUME NEW k \in Ops, End(k) PROVE ScheduleInv'
    BY <2>5, InvEnd
  <2>6. CASE UNCHANGED vars
    <3>1. /\ prog' = prog /\ op' = op /\ anc' = anc /\ A' = A /\ lane' = lane /\ chain' = chain
          /\ deps' = deps /\ barrier' = barrier /\ ended' = ended /\ mem' = mem
          /\ pc' = pc /\ held' = held
      BY <2>6 DEF vars, analysis, graph, gpu
    <3>2. Types' /\ Order' /\ Lanes' /\ Edges' /\ Replayed'
      BY <3>1 DEF ScheduleInv, Types, Order, Lanes, Edges, Replayed, Sel, Analysed,
                  Captured, Conflict, Preds, Running, Final
    <3>3. Chains' /\ Resident'
      BY <3>1 DEF ScheduleInv, Chains, Resident, Sel, Analysed, Running, Owners
    <3>4. /\ \A k : (Exclusive(k))' <=> Exclusive(k)
          /\ \A k : (Earlier(k))' = Earlier(k)
      BY <3>1, ExclusiveFrame
    <3>5. Apart'
      BY <3>1, <3>4 DEF ScheduleInv, Apart, Sel, Captured
    <3> QED BY <3>2, <3>3, <3>5 DEF ScheduleInv
  <2> QED BY <2>1, <2>2, <2>3, <2>4, <2>5, <2>6 DEF Next
<1> QED BY <1>1, <1>2, PTL DEF Spec

-----------------------------------------------------------------------------
(* What follows.                                                           *)

\* The types; an op waits only for earlier ops of its partition (schedule,
\* mb_conc_launch).
THEOREM StreamTypeCorrect == Spec => []StreamTypeOK
<1>1. ScheduleInv => StreamTypeOK
  BY DEF ScheduleInv, Types, Order, Edges, StreamTypeOK
<1> QED BY <1>1, ScheduleInvariant, PTL

\* Two instances of a slot that run at once are not ordered, so that they
\* got different lanes.
THEOREM LanesDiffer == Spec => []LanesApart
<1>1. ASSUME ScheduleInv, NEW j \in Sel, NEW k \in Sel, Running(j), Running(k),
             prog.slot[j] = prog.slot[k], j < k
      PROVE  lane[j] # lane[k]
  <2>1. j \in Ops /\ k \in Ops
    BY <1>1, ProgramFields DEF ScheduleInv, Types
  <2>2. j \notin ended /\ A[k] \subseteq ended
    BY <1>1, <2>1 DEF ScheduleInv, Replayed
  <2>3. pc # "analyze"
    BY <1>1, <2>1, OpsAreNat DEF ScheduleInv, Types, Replayed, Running
  <2> QED BY <1>1, <2>2, <2>3 DEF ScheduleInv, Lanes, Analysed
<1>2. ScheduleInv => LanesApart
  <2> SUFFICES ASSUME ScheduleInv, NEW j \in Sel, NEW k \in Sel, Running(j), Running(k),
                      j # k, prog.slot[j] = prog.slot[k]
               PROVE  lane[j] # lane[k]
    BY DEF LanesApart
  <2>1. j \in Nat /\ k \in Nat
    BY OpsAreNat, ProgramFields DEF ScheduleInv, Types
  <2>2. CASE j < k
    BY <1>1, <2>2
  <2>3. CASE k < j
    BY <1>1, <2>3
  <2> QED BY <2>1, <2>2, <2>3
<1> QED BY <1>2, ScheduleInvariant, PTL

\* The join waits for all: the greatest op that has not ended would be one
\* that nothing follows.
LEMMA JoinedMeansEnded ==
  ASSUME ScheduleInv, pc = "joined"
  PROVE  ended = Sel
<1>0. Sel \subseteq Ops /\ Ops \subseteq Nat /\ N \in Nat /\ ended \subseteq Sel
      /\ \A k \in Ops : k <= N
  BY OpsAreNat, ProgramFields DEF ScheduleInv, Types
<1>1. SUFFICES ASSUME Sel \ ended # {} PROVE FALSE
  BY <1>0
<1>2. PICK k \in Sel \ ended : \A i \in Sel \ ended : i <= k
  <2>1. Sel \ ended \subseteq Nat /\ \A i \in Sel \ ended : i <= N
    BY <1>0
  <2> QED BY <1>0, <1>1, <2>1, HasGreatest
<1>3. k \notin Final
  BY <1>2 DEF ScheduleInv, Replayed
<1>4. PICK s \in Sel : k \in A[s]
  BY <1>2, <1>3 DEF Final, Preds
<1>5. s \in Ops /\ s \in Nat /\ k \in Nat
  BY <1>0, <1>2
<1>6. k < s
  BY <1>4, <1>5 DEF ScheduleInv, Order
<1>7. s \in ended
  BY <1>2, <1>5, <1>6
<1>8. A[s] \subseteq ended
  BY <1>5, <1>7 DEF ScheduleInv, Replayed
<1> QED BY <1>2, <1>4, <1>8

\* What conflicts is ordered, so that what an op reads was written by the
\* last earlier op that writes it, and by no later one.
THEOREM ReadsSequential == Spec => []SameAsSequential
<1>1. ASSUME ScheduleInv, NEW c \in Cells, NEW k \in Nat,
             \A j \in Sel : c \in prog.wr[j] => (j < k <=> j \in ended)
      PROVE  LastWriter(c, k, mem[c])
  <2>0. Sel \subseteq Ops /\ ended \subseteq Sel /\ mem[c] \in Ops \cup {0}
    BY <1>1, ProgramFields DEF ScheduleInv, Types
  <2>1. Writers(c, k) = {j \in ended : c \in prog.wr[j]}
    BY <1>1, <2>0 DEF Writers
  <2>2. mem[c] # 0 => mem[c] \in Writers(c, k)
    BY <1>1, <2>1 DEF ScheduleInv, Replayed
  <2>3. \A j \in Writers(c, k) : j <= mem[c]
    BY <1>1, <2>1 DEF ScheduleInv, Replayed
  <2>4. mem[c] = 0 => Writers(c, k) = {}
    <3> SUFFICES ASSUME mem[c] = 0, NEW j \in Writers(c, k) PROVE FALSE
      OBVIOUS
    <3>1. j \in Nat /\ j # 0
      BY <2>0, <2>1, OpsAreNat
    <3> QED BY <2>3, <3>1
  <2> QED BY <2>2, <2>3, <2>4 DEF LastWriter
<1>2. ASSUME ScheduleInv, NEW k \in Sel, Running(k), NEW c \in prog.rd[k]
      PROVE  LastWriter(c, k, mem[c])
  <2>0. /\ Sel \subseteq Ops /\ Ops \subseteq Nat /\ k \in Ops /\ k \in Nat
        /\ ended \subseteq Sel /\ c \in Cells
    BY <1>2, OpsAreNat, ProgramFields DEF ScheduleInv, Types
  <2>1. k \notin ended /\ A[k] \subseteq ended
    BY <1>2, <2>0 DEF ScheduleInv, Replayed
  <2>2. pc # "analyze"
    BY <1>2, <2>0 DEF ScheduleInv, Types, Replayed, Running
  <2>3. ASSUME NEW j \in Sel, c \in prog.wr[j] PROVE j < k <=> j \in ended
    <3>0. j \in Ops /\ j \in Nat
      BY <2>0
    <3>1. CASE j < k
      <4>1. Conflict(j, k)
        BY <1>2, <2>3 DEF Conflict
      <4>2. j \in A[k]
        BY <1>2, <2>2, <3>1, <4>1 DEF ScheduleInv, Order, Analysed
      <4> QED BY <2>1, <3>1, <4>2
    <3>2. CASE j = k
      BY <2>0, <2>1, <3>2
    <3>3. CASE k < j
      <4>1. Conflict(k, j)
        BY <1>2, <2>3 DEF Conflict
      <4>2. k \in A[j]
        BY <1>2, <2>2, <3>3, <4>1 DEF ScheduleInv, Order, Analysed
      <4>3. j \in ended => A[j] \subseteq ended
        BY <1>2, <3>0 DEF ScheduleInv, Replayed
      <4> QED BY <2>0, <2>1, <3>0, <3>3, <4>2, <4>3
    <3> QED BY <2>0, <3>0, <3>1, <3>2, <3>3
  <2> QED BY <1>1, <1>2, <2>0, <2>3
<1>3. ASSUME ScheduleInv, pc = "joined", NEW c \in Cells
      PROVE  LastWriter(c, N + 1, mem[c])
  <2>0. Sel \subseteq Ops /\ Ops \subseteq Nat /\ N \in Nat /\ \A k \in Ops : k <= N
    BY <1>3, OpsAreNat, ProgramFields DEF ScheduleInv, Types
  <2>1. ended = Sel
    BY <1>3, JoinedMeansEnded
  <2>2. \A j \in Sel : j < N + 1
    <3> TAKE j \in Sel
    <3>1. j \in Nat /\ j <= N
      BY <2>0
    <3> QED BY <2>0, <3>1
  <2> QED BY <1>1, <1>3, <2>0, <2>1, <2>2
<1>4. ScheduleInv => SameAsSequential
  BY <1>2, <1>3 DEF SameAsSequential
<1> QED BY <1>4, ScheduleInvariant, PTL

-----------------------------------------------------------------------------
(* The budget.  What runs at once is on different chains, so that its      *)
(* number is at most the width of each op; an exclusive op runs alone.     *)

\* Kernels keep to mb_sm_budget() where nobody probes them.
BudgetsKept ==
    \A p \in Programs : p.policy = "split" => \A k \in p.sel : p.kind[k] # "greedy"

\* Two ops that run at once are not ordered, hence not of one chain, and none
\* of them is exclusive.
LEMMA RunsAtOnce ==
  ASSUME ScheduleInv, NEW j \in AtOnce, NEW k \in AtOnce, j # k
  PROVE  Unordered(j, k) /\ chain[j] # chain[k] /\ ~ Exclusive(j)
<1>0. /\ j \in Sel /\ k \in Sel /\ j \in Ops /\ k \in Ops /\ j \in Nat /\ k \in Nat
      /\ ended \subseteq Sel /\ Running(j) /\ Running(k)
  BY OpsAreNat, ProgramFields DEF ScheduleInv, Types, AtOnce
<1>1. \A i : Analysed(i) /\ Captured(i)
  BY <1>0 DEF ScheduleInv, Types, Replayed, Running, Analysed, Captured
<1>2. /\ j \notin ended /\ A[j] \subseteq ended /\ deps[j] \subseteq ended
      /\ k \notin ended /\ A[k] \subseteq ended /\ deps[k] \subseteq ended
  BY <1>0 DEF ScheduleInv, Replayed, Resident
<1>3. Unordered(j, k)
  BY <1>2 DEF Unordered
<1>4. chain[j] # chain[k]
  <2>1. CASE j < k
    BY <1>0, <1>1, <1>2, <2>1 DEF ScheduleInv, Chains
  <2>2. CASE k < j
    BY <1>0, <1>1, <1>2, <2>2 DEF ScheduleInv, Chains
  <2> QED BY <1>0, <2>1, <2>2
<1>5. ASSUME Exclusive(j) PROVE FALSE
  <2>1. CASE k < j
    <3>1. k \in Earlier(j) /\ Earlier(j) \subseteq deps[j]
      BY <1>0, <1>1, <1>5, <2>1 DEF ScheduleInv, Apart, Earlier
    <3> QED BY <1>2, <3>1
  <2>2. CASE j < k
    <3>1. j \in deps[k] \/ \E f \in deps[k] : j \in deps[f]
      BY <1>0, <1>1, <1>5, <2>2 DEF ScheduleInv, Apart
    <3>2. PICK f \in deps[k] : j \in deps[f]
      BY <1>2, <3>1
    <3>3. f \in ended /\ f \in Sel
      BY <1>0, <1>2, <3>2
    <3>4. deps[f] \subseteq ended
      BY <3>3 DEF ScheduleInv, Resident
    <3> QED BY <1>2, <3>2, <3>4
  <2> QED BY <1>0, <2>1, <2>2
<1> QED BY <1>3, <1>4, <1>5

\* What runs at once holds an SM each.
LEMMA AtOnceCount ==
  ASSUME ScheduleInv
  PROVE  /\ IsFiniteSet(AtOnce) /\ Cardinality(AtOnce) \in Nat
         /\ Cardinality(AtOnce) <= SMs /\ Cardinality(AtOnce) <= N
<1>0. Sel \subseteq Ops /\ AtOnce \subseteq Ops /\ held \in [Ops -> Nat]
  BY ProgramFields DEF ScheduleInv, Types, AtOnce
<1>1. IsFiniteSet(Ops) /\ Cardinality(Ops) = N
  BY StreamAssumption, FS_Interval DEF Ops
<1>2. IsFiniteSet(AtOnce) /\ Cardinality(AtOnce) <= N /\ Cardinality(AtOnce) \in Nat
  BY <1>0, <1>1, FS_Subset, FS_CardinalityType
<1> DEFINE f == [k \in AtOnce |-> <<k, 1>>]
<1>3. f \in Injection(AtOnce, Owners)
  <2>1. \A k \in AtOnce : <<k, 1>> \in Owners
    BY <1>0, StreamAssumption DEF Owners, AtOnce, Running
  <2> QED BY <2>1 DEF Injection, IsInjective
<1> HIDE DEF f
<1>4. IsFiniteSet(Owners) /\ Cardinality(Owners) \in Nat
  BY OwnersFinite DEF Owners
<1>5. Cardinality(AtOnce) <= Cardinality(Owners)
  BY <1>3, <1>4, FS_Injection
<1> QED BY <1>2, <1>4, <1>5, StreamAssumption DEF ScheduleInv, Resident

\* The width of an op that runs is no less than what runs.
LEMMA WidthCounts ==
  ASSUME ScheduleInv, WithinCap, prog.policy # "none", NEW k \in AtOnce
  PROVE  Width(k) \in Nat /\ Cardinality(AtOnce) <= Width(k)
<1> DEFINE R == AtOnce \ {k}
           C == OtherChains(k)
           f == [j \in R |-> chain[j]]
<1>1. /\ IsFiniteSet(AtOnce) /\ Cardinality(AtOnce) \in Nat
      /\ Cardinality(AtOnce) <= SMs /\ Cardinality(AtOnce) <= N
  BY AtOnceCount
<1>2. IsFiniteSet(R) /\ Cardinality(R) = Cardinality(AtOnce) - 1
  BY <1>1, FS_RemoveElement
<1>3. IsFiniteSet(C) /\ Cardinality(C) \in Nat
  <2>1. \A c \in C : c \in Nat /\ c <= N
    BY ProgramFields DEF OtherChains, ScheduleInv, Types, Lanes
  <2> HIDE DEF C
  <2> QED BY <2>1, OpsAreNat, FS_BoundedSetOfNaturals, FS_CardinalityType
<1>4. f \in Injection(R, C)
  <2>1. \A j \in R : chain[j] \in C
    <3> TAKE j \in R
    <3>1. Unordered(j, k) /\ chain[j] # chain[k] /\ j \in Sel
      BY RunsAtOnce DEF AtOnce
    <3> QED BY <3>1 DEF OtherChains
  <2>2. \A i, j \in R : i # j => chain[i] # chain[j]
    BY RunsAtOnce
  <2> HIDE DEF C, R
  <2> QED BY <2>1, <2>2 DEF Injection, IsInjective
<1>5. Cardinality(R) <= Cardinality(C)
  <2> HIDE DEF C, R, f
  <2> QED BY <1>3, <1>4, FS_Injection
<1>6. Width(k) = IF Cardinality(C) + 1 > WidthCap THEN WidthCap ELSE Cardinality(C) + 1
  BY DEF Width
<1> HIDE DEF C, R
<1> QED BY <1>1, <1>2, <1>3, <1>5, <1>6, StreamAssumption DEF WithinCap

\* An equal share of the SMs, or one each if there are too few.
LEMMA ShareFits ==
  ASSUME NEW s \in Nat \ {0}, NEW w \in Nat \ {0}, NEW r \in Nat, r <= w, r <= s
  PROVE  /\ (IF s < w THEN 1 ELSE s \div w) \in Nat \ {0}
         /\ r * (IF s < w THEN 1 ELSE s \div w) <= s
<1>1. CASE s < w
  BY <1>1
<1>2. CASE s >= w
  <2> DEFINE b == s \div w
  <2>1. b \in Nat /\ w * b <= s /\ s < w * b + w
    BY <1>2
  <2> HIDE DEF b
  <2>2. b # 0
    BY <1>2, <2>1
  <2>3. r * b <= w * b /\ r * b \in Nat /\ w * b \in Nat
    BY <2>1
  <2> QED BY <1>2, <2>1, <2>2, <2>3 DEF b
<1> QED BY <1>1, <1>2

\* What an op needs, as often as there are ops beside it, is there.
LEMMA NeedFits ==
  ASSUME ScheduleInv, WithinCap, BudgetsKept, prog.policy # "none", NEW k \in AtOnce
  PROVE  Need(k) \in Nat /\ Cardinality(AtOnce) * Need(k) <= SMs
<1> DEFINE r == Cardinality(AtOnce)
<1>1. /\ k \in Sel /\ k \in Ops /\ prog \in Programs
      /\ prog.policy \in {"split", "none", "strict"} /\ prog.kind[k] \in Kinds
  BY StreamAssumption, ProgramFields DEF ScheduleInv, Types, AtOnce
<1>2. /\ IsFiniteSet(AtOnce) /\ r \in Nat /\ r <= SMs /\ r # 0
      /\ Width(k) \in Nat /\ r <= Width(k)
  BY AtOnceCount, WidthCounts, FS_EmptySet
<1>3. SMs \in Nat \ {0} /\ Width(k) \in Nat \ {0}
  BY <1>2, StreamAssumption
<1>4. Budget(k) \in Nat \ {0} /\ r * Budget(k) <= SMs
  <2> HIDE DEF r
  <2> QED BY <1>2, <1>3, ShareFits DEF Budget
<1>5. CASE Need(k) <= Budget(k)
  <2>1. Need(k) \in Nat
    BY <1>1, <1>3, <1>4 DEF Need, Kinds
  <2>2. r * Need(k) <= r * Budget(k)
    BY <1>2, <1>4, <1>5, <2>1
  <2>3. r * Need(k) \in Nat /\ r * Budget(k) \in Nat
    BY <1>2, <1>4, <2>1
  <2> QED BY <1>3, <1>4, <2>1, <2>2, <2>3
<1>6. CASE ~ (Need(k) <= Budget(k))
  <2>1. prog.kind[k] = "greedy" /\ Need(k) = SMs
    BY <1>1, <1>4, <1>6 DEF Need, Kinds
  <2>2. prog.policy = "strict"
    BY <1>1, <2>1 DEF BudgetsKept, Sel
  <2>3. Width(k) > 1 => Exclusive(k)
    BY <1>3, <1>4, <1>6, <2>1, <2>2 DEF Exclusive
  <2>4. r = 1
    <3>1. CASE Exclusive(k)
      <4>1. AtOnce = {k}
        BY <3>1, RunsAtOnce
      <4> QED BY <4>1, FS_Singleton
    <3>2. CASE ~ Exclusive(k)
      BY <1>2, <2>3, <3>2
    <3> QED BY <3>1, <3>2
  <2> QED BY <1>3, <2>1, <2>4
<1> QED BY <1>5, <1>6

\* The ops that run at once never need more SMs than there are: each gets all
\* its blocks resident (mb_sm_budget, mb_exclusive), as long as kernels keep to
\* their budget under the split policy and, at that moment, no more ops run than
\* the cap on the width counts.
THEOREM BudgetsFit ==
  ASSUME BudgetsKept
  PROVE  Spec => []NeedsFit
<1>1. ASSUME ScheduleInv, WithinCap, prog.policy # "none" PROVE Cardinality(Needed) <= SMs
  <2> DEFINE r == Cardinality(AtOnce)
  <2>0. Sel \subseteq Ops /\ \A k \in Ops : Running(k) => k \in AtOnce
    BY <1>1, ProgramFields DEF ScheduleInv, Types, Replayed, AtOnce
  <2>1. IsFiniteSet(AtOnce) /\ r \in Nat
    BY <1>1, AtOnceCount
  <2>2. CASE AtOnce = {}
    <3>1. Needed = {}
      BY <2>0, <2>2 DEF Needed
    <3> QED BY <3>1, FS_EmptySet, StreamAssumption
  <2>3. CASE AtOnce # {}
    <3> DEFINE Needs == {Need(k) : k \in AtOnce}
    <3>1. \A m \in Needs : m \in Nat /\ r * m <= SMs /\ m <= SMs
      <4> TAKE m \in Needs
      <4>1. m \in Nat /\ r * m <= SMs
        BY <1>1, NeedFits
      <4>2. r # 0
        BY <2>1, <2>3, FS_EmptySet
      <4>3. m <= r * m /\ r * m \in Nat
        <5> HIDE DEF r, Needs
        <5> QED BY <2>1, <4>1, <4>2
      <4> QED BY <4>1, <4>3, StreamAssumption
    <3>2. PICK m \in Needs : \A x \in Needs : x <= m
      <4>1. Needs # {}
        BY <2>3
      <4> HIDE DEF Needs
      <4> QED BY <3>1, <4>1, HasGreatest, StreamAssumption
    <3>3. Needed \subseteq AtOnce \X (1..m)
      <4>1. \A k \in AtOnce : Need(k) \in Nat /\ Need(k) <= m
        BY <3>1, <3>2
      <4>2. m \in Nat
        BY <3>1, <3>2
      <4> HIDE DEF Needs
      <4>3. ASSUME NEW k \in Ops, NEW i \in 1..SMs, Running(k), i <= Need(k)
            PROVE  k \in AtOnce /\ i \in 1..m
        BY <2>0, <4>1, <4>2, <4>3
      <4> QED BY <4>3 DEF Needed
    <3>4. IsFiniteSet(1..m) /\ Cardinality(1..m) = m
      <4>1. m \in Nat
        BY <3>1, <3>2
      <4> QED BY <4>1, FS_Interval
    <3>5. /\ IsFiniteSet(AtOnce \X (1..m)) /\ Cardinality(AtOnce \X (1..m)) = r * m
      <4> HIDE DEF Needs
      <4> QED BY <2>1, <3>4, FS_Product
    <3>6. Cardinality(Needed) <= r * m /\ IsFiniteSet(Needed)
      BY <3>3, <3>5, FS_Subset
    <3>7. r * m <= SMs /\ r * m \in Nat
      BY <2>1, <3>1, <3>2
    <3> HIDE DEF r, Needs
    <3> QED BY <3>6, <3>7, FS_CardinalityType, StreamAssumption
  <2> QED BY <2>2, <2>3
<1>2. ScheduleInv => NeedsFit
  BY <1>1 DEF NeedsFit
<1> QED BY <1>2, ScheduleInvariant, PTL
=============================================================================
