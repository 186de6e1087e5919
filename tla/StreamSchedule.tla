--------------------------- MODULE StreamSchedule ---------------------------
(***************************************************************************)
(* Concurrent branches in the walker's CUDA graph                          *)
(* (src/pipeline/kb_concurrency.py): the order of a partition's ops is     *)
(* computed from dataflow and buffer hazards, the ops are captured one by  *)
(* one with the dependencies that this order leaves, and the graph is      *)
(* replayed by a GPU that runs whatever is ready.                          *)
(*                                                                         *)
(* A byte range is a set of cells; an op is one node of the graph.  A      *)
(* kernel that synchronises its blocks needs them all resident at once: it *)
(* takes one SM after the other and ends when it has all it needs.         *)
(***************************************************************************)
EXTENDS Integers, FiniteSets

CONSTANTS
    N,            \* ops of the whole graph, numbered in IR order
    Cells, Slots,
    SMs,          \* of the device
    WidthCap,     \* the cap on an op's width (32)
    Programs      \* the graphs and partitions considered

Ops   == 1..N
Kinds == {"plain",      \* does not synchronise its blocks
          "sized",      \* sizes its grid with mb_sm_budget()
          "greedy"}     \* fills the device, whatever its budget

ASSUME StreamAssumption ==
    /\ N \in Nat /\ SMs \in Nat \ {0} /\ WidthCap \in Nat \ {0}
    /\ Programs \subseteq
         [policy : {"split", "none", "strict"},
          sel : SUBSET Ops,                  \* the partition
          ins : [Ops -> SUBSET Ops],         \* the producers of the inputs
          rd : [Ops -> SUBSET Cells],
          wr : [Ops -> SUBSET Cells],        \* outputs and fused scratch
          serial : SUBSET Ops,               \* never beside another op
          slot : [Ops -> Slots], kind : [Ops -> Kinds]]
    /\ \A p \in Programs : \A k \in Ops : \A j \in p.ins[k] : j < k

VARIABLES
    prog,          \* the graph, the partition, the policy
    pc,            \* "analyze", "capture", "replay", "joined"
    op,            \* the op the loop has come to
    anc,           \* ancestors by dataflow, in the whole graph
    A,             \* ancestors in the partition, hazards included
    lane, chain,
    deps,          \* the edges of the captured graph
    barrier,       \* the last op that was captured as exclusive
    held,          \* SMs an op holds
    ended,
    mem            \* who wrote a cell last

analysis == <<anc, A, lane, chain>>
graph    == <<deps, barrier>>
gpu      == <<held, ended, mem>>
vars     == <<prog, pc, op, analysis, graph, gpu>>

Sel == prog.sel

Init ==
    /\ prog \in Programs
    /\ pc = "analyze" /\ op = 1
    /\ anc = [k \in Ops |-> {}] /\ A = [k \in Ops |-> {}]
    /\ lane = [k \in Ops |-> 0] /\ chain = [k \in Ops |-> 0]
    /\ deps = [k \in Ops |-> {}] /\ barrier = {}
    /\ held = [k \in Ops |-> 0] /\ ended = {} /\ mem = [c \in Cells |-> 0]

-----------------------------------------------------------------------------
(* The analysis: one op after the other, in IR order.  The loops of        *)
(* schedule() are run as one: each uses what is final for earlier ops.     *)

Conflict_NoAntiDep(j, k) == prog.wr[j] \cap (prog.rd[k] \cup prog.wr[k]) # {}
Conflict(j, k) == \/ j \in prog.serial \/ k \in prog.serial
                  \/ prog.wr[j] \cap (prog.rd[k] \cup prog.wr[k]) # {}
                  \/ prog.rd[j] \cap prog.wr[k] # {}

Earlier(k) == {j \in Sel : j < k}

Flow(k)   == UNION {{p} \cup anc[p] : p \in prog.ins[k]}
Direct(k) == (Flow(k) \cap Sel) \cup {j \in Earlier(k) : Conflict(j, k)}
Before(k) == UNION {{j} \cup A[j] : j \in Direct(k)}

\* Instances of one slot that may overlap get different copies.
Taken_Last(k) == {lane[j] : j \in {i \in Earlier(k) \ Before(k) :
                     prog.slot[i] = prog.slot[k] /\ \A x \in Earlier(k) : x <= i}}
Taken(k)  == {lane[j] : j \in {i \in Earlier(k) \ Before(k) :
                                 prog.slot[i] = prog.slot[k]}}
Lane(k)   == CHOOSE x \in 0..k : x \notin Taken(k) /\ \A y \in 0..x - 1 : y \in Taken(k)

\* The chain with the greatest number whose last op comes before k, or a
\* new one.
LastOf(c, k)  == {j \in Earlier(k) : chain[j] = c /\ \A i \in Earlier(k) :
                                       chain[i] = c => i <= j}
ChainsOf(k)   == {chain[j] : j \in Earlier(k)}
Extends(k)    == {c \in ChainsOf(k) : LastOf(c, k) \cap Before(k) # {}}
Chain(k)      == IF Extends(k) = {} THEN Cardinality(ChainsOf(k)) + 1
                 ELSE CHOOSE c \in Extends(k) : \A d \in Extends(k) : d <= c

\* The loop goes on, or the next phase begins.
Advance(next) == IF op = N THEN pc' = next /\ op' = 1 ELSE pc' = pc /\ op' = op + 1

Analyze ==
    /\ pc = "analyze" /\ op \in Ops
    /\ anc' = [anc EXCEPT ![op] = Flow(op)]
    /\ IF op \in Sel
       THEN /\ A' = [A EXCEPT ![op] = Before(op)]
            /\ lane' = [lane EXCEPT ![op] = Lane(op)]
            /\ chain' = [chain EXCEPT ![op] = Chain(op)]
       ELSE UNCHANGED <<A, lane, chain>>
    /\ Advance("capture")
    /\ UNCHANGED <<prog, graph, gpu>>

-----------------------------------------------------------------------------
(* What the analysis leaves to the export.                                 *)

Unordered(j, k) == j # k /\ j \notin A[k] /\ k \notin A[j]

\* Direct predecessors: the transitive reduction.
Preds(k) == A[k] \ UNION {A[j] : j \in A[k]}

\* One more than the other chains the op may overlap.
OtherChains(k) == {chain[j] : j \in {i \in Sel : Unordered(i, k) /\ chain[i] # chain[k]}}
Width(k) ==
    IF prog.policy = "none" THEN 1
    ELSE LET w == Cardinality(OtherChains(k)) + 1 IN IF w > WidthCap THEN WidthCap ELSE w

\* mb_sm_budget(), while the op is issued.
Budget_Whole(k) == SMs
Budget(k) == IF SMs < Width(k) THEN 1 ELSE SMs \div Width(k)

\* The SMs that have to be held at the same time for the op to end.
Need(k) == CASE prog.kind[k] = "plain"  -> 1
             [] prog.kind[k] = "sized"  -> Budget(k)
             [] prog.kind[k] = "greedy" -> SMs

-----------------------------------------------------------------------------
(* The capture.  Under the strict policy an op is probed: one that needs   *)
(* more than its budget is ordered after all before, before all after it.  *)

Exclusive(k) == prog.policy = "strict" /\ Width(k) > 1 /\ Need(k) > Budget(k)

NextBarrier_Never(k) == barrier
NextBarrier(k) == IF Exclusive(k) THEN {k} ELSE barrier

Capture ==
    /\ pc = "capture" /\ op \in Ops
    /\ IF op \in Sel
       THEN /\ deps' = [deps EXCEPT ![op] =
                          Preds(op) \cup barrier \cup
                          IF Exclusive(op) THEN Earlier(op) ELSE {}]
            /\ barrier' = NextBarrier(op)
       ELSE UNCHANGED graph
    /\ Advance("replay")
    /\ UNCHANGED <<prog, analysis, gpu>>

\* The stream goes on when every branch that nothing follows has ended.
Final == {k \in Sel : \A s \in Sel : k \notin Preds(s)}

-----------------------------------------------------------------------------
(* The replay: the GPU places what is ready, block by block.               *)

Running(k) == held[k] > 0
Owners     == {x \in Ops \X (1..SMs) : x[2] <= held[x[1]]}
Free       == SMs - Cardinality(Owners)

Place(k) ==
    /\ pc = "replay" /\ k \in Sel \ ended
    /\ deps[k] \subseteq ended
    /\ held[k] < Need(k) /\ Free > 0
    /\ held' = [held EXCEPT ![k] = @ + 1]
    /\ UNCHANGED <<prog, pc, op, analysis, graph, ended, mem>>

End(k) ==
    /\ pc = "replay" /\ k \in Sel \ ended
    /\ Running(k) /\ held[k] = Need(k)
    /\ held' = [held EXCEPT ![k] = 0]
    /\ ended' = ended \cup {k}
    /\ mem' = [c \in Cells |-> IF c \in prog.wr[k] THEN k ELSE mem[c]]
    /\ UNCHANGED <<prog, pc, op, analysis, graph>>

Join ==
    /\ pc = "replay" /\ Final \subseteq ended
    /\ pc' = "joined"
    /\ UNCHANGED <<prog, op, analysis, graph, gpu>>

Next == Analyze \/ Capture \/ Join \/ \E k \in Ops : Place(k) \/ End(k)

\* The export and the GPU keep working.
Spec == Init /\ [][Next]_vars /\ WF_vars(Next)

-----------------------------------------------------------------------------
(* Properties.                                                             *)

\* The variables' types; an op only waits for earlier ops of the partition.
StreamTypeOK ==
    /\ pc \in {"analyze", "capture", "replay", "joined"}
    /\ op \in Nat
    /\ anc \in [Ops -> SUBSET Ops] /\ A \in [Ops -> SUBSET Ops]
    /\ deps \in [Ops -> SUBSET Ops]
    /\ \A k \in Ops : A[k] \cup deps[k] \subseteq {j \in Sel : j < k}
    /\ lane \in [Ops -> Nat] /\ chain \in [Ops -> Nat]
    /\ barrier \subseteq Sel /\ held \in [Ops -> Nat]
    /\ ended \subseteq Sel /\ mem \in [Cells -> Ops \cup {0}]

\* Who wrote the cell last when the ops run one after the other.
Writers(c, k) == {j \in Sel : j < k /\ c \in prog.wr[j]}
LastWriter(c, k, w) == /\ Writers(c, k) = {} => w = 0
                       /\ Writers(c, k) # {} =>
                            w \in Writers(c, k) /\ \A j \in Writers(c, k) : j <= w

\* However the GPU interleaves the ops, each finds in what it reads what it
\* would find if the walker launched them one after the other, while it
\* runs; and so does the code after the join (schedule, mb_conc_launch).
SameAsSequential ==
    /\ \A k \in Sel : Running(k) => \A c \in prog.rd[k] : LastWriter(c, k, mem[c])
    /\ pc = "joined" => \A c \in Cells : LastWriter(c, N + 1, mem[c])

\* Two instances of a slot that run at the same time run on different
\* lanes: they do not share the slot's static scratch.
LanesApart ==
    \A j, k \in Sel :
        Running(j) /\ Running(k) /\ j # k /\ prog.slot[j] = prog.slot[k]
            => lane[j] # lane[k]

\* Where no more ops run at the same time than the cap on the width counts.
AtOnce    == {k \in Sel : Running(k)}
WithinCap == Cardinality(AtOnce) <= WidthCap

\* The ops that run at the same time need no more SMs than there are, unless
\* there is no budget, or more ops run than the cap on the width counts: each
\* gets all its blocks resident, an op that takes the device runs alone.
Needed == {x \in Ops \X (1..SMs) : Running(x[1]) /\ x[2] <= Need(x[1])}
NeedsFit == prog.policy # "none" /\ WithinCap => Cardinality(Needed) <= SMs

\* Unless there is no budget, or more ops than the cap counts come to run at
\* the same time, the replay ends: no set of kernels holds all SMs while each
\* of them waits for more.
ReplayFinishes == <>(pc = "joined" \/ prog.policy = "none" \/ ~ WithinCap)
=============================================================================
