---------------------------- MODULE XpurtIngest ----------------------------
(***************************************************************************)
(* pipeline/ingest_xpurt_schedule.py, load(): from a schedule to the       *)
(* dispatch table.  It adds the IR ops the scheduler left out, admits the  *)
(* time dependencies that close no cycle, sorts topologically by start     *)
(* time, turns keys into entry ids, and counts every entry's consumers.    *)
(* A step is one pass of the loop the code is in.                          *)
(***************************************************************************)
EXTENDS XpurtTable, SequencesExt

CONSTANTS
  Schedules,    \* the schedules tried: functions from keys to entries
  JobName,      \* a job's network and instance, as _split_job_name finds it
  IR,           \* a network's ops, in IR order: [did, cost, deps]
  Cores,        \* a machine slot's core kind and hart (-1: none bound)
  ScalarCore,   \* "CPU_E#0", where synthesized scalar-FP ops are put
  Impls,        \* the implementations a schedule may ask for ("": none)
  Rank          \* place of a key in lexicographic order

\* A key is << job, did >>.  An entry of a schedule has the fields pos (place
\* in the file), target (its machine slots), impl, deps (a set of
\* keys), tdep (a key or None), start, dur and made (synthesized?).
None     == << >>
AllKeys  == DOMAIN Rank
RawEntry == [pos : Nat, target : Seq(STRING), impl : Impls, deps : SUBSET AllKeys,
             tdep : AllKeys \cup { None }, start : Nat, dur : Nat, made : BOOLEAN]

VARIABLES
  raw,          \* the schedule, completed as ingest goes
  phase, why,   \* the loop it is in; the error that ended it
  jobs,         \* jobs that completion has still to look at
  todo,         \* keys whose time dependency has still to be looked at
  edges,        \* adj: << p, k >> when k comes after p
  dropped,      \* keys whose time dependency was dropped
  order,        \* sorted_keys
  table         \* entries

vars == << raw, phase, why, jobs, todo, edges, dropped, order, table >>

Keys == DOMAIN raw
Net(j)  == JobName[j][1]
Inst(j) == JobName[j][2]
Known(j) == Net(j) \in DOMAIN IR
Dids(n) == { op.did : op \in ToSet(IR[n]) }
OpOf(n, d) == CHOOSE op \in ToSet(IR[n]) : op.did = d

\* An op's id is its own, and its producers are ops of the network.
ASSUME IngestAssumption ==
  /\ \A n \in DOMAIN IR :
       /\ IR[n] \in Seq([did : Nat, cost : STRING, deps : Seq(Nat)])
       /\ \A x \in DOMAIN IR[n] :
            /\ ToSet(IR[n][x].deps) \subseteq Dids(n)
            /\ \A y \in DOMAIN IR[n] : IR[n][x].did = IR[n][y].did => x = y
  /\ \A k \in AllKeys :
       k = << k[1], k[2] >> /\ k[1] \in DOMAIN JobName /\ k[2] \in Nat /\ Rank[k] \in Nat
  /\ \A j \in DOMAIN JobName : Known(j) => { j } \X Dids(Net(j)) \subseteq AllKeys
  /\ \A x \in DOMAIN Cores : Cores[x].hart \in Int
  /\ ScalarCore \in STRING /\ "" \in Impls
  /\ \A s \in Schedules :
       /\ IsFiniteSet(DOMAIN s) /\ DOMAIN s \subseteq AllKeys /\ s \in [DOMAIN s -> RawEntry]
       /\ \A k \in DOMAIN s : ~ s[k].made

\* network_remap: its place among the ops that cost something, or -1.
Remap_Identity(n, d) == IF OpOf(n, d).cost = "zero" THEN -1 ELSE d

Remap(n, d) ==
  LET at == CHOOSE x \in DOMAIN IR[n] : IR[n][x].did = d
  IN  IF IR[n][at].cost = "zero" THEN -1
      ELSE Cardinality({ x \in 1 .. at - 1 : IR[n][x].cost # "zero" })

OpCount(n) == Cardinality({ x \in DOMAIN IR[n] : IR[n][x].cost # "zero" })

Init ==
  /\ raw \in Schedules
  /\ phase = "complete" /\ why = "none"
  /\ jobs = { k[1] : k \in DOMAIN raw }
  /\ todo = {} /\ edges = {} /\ dropped = {}
  /\ order = << >> /\ table = << >>

(***************************************************************************)
(* IR completion: the jobs in the order of their first entries, each job's *)
(* missing ops in the order of their ids.                                  *)
(***************************************************************************)
First(j) == CHOOSE k \in Keys : k[1] = j
              /\ \A l \in Keys : l[1] = j => raw[k].pos <= raw[l].pos

NextJob == CHOOSE j \in jobs : \A l \in jobs : raw[First(j)].pos <= raw[First(l)].pos

Missing(j) ==
  IF Known(j) THEN { d \in Dids(Net(j)) : << j, d >> \notin Keys } ELSE {}

\* Where, among the op's producers, those are that are scheduled by now.
Scheduled(j, op) == { x \in DOMAIN op.deps : << j, op.deps[x] >> \in Keys }

\* It follows what it takes its input from, on the core of the first of them;
\* without any it begins when and where its job does.
Synthesized(j, op) ==
  LET at   == Scheduled(j, op)
      from == IF at # {} THEN << j, op.deps[Min(at)] >> ELSE First(j)
      ends == { raw[<< j, op.deps[x] >>].start + raw[<< j, op.deps[x] >>].dur : x \in at }
  IN  [pos    |-> Cardinality(Keys),
       target |-> IF op.cost = "scalar" THEN << ScalarCore >> ELSE raw[from].target,
       impl   |-> "",
       deps   |-> { << j, op.deps[x] >> : x \in at },
       tdep   |-> None,
       start  |-> IF at # {} THEN Max(ends) ELSE raw[from].start,
       dur    |-> 0,
       made   |-> TRUE]

Synthesize ==
  /\ phase = "complete" /\ jobs # {} /\ Missing(NextJob) # {}
  /\ LET j == NextJob
         d == Min(Missing(j))
     IN  raw' = [k \in Keys \cup { << j, d >> } |->
                   IF k = << j, d >> THEN Synthesized(j, OpOf(Net(j), d)) ELSE raw[k]]
  /\ UNCHANGED << phase, why, jobs, todo, edges, dropped, order, table >>

\* The synthesized producers of entry k.
MadeFor(k) ==
  { << k[1], d >> : d \in { p \in ToSet(OpOf(Net(k[1]), k[2]).deps) :
                              << k[1], p >> \in Keys /\ raw[<< k[1], p >>].made } }

\* Threads them into none but the synthesized entries.
Thread_MadeOnly(j) ==
  [k \in Keys |->
     IF k[1] = j /\ Known(j) /\ k[2] \in Dids(Net(j)) /\ raw[k].made
       THEN [raw[k] EXCEPT !.deps = @ \cup MadeFor(k)] ELSE raw[k]]

\* The schedule with the job's synthesized ops among the dependencies of
\* every consumer.
Thread(j) ==
  [k \in Keys |->
     IF k[1] = j /\ Known(j) /\ k[2] \in Dids(Net(j))
       THEN [raw[k] EXCEPT !.deps = @ \cup MadeFor(k)] ELSE raw[k]]

ThreadJob ==
  /\ phase = "complete" /\ jobs # {} /\ Missing(NextJob) = {}
  /\ raw' = Thread(NextJob)
  /\ jobs' = jobs \ { NextJob }
  /\ UNCHANGED << phase, why, todo, edges, dropped, order, table >>

(***************************************************************************)
(* The graph: data dependencies first, then, in key order, the time        *)
(* dependencies that close no cycle.                                       *)
(***************************************************************************)

DataEdges == UNION { { << d, k >> : d \in raw[k].deps \cap Keys } : k \in Keys }

BuildGraph ==
  /\ phase = "complete" /\ jobs = {}
  /\ phase' = "admit"
  /\ edges' = DataEdges
  /\ todo' = { k \in Keys : raw[k].tdep \in Keys }
  /\ UNCHANGED << raw, why, jobs, dropped, order, table >>

\* Looks one edge far.
Reaches_Direct(src, dst) == src = dst \/ << src, dst >> \in edges

\* What holds src and is closed under the edges holds dst.
Reaches(src, dst) ==
  \A S \in SUBSET Keys :
    src \in S /\ (\A e \in edges : e[1] \in S => e[2] \in S) => dst \in S

AdmitTimeDep ==
  /\ phase = "admit" /\ todo # {}
  /\ LET k == CHOOSE x \in todo : \A y \in todo : Rank[x] <= Rank[y]
         t == raw[k].tdep
     IN  /\ todo' = todo \ { k }
         /\ IF Reaches(k, t)
              THEN dropped' = dropped \cup { k } /\ UNCHANGED edges
              ELSE edges' = edges \cup { << t, k >> } /\ UNCHANGED dropped
  /\ UNCHANGED << raw, phase, why, jobs, order, table >>

(***************************************************************************)
(* Kahn's algorithm with a heap on (start, key).                           *)
(***************************************************************************)
Placed == ToSet(order)

\* Counts only the data dependencies of an entry.
Heap_DataOnly == { k \in Keys \ Placed : raw[k].deps \cap Keys \subseteq Placed }

Heap == { k \in Keys \ Placed : \A p \in Keys : << p, k >> \in edges => p \in Placed }

Before(k, l) ==
  raw[k].start < raw[l].start \/ (raw[k].start = raw[l].start /\ Rank[k] <= Rank[l])

Pop ==
  /\ \/ phase = "admit" /\ todo = {}
     \/ phase = "sort"
  /\ Heap # {}
  /\ phase' = "sort"
  /\ order' = Append(order, CHOOSE k \in Heap : \A l \in Heap : Before(k, l))
  /\ UNCHANGED << raw, why, jobs, todo, edges, dropped, table >>

Sorted ==
  /\ \/ phase = "admit" /\ todo = {}
     \/ phase = "sort"
  /\ Heap = {}
  /\ IF Placed = Keys THEN phase' = "emit" /\ UNCHANGED why
                      ELSE phase' = "error" /\ why' = "cycle"
  /\ UNCHANGED << raw, jobs, todo, edges, dropped, order, table >>

(***************************************************************************)
(* Entries, in that order.                                                 *)
(***************************************************************************)
Id(k) == (CHOOSE n \in DOMAIN order : order[n] = k) - 1

\* _resolve_targets raises unless this holds.
Resolvable(slots) ==
  /\ slots # << >>
  /\ ToSet(slots) \subseteq DOMAIN Cores
  /\ \A x, y \in DOMAIN slots :
       /\ Cores[slots[x]].kind = Cores[slots[y]].kind
       /\ x # y => Cores[slots[x]].hart # Cores[slots[y]].hart
  /\ Len(slots) > 1 => \A x \in DOMAIN slots : Cores[slots[x]].hart >= 0

Fault(k, id) ==
  IF ~Known(k[1]) THEN "network"
  ELSE IF k[2] \notin Dids(Net(k[1])) THEN "dispatch"
  ELSE IF ~Resolvable(raw[k].target) THEN "target"
  ELSE IF ~ raw[k].deps \subseteq Keys THEN "dep"
  ELSE IF \E d \in raw[k].deps : Id(d) >= id THEN "forward dep"
  ELSE IF raw[k].tdep \notin Keys \cup { None } THEN "time_dep"
  ELSE IF raw[k].tdep # None /\ Id(raw[k].tdep) >= id THEN "forward time_dep"
  ELSE "ok"

\* sorted(set(...)).
Ascending(S) ==
  [x \in 1 .. Cardinality(S) |->
     CHOOSE n \in S : Cardinality({ m \in S : m < n }) = x - 1]

EntryOf(k) ==
  LET kind == Cores[raw[k].target[1]].kind
  IN  [net    |-> Net(k[1]),
       inst   |-> Inst(k[1]),
       disp   |-> Remap(Net(k[1]), k[2]),
       kind   |-> kind,
       impl   |-> IF raw[k].impl = "" THEN kind ELSE raw[k].impl,
       harts  |-> [x \in DOMAIN raw[k].target |-> Cores[raw[k].target[x]].hart],
       deps   |-> Ascending({ Id(d) : d \in raw[k].deps }),
       tdep   |-> IF raw[k].tdep = None THEN -1 ELSE Id(raw[k].tdep),
       fanout |-> 0,
       start  |-> raw[k].start]

EmitEntry ==
  LET id == Cardinality(DOMAIN table)
  IN  /\ phase = "emit"
      /\ id < Len(order)
      /\ LET k == order[id + 1]
         IN  IF Fault(k, id) = "ok"
               THEN /\ table' = [e \in 0 .. id |-> IF e = id THEN EntryOf(k) ELSE table[e]]
                    /\ UNCHANGED << phase, why >>
               ELSE phase' = "error" /\ why' = Fault(k, id) /\ UNCHANGED table
      /\ UNCHANGED << raw, jobs, todo, edges, dropped, order >>

\* One per edge, a data and a time dependency on the same entry apart.
Fanout_PerEdge(e) ==
  Cardinality({ c \in DOMAIN table : e \in ToSet(table[c].deps) })
    + Cardinality({ c \in DOMAIN table : table[c].tdep = e })

\* sorted(set(...)): one per consumer.
Fanout(e) ==
  Cardinality({ c \in DOMAIN table : e \in ToSet(table[c].deps) \/ table[c].tdep = e })

CountFanout ==
  /\ phase = "emit"
  /\ Cardinality(DOMAIN table) = Len(order)
  /\ table' = [e \in DOMAIN table |-> [table[e] EXCEPT !.fanout = Fanout(e)]]
  /\ phase' = "done"
  /\ UNCHANGED << raw, why, jobs, todo, edges, dropped, order >>

Next == \/ Synthesize \/ ThreadJob \/ BuildGraph \/ AdmitTimeDep \/ Pop
        \/ Sorted \/ EmitEntry \/ CountFanout

Spec == Init /\ [][Next]_vars

-----------------------------------------------------------------------------
\* The table has the shape the walker's deadlock-freedom argument needs:
\* edges strictly backward, "1-give = 1-take for every unique (producer,
\* consumer) edge", and no hart reserved twice by one entry.
EmittedTableWellFormed ==
  phase = "done" => /\ BackwardEdges(table)
                    /\ BalancedEdges(table)
                    /\ DistinctHarts(table)

\* Every instance has each index of its dispatch function table exactly once,
\* so that the walker's completion count reaches MODEL_<net>_OP_COUNT and no
\* index reads past the end of the function table.
EveryDispatchOnce ==
  phase = "done" =>
    \A j \in { k[1] : k \in Keys } :
      LET mine == { e \in DOMAIN table : table[e].net = Net(j)
                      /\ table[e].inst = Inst(j) /\ table[e].disp >= 0 }
      IN  /\ { table[e].disp : e \in mine } = 0 .. OpCount(Net(j)) - 1
          /\ Cardinality(mine) = OpCount(Net(j))

\* In any set of entries there is one that no other of them comes before.
Acyclic(E) ==
  \A S \in SUBSET Keys \ { {} } : \E k \in S : \A l \in S : << l, k >> \notin E

\* "The data deps still force every real ordering": when the completed data
\* dependencies are acyclic, no time dependency makes the graph unsortable or
\* turns a data dependency around.
DataDepsAlwaysSort ==
  (why \in { "cycle", "forward dep" })
    => ~ Acyclic(DataEdges)

\* Buffers are chained through the synthesized ops: the table orders every
\* IR edge that begins or ends at one.
SynthesizedOpsChained ==
  phase = "done" =>
    \A k \in Keys : \A d \in ToSet(OpOf(Net(k[1]), k[2]).deps) :
      (raw[k].made \/ raw[<< k[1], d >>].made)
        => Id(<< k[1], d >>) \in Preds(table, Id(k))

\* A time dependency that was admitted never fails the ingest.
AdmittedTimeDepsHold ==
  why = "forward time_dep" => order[Cardinality(DOMAIN table) + 1] \in dropped

\* "Dropping an ordering hint costs nothing correctness-wise": nor does one
\* that was dropped.
DroppedTimeDepsHarmless == why # "forward time_dep"
=============================================================================
