--------------------------- MODULE MCXpurtIngest ---------------------------
(***************************************************************************)
(* Schedules of one instance of a three-op model and one single-op model:  *)
(* any ops of the first left out, any start times in 0 .. 1, any time      *)
(* dependencies among the entries; and schedules that are refused.         *)
(***************************************************************************)
EXTENDS XpurtIngest

Op(d, c, ds) == [did |-> d, cost |-> c, deps |-> ds]

\* "a": a view and two consumers, the ids in IR order.
\* "r": 0, then the view 2, then 1: the IR order is not that of the ids.
\* "b": one op.
MCIR == [n \in { "a", "r", "b" } |->
  CASE n = "a" -> << Op(0, "zero", << >>), Op(1, "scalar", << 0 >>),
                     Op(2, "kernel", << 1, 0 >>) >>
    [] n = "r" -> << Op(0, "kernel", << >>), Op(2, "zero", << 0 >>),
                     Op(1, "kernel", << 2 >>) >>
    [] n = "b" -> << Op(0, "kernel", << >>) >>]

MCJobName == [j \in { "a0", "r0", "b0", "x0" } |->
  << CASE j = "a0" -> "a" [] j = "r0" -> "r" [] j = "b0" -> "b" [] j = "x0" -> "x",
     0 >>]

MCCores == [s \in { "CPU_P#0", "CPU_P#1", "CPU_E#0", "CPU_E#1", "CPU_P#2" } |->
  CASE s = "CPU_P#0" -> [kind |-> "rvv", hart |-> 0]
    [] s = "CPU_P#1" -> [kind |-> "rvv", hart |-> 1]
    [] s = "CPU_E#0" -> [kind |-> "scalar", hart |-> 2]
    [] s = "CPU_E#1" -> [kind |-> "scalar", hart |-> -1]
    [] s = "CPU_P#2" -> [kind |-> "rvv", hart |-> 1]]

\* Any fixed order of the keys: here, within a job, the higher id first.
MCRank == [k \in { "a0", "r0", "b0", "x0" } \X (0 .. 3) |->
  (CASE k[1] = "a0" -> 0 [] k[1] = "b0" -> 4 [] k[1] = "r0" -> 8 [] k[1] = "x0" -> 12)
    + 3 - k[2]]

Entry(p, t, ds, td, s) ==
  [pos |-> p, target |-> t, impl |-> "", deps |-> ds, tdep |-> td, start |-> s,
   dur |-> 1, made |-> FALSE]

\* The scheduler's dependencies: the IR's, among the ops it kept.
DepsIn(j, d, keys) ==
  { << j, p >> : p \in ToSet(OpOf(MCJobName[j][1], d).deps) } \cap keys

SchedulesOf(j, ds) ==
  LET keys == ({ j } \X ds) \cup { << "b0", 0 >> }
  IN  { [k \in keys |->
           Entry(IF k[1] = "b0" THEN 0 ELSE k[2] + 1,
                 IF k[1] = "b0" THEN << "CPU_P#0", "CPU_P#1" >> ELSE << "CPU_E#0" >>,
                 DepsIn(k[1], k[2], keys), td[k],
                 IF k[1] = "b0" THEN 1 ELSE s[k[2]])] :
          s \in [ds -> 0 .. 1],
          td \in { f \in [keys -> keys \cup { None }] : \A k \in keys : f[k] # k } }

Single(e) == << "b0", 0 >> :> e
Good == Entry(0, << "CPU_P#0" >>, {}, None, 0)

Refused == {
  << "x0", 0 >> :> Good,
  << "b0", 3 >> :> Good,
  Single([Good EXCEPT !.target = << "CPU_X#0" >>]),
  Single([Good EXCEPT !.target = << >>]),
  Single([Good EXCEPT !.target = << "CPU_P#0", "CPU_E#0" >>]),
  Single([Good EXCEPT !.target = << "CPU_P#1", "CPU_P#2" >>]),
  Single([Good EXCEPT !.target = << "CPU_E#0", "CPU_E#1" >>]),
  Single([Good EXCEPT !.deps = { << "r0", 1 >> }]),
  Single([Good EXCEPT !.deps = { << "b0", 0 >> }]),
  Single([Good EXCEPT !.tdep = << "r0", 1 >>]) }

Accepted == {
  Single([Good EXCEPT !.target = << "CPU_E#1" >>]),
  Single([Good EXCEPT !.impl = "scalar"]) }

MCSchedules ==
  UNION { SchedulesOf(j, ds) : j \in { "a0", "r0" }, ds \in SUBSET (0 .. 2) \ { {} } }
    \cup Refused \cup Accepted

\* The schedule of the comment on time dependencies.  The view 2 between 0
\* and 1 was not scheduled, so 1 was placed first, and 0 waits for it.
Fixture == {
  (<< "r0", 1 >> :> Entry(0, << "CPU_P#0" >>, {}, None, 0))
    @@ (<< "r0", 0 >> :> Entry(1, << "CPU_P#0" >>, {}, << "r0", 1 >>, 1)) }

\* Again without the view 2: it lands after 0, later than its consumer 1,
\* which was placed on another core.
Overtaken == {
  (<< "r0", 0 >> :> Entry(0, << "CPU_P#0" >>, {}, None, 1))
    @@ (<< "r0", 1 >> :> Entry(1, << "CPU_P#1" >>, {}, None, 1)) }
=============================================================================
