---------------------------- MODULE ParallelFor ----------------------------
(***************************************************************************)
(* What a caller of modelblaster_pool_parallelize_1d is promised: between  *)
(* the call and its return, fn(ctx, i) is invoked exactly once for every   *)
(* i in [0, range), in any order, and never outside a call.                *)
(***************************************************************************)
EXTENDS Naturals

CONSTANT MaxRange           \* indices the model tells apart

VARIABLES busy,             \* is a call in progress?
          range,            \* its last argument
          count             \* invocations of fn per index since the call

pfVars == << busy, range, count >>

Index == 0 .. MaxRange - 1
None  == [i \in Index |-> 0]

Init == busy = FALSE /\ range = 0 /\ count = None

\* An empty range is a call that returns at once.
Call(r) ==
  /\ ~busy
  /\ busy' = (r > 0)
  /\ range' = r
  /\ count' = None

Exec(i) ==
  /\ busy
  /\ i < range
  /\ count[i] = 0
  /\ count' = [count EXCEPT ![i] = 1]
  /\ UNCHANGED << busy, range >>

Return ==
  /\ busy
  /\ \A i \in Index : i < range => count[i] = 1
  /\ busy' = FALSE
  /\ UNCHANGED << range, count >>

Next == \/ \E r \in 0 .. MaxRange : Call(r)
        \/ \E i \in Index : Exec(i)
        \/ Return

Spec == Init /\ [][Next]_pfVars
=============================================================================
