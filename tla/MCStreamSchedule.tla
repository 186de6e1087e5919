-------------------------- MODULE MCStreamSchedule --------------------------
(* Four ops, any dataflow between them; buffers of their own, or one that  *)
(* is shared in place or reused; one slot or two; a partition that leaves  *)
(* an op out; kernels that keep to their budget, or do not (strict).       *)
EXTENDS StreamSchedule, TLC

MCCells == 0..4
MCSlots == {"s", "t"}

Flows  == {f \in [1..4 -> SUBSET (1..4)] :
             \A k \in 1..4 : f[k] \subseteq 1..k - 1 /\ Cardinality(f[k]) <= 2}
\* Where the output of an op is: cell 0 holds the input of the graph.
Placed == [out : {<<1, 2, 3, 4>>, <<1, 2, 3, 1>>, <<1, 1, 2, 2>>, <<1, 2, 0, 3>>},
           slot : {<<"s", "s", "s", "s">>, <<"s", "t", "t", "s">>},
           sel : {1..4, {1, 3, 4}}]
Styles == {[policy |-> "split",  serial |-> {}, kind |-> <<"sized", "sized", "sized", "sized">>],
           [policy |-> "split",  serial |-> {2}, kind |-> <<"sized", "plain", "sized", "plain">>],
           [policy |-> "strict", serial |-> {}, kind |-> <<"sized", "greedy", "sized", "plain">>],
           [policy |-> "none",   serial |-> {}, kind |-> <<"plain", "sized", "plain", "plain">>]}

MCPrograms ==
    {[policy |-> y.policy, sel |-> b.sel, ins |-> f,
      rd |-> [k \in 1..4 |-> IF f[k] = {} THEN {0} ELSE {b.out[j] : j \in f[k]}],
      wr |-> [k \in 1..4 |-> {b.out[k]}],
      serial |-> y.serial, slot |-> b.slot, kind |-> y.kind] :
        y \in Styles, b \in Placed, f \in Flows}
=============================================================================
