----------------------------- MODULE MCHintWave -----------------------------
(* A small wave: two hints, more than its GPUs when there is but one.       *)
EXTENDS HintWave

MCWays == {"own", "eval", "off"}

\* Two GPUs, one of them another user's, and a pool so small that hints wait.
MCPools == {[gpus |-> {0, 1}, unlocked |-> {1}, attempts |-> 1],
            [gpus |-> {0}, unlocked |-> {}, attempts |-> 2]}
=============================================================================
