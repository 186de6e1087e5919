-------------------------- MODULE MCMicrorosHarness --------------------------
(* Every mode of the build, with and without a one-shot network.           *)
EXTENDS MicrorosHarness, TLC

MCBuilds == {[mode |-> m, nets |-> Nets, oneShot |-> o] :
                m \in Modes \ {"single"}, o \in {{}, {"a"}, {"b"}}}
            \cup {[mode |-> m, nets |-> {"a", "b"}, oneShot |-> o] :
                m \in {"node", "single"}, o \in {{}, {"b"}}}

\* b has two dispatches.
MCDispatches == [n \in Nets |-> IF n = "b" THEN 2 ELSE 1]
=============================================================================
