----------------------------- MODULE XpurtTable -----------------------------
(***************************************************************************)
(* The dispatch table that pipeline/ingest_xpurt_schedule.py writes and    *)
(* the generated walker runs.  A table t is a function from entry ids to   *)
(* records                                                                 *)
(*   net, inst   the model and which of its periodic instances             *)
(*   disp        index in the dispatch function table, -1: zero-cost op    *)
(*   kind, impl  core kind that runs it, implementation it asks for        *)
(*   harts       the harts it reserves, its owner's first; <<-1>>: unbound *)
(*   deps, tdep  data dependencies, and the time dependency (or -1)        *)
(*   fanout      how often its completion semaphore is given               *)
(*   start       earliest start                                            *)
(***************************************************************************)
EXTENDS Integers, Sequences, FiniteSets, Functions

Entries(t) == DOMAIN t

\* The columns' types.
IsTable(t) ==
  /\ IsFiniteSet(Entries(t)) /\ Entries(t) \subseteq Nat
  /\ \A e \in Entries(t) :
       /\ t[e].harts \in Seq(Int) \ { << >> }
       /\ t[e].deps \in Seq(Entries(t)) /\ t[e].tdep \in Entries(t) \cup { -1 }
       /\ t[e].disp \in Int /\ t[e].fanout \in Nat /\ t[e].start \in Nat

HartSet(t, e) == Range(t[e].harts)
Hart(t, e) == t[e].harts[1]

\* Without the test for a time dependency that is a data dependency too.
TakeSeq_NoDedup(t, e) ==
  IF t[e].tdep >= 0 THEN Append(t[e].deps, t[e].tdep) ELSE t[e].deps

\* Without the time dependency.
TakeSeq_DataOnly(t, e) == t[e].deps

\* The semaphores entry e takes, in order: its data dependencies, then its
\* time dependency unless that is one of them.
TakeSeq(t, e) ==
  IF t[e].tdep >= 0 /\ t[e].tdep \notin Range(t[e].deps)
    THEN Append(t[e].deps, t[e].tdep)
    ELSE t[e].deps

\* The entries e waits for, and the entries that wait for e.
Preds(t, e) == Range(t[e].deps) \cup ({ t[e].tdep } \ { -1 })

Consumers(t, e) == { c \in Entries(t) : e \in Preds(t, c) }

(***************************************************************************)
(* What the walker relies on: edges point strictly backward, a producer    *)
(* gives its semaphore once per consumer and a consumer takes it once, the *)
(* semaphore has room for all the gives, and no hart is reserved twice.    *)
(***************************************************************************)
BackwardEdges(t) == \A e \in Entries(t) : \A p \in Preds(t, e) : p \in 0 .. e - 1

BalancedEdges(t) == \A e \in Entries(t) :
  /\ IsInjective(t[e].deps)
  /\ t[e].fanout = Cardinality(Consumers(t, e))

Roomy(t, semLimit) == \A e \in Entries(t) : t[e].fanout <= semLimit

DistinctHarts(t) == \A e \in Entries(t) :
  t[e].harts # << >> /\ IsInjective(t[e].harts)

WellFormed(t, semLimit) ==
  BackwardEdges(t) /\ BalancedEdges(t) /\ Roomy(t, semLimit) /\ DistinctHarts(t)
=============================================================================
