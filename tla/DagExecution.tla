---------------------------- MODULE DagExecution ----------------------------
(***************************************************************************)
(* What a run of a dispatch table promises: every entry is executed at     *)
(* most once, after all the entries it waits for, and never while another  *)
(* entry occupies one of its harts; when the run is over, all have been.   *)
(***************************************************************************)
EXTENDS XpurtTable

CONSTANT Tables

VARIABLES table,        \* the table of this run
          running,      \* entries whose kernel is executing
          finished,     \* entries that are complete
          over          \* the run has come to its regular end

dagVars == << table, running, finished, over >>

Init == table \in Tables /\ running = {} /\ finished = {} /\ over = FALSE

Ready(e) ==
  /\ ~over /\ e \in Entries(table) \ (running \cup finished)
  /\ Preds(table, e) \subseteq finished

Start(e) ==
  /\ Ready(e)
  /\ \A f \in running : HartSet(table, e) \cap HartSet(table, f) = {}
  /\ running' = running \cup { e }
  /\ UNCHANGED << table, finished, over >>

Finish(e) ==
  /\ e \in running
  /\ running' = running \ { e }
  /\ finished' = finished \cup { e }
  /\ UNCHANGED << table, over >>

\* An entry without a kernel needs no hart.
Skip(e) ==
  /\ Ready(e)
  /\ finished' = finished \cup { e }
  /\ UNCHANGED << table, running, over >>

\* No entry has been left out.
Return ==
  /\ ~over /\ running = {} /\ finished = Entries(table)
  /\ over' = TRUE
  /\ UNCHANGED << table, running, finished >>

Next == Return \/ \E e \in Entries(table) : Start(e) \/ Finish(e) \/ Skip(e)

Spec == Init /\ [][Next]_dagVars
=============================================================================
