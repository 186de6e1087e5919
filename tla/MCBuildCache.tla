---------------------------- MODULE MCBuildCache ----------------------------
(***************************************************************************)
(* Two workers, one source that compiles and one that does not.  min_age   *)
(* is two units of the clock, and a product is refreshed after one.        *)
(***************************************************************************)
EXTENDS BuildCache

CONSTANTS p1, p2, good, bad

MCWorkers == { p1, p2 }
MCVersions == { good, bad }
MCBad == { bad }
=============================================================================
