---------------------------- MODULE MCRoundFlow ----------------------------
(* Three hints, the first and the last of which conflict, and one item.    *)
EXTENDS RoundFlow, TLC

CONSTANTS h1, h2, h3, i1

MCRank      == h1 :> 1 @@ h2 :> 2 @@ h3 :> 3
MCConflicts == {{h1, h3}}
=============================================================================
