------------------------ MODULE MCModelblasterPool ------------------------
(***************************************************************************)
(* Small pools: up to four workers, harts that are valid, duplicated,     *)
(* negative, too many or none at all.                                      *)
(***************************************************************************)
EXTENDS ModelblasterPool

MCHartLists == { << >>, << 0 >>, << 1, 0 >>, << 2, 0, 1 >>, << 3, 1, 2, 0 >>,
                 << 1, 1 >>, << 0, -1 >>, << 0, 1, 2, 3, 4 >> }
=============================================================================
