----------------------------- MODULE PoolSlices -----------------------------
(***************************************************************************)
(* How modelblaster_pool_parallelize_1d cuts [0, range) into n contiguous  *)
(* slices: every slice gets range / n indices and the first range % n      *)
(* slices get one more.  Both sides compute it on their own: a helper for  *)
(* its slice number, the master, with s = 0, for slice 0.                  *)
(***************************************************************************)
EXTENDS Integers

\* size_t per, rem
Per(range, n) == range \div n
Rem(range, n) == range % n

\* wid < (int)rem ? wid : (int)rem
Extra(w, range, n) == IF w < Rem(range, n) THEN w ELSE Rem(range, n)

\* An off-by-one a slip of the pen makes: the remainder given to the slices
\* up to and including number rem.
SliceEnd_GreedyRemainder(w, range, n) ==
  w * Per(range, n) + Extra(w, range, n) + Per(range, n)
    + (IF w <= Rem(range, n) THEN 1 ELSE 0)

\* The slice [SliceStart, SliceEnd) of worker w.
SliceStart(w, range, n) == w * Per(range, n) + Extra(w, range, n)

SliceEnd(w, range, n) ==
  SliceStart(w, range, n) + Per(range, n)
    + (IF w < Rem(range, n) THEN 1 ELSE 0)
=============================================================================
