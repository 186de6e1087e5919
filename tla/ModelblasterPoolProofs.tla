----------------------- MODULE ModelblasterPoolProofs -----------------------
EXTENDS ModelblasterPool, TLAPS

\* Euclidean division, on which the slice arithmetic rests.
LEMMA Euclid ==
  ASSUME NEW a \in Nat, NEW k \in Nat \ {0}
  PROVE  /\ a \div k \in Nat
         /\ a % k \in 0 .. k - 1
         /\ a = k * (a \div k) + (a % k)
<1>1. a \div k \in Int /\ a % k \in 0 .. k - 1
  OBVIOUS
<1>2. a = k * (a \div k) + (a % k)
  OBVIOUS
<1>3. a \div k >= 0
  BY <1>1, <1>2
<1> QED BY <1>1, <1>2, <1>3

\* The division and the remainder the slices are computed from.
LEMMA DivMod ==
  ASSUME NEW range \in Nat, NEW n \in Nat \ {0}
  PROVE  /\ Per(range, n) \in Nat
         /\ Rem(range, n) \in 0 .. n - 1
         /\ range = n * Per(range, n) + Rem(range, n)
BY Euclid DEF Per, Rem

\* A product grows with its first factor: what orders the slices.
LEMMA Monotone ==
  ASSUME NEW p \in Nat, NEW v \in Nat, NEW u \in Nat, v < u
  PROVE  v * p + p <= u * p
<1>1. u >= v + 1
  OBVIOUS
<1>2. (u - (v + 1)) * p >= 0
  BY <1>1
<1>3. (u - (v + 1)) * p = u * p - (v * p + p)
  OBVIOUS
<1>4. v * p \in Int /\ u * p \in Int
  OBVIOUS
<1> QED BY <1>2, <1>3, <1>4

\* Every slice of parallelize_1d lies inside [0, range) and is not
\* reversed.
LEMMA SliceBounds ==
  ASSUME NEW range \in Nat, NEW n \in Nat \ {0}, NEW v \in 0 .. n - 1
  PROVE  /\ SliceStart(v, range, n) \in Nat
         /\ SliceEnd(v, range, n) \in Nat
         /\ SliceStart(v, range, n) <= SliceEnd(v, range, n)
         /\ SliceEnd(v, range, n) <= range
<1> DEFINE p == Per(range, n)
           r == Rem(range, n)
<1>1. p \in Nat /\ r \in 0 .. n - 1 /\ range = n * p + r
  BY DivMod
<1>2. v * p \in Nat /\ n * p \in Nat
  BY <1>1
<1>3. v * p + p <= n * p
  BY <1>1, Monotone, v < n
<1>4. /\ SliceStart(v, range, n) = v * p + IF v < r THEN v ELSE r
      /\ SliceEnd(v, range, n)
           = SliceStart(v, range, n) + p + IF v < r THEN 1 ELSE 0
  BY DEF SliceStart, SliceEnd, Extra
<1> HIDE DEF p, r
<1> QED BY <1>1, <1>2, <1>3, <1>4

\* Two workers never share an index.
LEMMA SlicesApart ==
  ASSUME NEW range \in Nat, NEW n \in Nat \ {0},
         NEW v \in 0 .. n - 1, NEW u \in 0 .. n - 1, v < u
  PROVE  SliceEnd(v, range, n) <= SliceStart(u, range, n)
<1> DEFINE p == Per(range, n)
           r == Rem(range, n)
<1>1. p \in Nat /\ r \in 0 .. n - 1
  BY DivMod
<1>2. v * p \in Nat /\ u * p \in Nat
  BY <1>1
<1>3. v * p + p <= u * p
  BY <1>1, Monotone
<1>4. /\ SliceStart(u, range, n) = u * p + IF u < r THEN u ELSE r
      /\ SliceEnd(v, range, n)
           = v * p + (IF v < r THEN v ELSE r) + p + IF v < r THEN 1 ELSE 0
  BY DEF SliceStart, SliceEnd, Extra
<1> HIDE DEF p, r
<1> QED BY <1>1, <1>2, <1>3, <1>4

\* Every index has a worker: one of the first r workers, whose slices hold
\* p + 1 indices, or a later one, whose slice holds p.
LEMMA SlicesCover ==
  ASSUME NEW range \in Nat, NEW n \in Nat \ {0}, NEW i \in 0 .. range - 1
  PROVE  \E v \in 0 .. n - 1 : /\ SliceStart(v, range, n) <= i
                               /\ i < SliceEnd(v, range, n)
<1> DEFINE p == Per(range, n)
           r == Rem(range, n)
<1>1. p \in Nat /\ r \in 0 .. n - 1 /\ range = n * p + r
  BY DivMod
<1>2. \A v \in 0 .. n - 1 :
        /\ SliceStart(v, range, n) = v * p + IF v < r THEN v ELSE r
        /\ SliceEnd(v, range, n)
             = v * p + (IF v < r THEN v ELSE r) + p + IF v < r THEN 1 ELSE 0
  BY DEF SliceStart, SliceEnd, Extra
<1> HIDE DEF p, r
<1>3. CASE i < r * p + r
  <2> DEFINE v == i \div (p + 1)
             m == i % (p + 1)
  <2>1. v \in Nat /\ m \in 0 .. p /\ i = (p + 1) * v + m
    <3>1. i \in Nat /\ p + 1 \in Nat \ {0}
      BY <1>1
    <3>2. /\ i \div (p + 1) \in Nat
          /\ i % (p + 1) \in 0 .. (p + 1) - 1
          /\ i = (p + 1) * (i \div (p + 1)) + (i % (p + 1))
      BY <3>1, Euclid
    <3> QED BY <1>1, <3>2
  <2> HIDE DEF v, m
  <2>2. i = v * p + v + m
    BY <1>1, <2>1
  <2>3. v < r
    <3> SUFFICES ASSUME v >= r PROVE FALSE
      BY <1>1, <2>1
    <3>1. (v - r) * (p + 1) >= 0
      BY <1>1, <2>1
    <3>2. (v - r) * (p + 1) = v * p + v - (r * p + r)
      BY <1>1, <2>1
    <3> QED BY <1>1, <1>3, <2>1, <2>2, <3>1, <3>2
  <2>4. v * p \in Nat
    BY <1>1, <2>1
  <2>5. v \in 0 .. n - 1
    BY <1>1, <2>1, <2>3
  <2>6. SliceStart(v, range, n) <= i /\ i < SliceEnd(v, range, n)
    <3>1. /\ SliceStart(v, range, n) = v * p + v
          /\ SliceEnd(v, range, n) = v * p + v + p + 1
      BY <1>1, <1>2, <2>1, <2>3, <2>4, <2>5
    <3> QED BY <1>1, <2>1, <2>2, <2>4, <3>1
  <2> QED BY <2>5, <2>6
<1>4. CASE i >= r * p + r
  <2> DEFINE j == i - (r * p + r)
  <2>1. j \in Nat /\ r * p \in Nat /\ i = r * p + r + j
    BY <1>1, <1>4
  <2>2. p > 0
    <3>1. p = 0 => n * p = 0
      BY <1>1
    <3> QED BY <1>1, <1>4, <2>1, <3>1
  <2> HIDE DEF j
  <2> DEFINE q == j \div p
             m == j % p
  <2>3. q \in Nat /\ m \in 0 .. p - 1 /\ j = p * q + m
    BY <1>1, <2>1, <2>2, Euclid
  <2> HIDE DEF q, m
  <2>4. i = (r + q) * p + r + m
    <3>1. (r + q) * p = r * p + p * q
      BY <1>1, <2>3
    <3>2. p * q \in Nat
      BY <1>1, <2>3
    <3> QED BY <1>1, <2>1, <2>3, <3>1, <3>2
  <2> DEFINE v == r + q
  <2>5. v \in Nat /\ v >= r /\ v * p \in Nat /\ n * p \in Nat
    BY <1>1, <2>3
  <2>6. v < n
    <3> SUFFICES ASSUME v >= n PROVE FALSE
      BY <1>1, <2>5
    <3>1. (v - n) * p >= 0
      BY <1>1, <2>5
    <3>2. (v - n) * p = v * p - n * p
      BY <1>1, <2>5
    <3> QED BY <1>1, <2>3, <2>4, <2>5, <3>1, <3>2
  <2>7. v \in 0 .. n - 1
    BY <2>5, <2>6
  <2> HIDE DEF v
  <2>8. i = v * p + r + m
    BY <2>4 DEF v
  <2>9. /\ SliceStart(v, range, n) = v * p + r
        /\ SliceEnd(v, range, n) = v * p + r + p
    BY <1>1, <1>2, <2>5, <2>7
  <2>10. SliceStart(v, range, n) <= i /\ i < SliceEnd(v, range, n)
    BY <1>1, <2>3, <2>5, <2>8, <2>9
  <2> QED BY <2>7, <2>10
<1>5. r * p \in Nat
  BY <1>1
<1> QED BY <1>1, <1>3, <1>4, <1>5

-----------------------------------------------------------------------------
(***************************************************************************)
(* PoolInv is inductive.                                                   *)
(***************************************************************************)
\* A pool starts in it: nothing is created yet.
LEMMA PoolInvInit == Init => PoolInv
<1> SUFFICES ASSUME Init PROVE PoolInv
  OBVIOUS
<1> USE DEF Init
<1>1. TypeOK
  <2>1. MaxWorkers \in Nat \ {0} /\ MaxRange \in Nat /\ SemLimit \in Nat \ {0}
    BY PoolAssumption
  <2>2. job \in [range : 0 .. MaxRange, slices : 0 .. MaxWorkers]
    BY <2>1
  <2>3. start \in [Helper -> 0 .. SemLimit] /\ done \in [Helper -> 0 .. SemLimit]
    BY <2>1
  <2>4. nxt \in [Worker -> 0 .. MaxRange] /\ stop \in [Worker -> 0 .. MaxRange]
    BY <2>1
  <2>5. calls \in [Index -> Nat]
    BY DEF Zeros
  <2> QED BY <2>1, <2>2, <2>3, <2>4, <2>5 DEF TypeOK
<1>2. LifeInv /\ RestInv
  BY DEF LifeInv, RestInv
<1>3. CallDone
  BY DEF CallDone, Zeros, Index
<1> QED BY <1>1, <1>2, <1>3 DEF PoolInv

\* The facts every step of a parallel call relies on.
LEMMA CallSlices ==
  ASSUME PoolInv, mpc \in {"wake", "own", "gather"}
  PROVE  /\ job.slices \in 1 .. nWorkers /\ job.slices <= arg
         /\ \A v \in 0 .. job.slices - 1 :
              /\ From(v) \in Nat /\ To(v) \in Nat
              /\ From(v) <= To(v) /\ To(v) <= arg
         /\ \A v, u \in 0 .. job.slices - 1 : v < u => To(v) <= From(u)
         /\ \A i \in 0 .. arg - 1 :
              \E v \in 0 .. job.slices - 1 : From(v) <= i /\ i < To(v)
<1>1. /\ arg \in Nat \ {0} /\ nWorkers \in Nat \ {0} /\ job.range = arg
      /\ job.slices = IF arg < nWorkers THEN arg ELSE nWorkers
  BY DEF PoolInv, TypeOK, CallInv
<1>2. job.slices \in Nat \ {0} /\ job.slices \in 1 .. nWorkers /\ job.slices <= arg
  BY <1>1
<1> QED BY <1>1, <1>2, SliceBounds, SlicesApart, SlicesCover DEF From, To

\* create_on_harts, its error paths included, preserves the invariant.
LEMMA CreateKeepsPoolInv ==
  ASSUME PoolInv,
         \/ \E harts \in HartLists : CreateNull(harts) \/ CreateBegin(harts)
         \/ Spawn \/ SpawnFails \/ CreateReturns
  PROVE  PoolInv'
<1>0. TypeOK /\ LifeInv /\ RestInv
  BY DEF PoolInv
<1>1. ASSUME NEW harts \in HartLists, CreateNull(harts) PROVE PoolInv'
  <2>1. TypeOK'
    BY <1>0, <1>1 DEF TypeOK, CreateNull, sems, loops
  <2>2. LifeInv' /\ RestInv'
    BY <1>0, <1>1 DEF LifeInv, RestInv, CreateNull, sems, Quiet, Absent
  <2>3. CallDone'
    BY <1>1 DEF PoolInv, CallDone, CreateNull
  <2> QED BY <1>1, <2>1, <2>2, <2>3 DEF PoolInv, CreateNull
<1>2. ASSUME NEW harts \in HartLists, CreateBegin(harts) PROVE PoolInv'
  <2>1. TypeOK'
    BY <1>0, <1>2, PoolAssumption DEF TypeOK, CreateBegin, ValidHarts, loops, Helper
  <2>2. LifeInv' /\ RestInv'
    BY <1>0, <1>2, PoolAssumption DEF TypeOK, LifeInv, RestInv, CreateBegin, ValidHarts, Quiet, Absent, Helper
  <2>3. CallDone'
    BY <1>2 DEF PoolInv, CallDone, CreateBegin
  <2> QED BY <1>2, <2>1, <2>2, <2>3 DEF PoolInv, CreateBegin
<1>3. CASE Spawn
  <2>1. TypeOK'
    <3>1. /\ w' \in 0 .. MaxWorkers /\ spawned' \in 0 .. MaxWorkers - 1
          /\ hpc' = [hpc EXCEPT ![w] = "wait"]
      BY <1>0, <1>3, PoolAssumption DEF TypeOK, LifeInv, Spawn
    <3> QED BY <1>0, <1>3, <3>1 DEF TypeOK, Spawn, sems, loops
  <2>2. LifeInv' /\ RestInv'
    BY <1>0, <1>3 DEF TypeOK, LifeInv, RestInv, Spawn, sems, Absent, Quiet, Helper
  <2>3. CallDone'
    BY <1>3 DEF PoolInv, CallDone, Spawn
  <2> QED BY <1>3, <2>1, <2>2, <2>3 DEF PoolInv, Spawn
<1>4. CASE SpawnFails
  <2>1. TypeOK'
    <3> USE <1>0, <1>4 DEF SpawnFails, sems, loops
    <3>1. pool' \in {"live", "null"} /\ quit' \in {0, 1} /\ w' \in 0 .. MaxWorkers
      BY PoolAssumption DEF TypeOK, LifeInv
    <3>2. mpc' \in {"unwindGive", "idle"}
      OBVIOUS
    <3> QED BY <3>1, <3>2 DEF TypeOK
  <2>2. LifeInv' /\ RestInv'
    BY <1>0, <1>4 DEF TypeOK, LifeInv, RestInv, SpawnFails, sems, Absent, Quiet, Helper
  <2>3. CallDone'
    BY <1>4 DEF PoolInv, CallDone, SpawnFails
  <2>4. mpc' = "unwindGive" => QuitInv'
    BY <1>0, <1>4 DEF TypeOK, LifeInv, RestInv, SpawnFails, QuitInv, LastHelper, sems, Helper, Quiet
  <2> QED BY <1>4, <2>1, <2>2, <2>3, <2>4 DEF PoolInv, SpawnFails
<1>5. CASE CreateReturns
  <2>1. TypeOK'
    BY <1>0, <1>5 DEF TypeOK, CreateReturns, sems, loops
  <2>2. LifeInv' /\ RestInv'
    BY <1>0, <1>5 DEF TypeOK, LifeInv, RestInv, CreateReturns, sems, Absent, Quiet, Helper
  <2>3. CallDone'
    BY <1>5 DEF PoolInv, CallDone, CreateReturns
  <2> QED BY <1>5, <2>1, <2>2, <2>3 DEF PoolInv, CreateReturns
<1> QED BY <1>1, <1>2, <1>3, <1>4, <1>5

\* So does destroy, and the clean-up of a creation that failed.
LEMMA QuitKeepsPoolInv ==
  ASSUME PoolInv, DestroyBegin \/ QuitGive \/ QuitJoin
  PROVE  PoolInv'
<1>0. TypeOK /\ LifeInv /\ RestInv
  BY DEF PoolInv
<1>1. CASE DestroyBegin
  <2>1. TypeOK'
    BY <1>0, <1>1, PoolAssumption DEF TypeOK, DestroyBegin, sems, loops
  <2>2. LifeInv' /\ RestInv'
    BY <1>0, <1>1 DEF LifeInv, RestInv, DestroyBegin, sems, Quiet, Absent
  <2>3. QuitInv'
    BY <1>0, <1>1 DEF TypeOK, LifeInv, RestInv, DestroyBegin, sems, QuitInv,
                      LastHelper, Quiet, Helper
  <2> QED BY <1>1, <2>1, <2>2, <2>3 DEF PoolInv, DestroyBegin
<1>2. CASE QuitGive
  <2>0. QuitInv /\ pool = "live" /\ LastHelper \in 0 .. MaxWorkers - 1
    BY <1>0, <1>2 DEF PoolInv, QuitGive, LastHelper, TypeOK, LifeInv
  <2>1. TypeOK'
    <3>1. start' \in [Helper -> 0 .. SemLimit]
      <4>1. Give(start[w]) \in 0 .. SemLimit \/ w \notin Helper
        BY <1>0, PoolAssumption DEF TypeOK, Give
      <4>2. start' = start \/ start' = [start EXCEPT ![w] = Give(start[w])]
        BY <1>2 DEF QuitGive
      <4> QED BY <1>0, <4>1, <4>2 DEF TypeOK
    <3>2. w' \in 0 .. MaxWorkers
      BY <1>0, <1>2, <2>0, PoolAssumption DEF TypeOK, QuitGive, QuitInv
    <3>3. mpc' \in {"unwindGive", "unwindJoin", "destroyGive", "destroyJoin"}
      BY <1>2 DEF QuitGive
    <3> QED BY <1>0, <1>2, <3>1, <3>2, <3>3 DEF TypeOK, QuitGive, loops
  <2>2. LifeInv' /\ RestInv'
    BY <1>0, <1>2, <2>0 DEF TypeOK, LifeInv, RestInv, QuitGive, QuitInv, LastHelper, Absent
  <2>3. QuitInv'
    <3>1. LastHelper' = LastHelper
      BY <1>2 DEF QuitGive, LastHelper
    <3>2. CASE w <= LastHelper
      <4>1. /\ start' = [start EXCEPT ![w] = Give(@)] /\ w' = w + 1 /\ mpc' = mpc
            /\ hpc' = hpc /\ done' = done /\ quit' = quit
            /\ spawned' = spawned /\ nWorkers' = nWorkers
        BY <1>2, <3>2 DEF QuitGive
      <4>2. w \in Helper /\ Quiet(w) /\ start'[w] = 1
        BY <1>0, <1>2, <2>0, <3>2, <4>1, PoolAssumption
        DEF QuitInv, QuitGive, Quiet, Give, Helper, TypeOK
      <4> QED BY <1>0, <1>2, <2>0, <3>1, <3>2, <4>1, <4>2
              DEF QuitInv, QuitGive, ToldToQuit, Quiet, Helper, TypeOK
    <3>3. CASE ~(w <= LastHelper)
      BY <1>0, <1>2, <2>0, <3>1, <3>3
      DEF QuitInv, QuitGive, ToldToQuit, Quiet, Helper, TypeOK
    <3> QED BY <3>2, <3>3
  <2>4. CallDone \/ mpc' \notin {"unwindGive", "unwindJoin"}
    BY <1>2 DEF PoolInv, QuitGive
  <2> QED BY <1>2, <2>1, <2>2, <2>3, <2>4 DEF PoolInv, QuitGive, CallDone
<1>3. CASE QuitJoin
  <2>0. QuitInv /\ pool = "live" /\ LastHelper \in 0 .. MaxWorkers - 1
    BY <1>0, <1>3 DEF PoolInv, QuitJoin, LastHelper, TypeOK, LifeInv
  <2>1. TypeOK'
    <3>1. w' \in 0 .. MaxWorkers
      <4>1. w' = w \/ (w <= LastHelper /\ w' = w + 1)
        BY <1>3 DEF QuitJoin
      <4> QED BY <1>0, <2>0, <4>1, PoolAssumption DEF TypeOK
    <3>2. /\ pool' \in {"live", "null", "freed"}
          /\ mpc' \in {"unwindJoin", "destroyJoin", "idle", "gone"}
      BY <1>3, <2>0 DEF QuitJoin
    <3> QED BY <1>0, <1>3, <3>1, <3>2 DEF TypeOK, QuitJoin, sems, loops
  <2>2. LifeInv' /\ RestInv'
    BY <1>0, <1>3, <2>0 DEF TypeOK, LifeInv, RestInv, QuitJoin, QuitInv, LastHelper,
                            ToldToQuit, sems, Absent, Helper
  <2>3. mpc' \in {"unwindJoin", "destroyJoin"} => QuitInv'
    BY <1>0, <1>3, <2>0 DEF TypeOK, QuitJoin, QuitInv, LastHelper, ToldToQuit, sems, Helper
  <2>4. CallDone \/ mpc' \notin {"unwindJoin", "idle"}
    BY <1>3 DEF PoolInv, QuitJoin
  <2> QED BY <1>3, <2>1, <2>2, <2>3, <2>4 DEF PoolInv, QuitJoin, CallDone
<1> QED BY <1>1, <1>2, <1>3

\* So does the start of a call: empty, sequential or parallel.
LEMMA CallKeepsPoolInv ==
  ASSUME PoolInv, CallOnPool
  PROVE  PoolInv'
<1>0. TypeOK /\ LifeInv /\ RestInv /\ MaxRange \in Nat
  BY PoolAssumption DEF PoolInv
<1>1. CASE CallEmpty
  <2>1. TypeOK'
    BY <1>0, <1>1 DEF TypeOK, CallEmpty, sems, loops, Zeros
  <2>2. LifeInv' /\ RestInv'
    BY <1>0, <1>1 DEF LifeInv, RestInv, CallEmpty, sems, Quiet, Absent
  <2>3. CallDone'
    BY <1>1 DEF CallEmpty, CallDone, Zeros, Index
  <2> QED BY <1>1, <2>1, <2>2, <2>3 DEF PoolInv, CallEmpty
<1>2. ASSUME NEW range \in 1 .. MaxRange, CallSequential(range) PROVE PoolInv'
  <2>1. TypeOK'
    <3>1. calls' \in [Index -> Nat]
      BY <1>2 DEF CallSequential, Zeros
    <3>2. nxt' \in [Worker -> 0 .. MaxRange] /\ stop' \in [Worker -> 0 .. MaxRange]
      <4>1. nxt \in [Worker -> 0 .. MaxRange] /\ stop \in [Worker -> 0 .. MaxRange]
        BY <1>0 DEF TypeOK
      <4>2. nxt' = [nxt EXCEPT ![0] = 0] /\ stop' = [stop EXCEPT ![0] = range]
        BY <1>2 DEF CallSequential
      <4>3. 0 \in 0 .. MaxRange /\ range \in 0 .. MaxRange
        BY <1>0
      <4> QED BY <4>1, <4>2, <4>3
    <3> QED BY <1>0, <1>2, <3>1, <3>2 DEF TypeOK, CallSequential, sems
  <2>2. LifeInv' /\ RestInv'
    BY <1>0, <1>2 DEF LifeInv, RestInv, CallSequential, sems, Quiet, Absent
  <2>3. SequentialInv'
    BY <1>0, <1>2, PoolAssumption
    DEF TypeOK, CallSequential, SequentialInv, Zeros, Index, Worker
  <2> QED BY <1>2, <2>1, <2>2, <2>3 DEF PoolInv, CallSequential
<1>3. ASSUME NEW range \in 1 .. MaxRange, CallParallel(range) PROVE PoolInv'
  <2>0. job' \in [range : 0 .. MaxRange, slices : 0 .. MaxWorkers]
    <3>1. (IF range < nWorkers THEN range ELSE nWorkers) \in 0 .. MaxWorkers
      BY <1>0, PoolAssumption DEF TypeOK
    <3> QED BY <1>0, <1>3, <3>1 DEF CallParallel
  <2>1. TypeOK'
    <3>1. calls' \in [Index -> Nat]
      BY <1>3 DEF CallParallel, Zeros
    <3> QED BY <1>0, <1>3, <2>0, <3>1, PoolAssumption DEF TypeOK, CallParallel, sems, loops
  <2>2. LifeInv' /\ RestInv'
    BY <1>0, <1>3 DEF LifeInv, RestInv, CallParallel, sems, Quiet, Absent
  <2>3. CallInv'
    <3>1. /\ job'.range = range
          /\ job'.slices = IF range < nWorkers THEN range ELSE nWorkers
      BY <1>3 DEF CallParallel
    <3>2. \A v \in Worker : Untouched(v)'
      BY <1>3 DEF CallParallel, Untouched, Ran, Zeros, Index, From
    <3>3. \A h \in Helper : h < nWorkers => Quiet(h)'
      BY <1>0, <1>3 DEF TypeOK, LifeInv, RestInv, CallParallel, sems, Quiet, Helper
    <3>4. \A i \in Index : i >= arg' => calls'[i] = 0
      BY <1>3 DEF CallParallel, Zeros
    <3>5. /\ nWorkers' = nWorkers /\ nWorkers \in 2 .. MaxWorkers
          /\ mpc' = "wake" /\ w' = 1 /\ arg' = range
      BY <1>0, <1>3, PoolAssumption DEF CallParallel, TypeOK
    <3>6. job'.slices \in 1 .. nWorkers
      BY <3>1, <3>5
    <3>7. \A h \in Helper : h \in Worker /\ h \in Nat /\ h >= 1
      BY PoolAssumption DEF Helper, Worker
    <3>8. 0 \in Worker
      BY PoolAssumption DEF Worker
    <3>9. \A h \in Helper : h < job'.slices => Quiet(h)' /\ Untouched(h)'
      BY <3>2, <3>3, <3>5, <3>6, <3>7
    <3>10. \A h \in Helper : h >= job'.slices /\ h < nWorkers' => Quiet(h)'
      BY <3>3, <3>5
    <3> QED BY <3>1, <3>2, <3>4, <3>5, <3>6, <3>7, <3>8, <3>9, <3>10 DEF CallInv
  <2> QED BY <1>0, <1>3, <2>1, <2>2, <2>3 DEF PoolInv, CallParallel, LifeInv
<1> QED BY <1>1, <1>2, <1>3 DEF CallOnPool

\* So does the wake-up loop of parallelize_1d.
LEMMA WakeKeepsPoolInv ==
  ASSUME PoolInv, WakeHelpers
  PROVE  PoolInv'
<1>0. /\ TypeOK /\ LifeInv /\ RestInv /\ CallInv /\ quit = 0 /\ mpc = "wake"
      /\ pool = "live" /\ spawned = nWorkers - 1
  BY DEF PoolInv, WakeHelpers, LifeInv
<1>1. /\ job.slices \in 1 .. MaxWorkers /\ job.slices <= nWorkers
      /\ From(0) \in Nat /\ To(0) \in Nat /\ From(0) <= To(0) /\ To(0) <= arg
  BY <1>0, CallSlices DEF TypeOK
<1>2. /\ From(0) = 0 /\ SliceEnd(0, arg, job.slices) = To(0)
      /\ \A v : From(v)' = From(v) /\ To(v)' = To(v)
  <2>1. Per(arg, job.slices) \in Nat /\ Rem(arg, job.slices) \in Nat
    <3>1. arg \in Nat /\ job.slices \in Nat \ {0}
      BY <1>0, <1>1, PoolAssumption DEF TypeOK
    <3> QED BY <3>1, DivMod
  <2>2. 0 * Per(arg, job.slices) = 0
    BY <2>1
  <2> QED BY <1>0, <2>1, <2>2 DEF From, To, SliceStart, Extra, CallInv, WakeHelpers
<1>3. CASE w < job.slices
  <2>1. /\ start' = [start EXCEPT ![w] = Give(start[w])] /\ w' = w + 1
        /\ mpc' = mpc /\ nxt' = nxt /\ stop' = stop
    BY <1>3 DEF WakeHelpers, loops
  <2>2. w \in Helper /\ Quiet(w) /\ Untouched(w) /\ start'[w] = 1
    BY <1>0, <1>1, <1>3, <2>1, PoolAssumption DEF CallInv, Quiet, Give, Helper, TypeOK
  <2>3. TypeOK'
    <3>1. start' \in [Helper -> 0 .. SemLimit]
      <4>1. Give(start[w]) \in 0 .. SemLimit
        BY <1>0, <2>2, PoolAssumption DEF TypeOK, Give
      <4> QED BY <1>0, <2>1, <2>2, <4>1 DEF TypeOK
    <3>2. w' \in 0 .. MaxWorkers
      BY <1>0, <1>1, <1>3, <2>1, PoolAssumption DEF TypeOK
    <3> QED BY <1>0, <2>1, <3>1, <3>2 DEF TypeOK, WakeHelpers
  <2>4. LifeInv' /\ RestInv'
    BY <1>0, <1>1, <2>1, <2>2 DEF LifeInv, RestInv, WakeHelpers, Absent, Quiet, TypeOK, Helper
  <2>5. CallInv'
    <3>1. \A v : Untouched(v)' = Untouched(v)
      BY <1>2 DEF WakeHelpers, Untouched
    <3>2. \A h \in Helper : h # w => start'[h] = start[h]
      BY <1>0, <2>1 DEF TypeOK
    <3>3. \A h \in Helper : h # w => Woken(h)' = Woken(h) /\ Quiet(h)' = Quiet(h)
      BY <1>2, <2>1, <3>1, <3>2
      DEF WakeHelpers, Woken, Quiet, Complete, Partial, Ran
    <3>4. \A h \in Helper : h = w => Woken(h)'
      <4>1. hpc' = hpc /\ done' = done
        BY DEF WakeHelpers
      <4> QED BY <2>2, <3>1, <4>1 DEF Woken, Quiet
    <3>5. /\ job' = job /\ nWorkers' = nWorkers /\ arg' = arg /\ calls' = calls
          /\ w \in 1 .. job.slices
      BY <1>0 DEF WakeHelpers, CallInv
    <3>6. \A h \in Helper :
            h < job.slices =>
              /\ h >= w' => Quiet(h)' /\ Untouched(h)'
              /\ h < w' => Woken(h)'
      BY <1>0, <1>1, <1>3, <2>1, <2>2, <3>1, <3>3, <3>4 DEF CallInv, Helper, TypeOK
    <3>7. \A h \in Helper : h >= job.slices /\ h < nWorkers => Quiet(h)'
      BY <1>0, <1>1, <1>3, <3>3 DEF CallInv, Helper
    <3>8. w' \in 1 .. job'.slices
      BY <1>1, <1>3, <2>1, <3>5
    <3> QED BY <1>0, <2>1, <3>1, <3>5, <3>6, <3>7, <3>8 DEF CallInv
  <2> QED BY <1>0, <2>1, <2>3, <2>4, <2>5 DEF PoolInv, WakeHelpers
<1>4. CASE ~(w < job.slices)
  <2>1. /\ mpc' = "own" /\ start' = start /\ w' = w
        /\ nxt' = [nxt EXCEPT ![0] = 0] /\ stop' = [stop EXCEPT ![0] = To(0)]
    BY <1>2, <1>4 DEF WakeHelpers
  <2>2. TypeOK'
    <3>1. nxt \in [Worker -> 0 .. MaxRange] /\ stop \in [Worker -> 0 .. MaxRange]
      BY <1>0 DEF TypeOK
    <3>2. 0 \in 0 .. MaxRange /\ To(0) \in 0 .. MaxRange
      BY <1>0, <1>1, PoolAssumption DEF TypeOK
    <3>3. nxt' \in [Worker -> 0 .. MaxRange] /\ stop' \in [Worker -> 0 .. MaxRange]
      BY <2>1, <3>1, <3>2
    <3> QED BY <1>0, <2>1, <3>3 DEF TypeOK, WakeHelpers
  <2>3. LifeInv' /\ RestInv'
    BY <1>0, <2>1 DEF LifeInv, RestInv, WakeHelpers, Absent, Quiet
  <2>4. CallInv'
    <3>1. Partial(0)'
      BY <1>0, <1>1, <1>2, <2>1, PoolAssumption
      DEF Partial, Ran, WakeHelpers, CallInv, Untouched, TypeOK, Worker, Index
    <3>2. \A h \in Helper : Woken(h)' = Woken(h) /\ Quiet(h)' = Quiet(h)
      BY <1>0, <1>2, <2>1
      DEF WakeHelpers, Woken, Quiet, Complete, Untouched, Partial, Ran, TypeOK, Helper
    <3> QED BY <1>0, <1>1, <1>4, <2>1, <3>1, <3>2
            DEF CallInv, WakeHelpers, TypeOK, Helper
  <2> QED BY <1>0, <2>1, <2>2, <2>3, <2>4 DEF PoolInv, WakeHelpers
<1> QED BY <1>3, <1>4

\* Worker v invokes fn on index k of its slice: the other slices do not see it.
LEMMA RunInsideSlice ==
  ASSUME PoolInv, mpc \in {"wake", "own", "gather"},
         NEW v \in 0 .. job.slices - 1, NEW k \in Int,
         From(v) <= k, k < To(v), calls' = [calls EXCEPT ![k] = @ + 1],
         job' = job
  PROVE  /\ k \in Index /\ k < arg
         /\ \A u : From(u)' = From(u) /\ To(u)' = To(u)
         /\ \A i \in Index : i # k => calls'[i] = calls[i]
         /\ calls'[k] = calls[k] + 1
         /\ \A u \in 0 .. job.slices - 1 :
              u # v => \A i \in Index :
                         From(u) <= i /\ i < To(u) => calls'[i] = calls[i]
<1>1. arg \in 0 .. MaxRange /\ calls \in [Index -> Nat] /\ MaxRange \in Nat
  BY PoolAssumption DEF PoolInv, TypeOK
<1>2. /\ From(v) \in Nat /\ To(v) \in Nat /\ To(v) <= arg
      /\ job.slices \in Nat
      /\ \A u \in 0 .. job.slices - 1 :
           /\ From(u) \in Nat /\ To(u) \in Nat
           /\ u < v => To(u) <= From(v)
           /\ v < u => To(v) <= From(u)
  BY CallSlices DEF PoolInv, TypeOK
<1>3. k \in Index /\ k < arg
  BY <1>1, <1>2 DEF Index
<1>4. \A i \in Index : i # k => calls'[i] = calls[i]
  BY <1>1
<1>5. calls'[k] = calls[k] + 1
  BY <1>1, <1>3
<1>6. \A u : From(u)' = From(u) /\ To(u)' = To(u)
  BY DEF From, To
<1>7. ASSUME NEW u \in 0 .. job.slices - 1, u # v, NEW i \in Index,
             From(u) <= i, i < To(u)
      PROVE  i # k
  BY <1>2, <1>7 DEF Index
<1> QED BY <1>3, <1>4, <1>5, <1>6, <1>7

\* So does the master, on its own slice.
LEMMA MasterRunKeepsPoolInv ==
  ASSUME PoolInv, MasterRun
  PROVE  PoolInv'
<1>0. TypeOK /\ LifeInv /\ RestInv /\ MaxRange \in Nat
  BY PoolAssumption DEF PoolInv
<1>1. ASSUME TypeOK' PROVE LifeInv' /\ RestInv'
  BY <1>0 DEF MasterRun, LifeInv, RestInv, CallInv, PoolInv, sems, Absent, Quiet
<1>2. CASE mpc = "sequential" /\ nxt[0] < stop[0]
  <2> DEFINE k == nxt[0]
  <2>1. /\ calls' = [calls EXCEPT ![k] = @ + 1] /\ nxt' = [nxt EXCEPT ![0] = @ + 1]
        /\ stop' = stop /\ mpc' = mpc /\ w' = w /\ arg' = arg
    BY <1>2 DEF MasterRun
  <2>2. 0 \in Worker /\ stop[0] = arg /\ k \in Index /\ k < arg
    BY <1>0, <1>2, PoolAssumption DEF PoolInv, SequentialInv, TypeOK, Worker, Index
  <2>3. TypeOK'
    <3>1. calls' \in [Index -> Nat]
      BY <1>0, <2>1, <2>2 DEF TypeOK
    <3>2. nxt' \in [Worker -> 0 .. MaxRange]
      BY <1>0, <2>1, <2>2 DEF TypeOK
    <3> QED BY <1>0, <2>1, <3>1, <3>2 DEF TypeOK, MasterRun, sems
  <2>4. SequentialInv'
    BY <1>0, <1>2, <2>1, <2>2 DEF PoolInv, SequentialInv, TypeOK, MasterRun, Index, Worker
  <2> QED BY <1>1, <1>2, <2>1, <2>3, <2>4 DEF PoolInv
<1>3. CASE mpc = "sequential" /\ ~(nxt[0] < stop[0])
  <2>1. /\ mpc' = "idle" /\ w' = 1 /\ calls' = calls /\ nxt' = nxt /\ stop' = stop
        /\ arg' = arg
    BY <1>3 DEF MasterRun
  <2>2. TypeOK'
    BY <1>0, <2>1, PoolAssumption DEF TypeOK, MasterRun, sems
  <2>3. CallDone'
    BY <1>0, <1>3, <2>1, PoolAssumption DEF PoolInv, SequentialInv, CallDone, TypeOK, Worker, Index
  <2> QED BY <1>1, <2>1, <2>2, <2>3 DEF PoolInv
<1>4. ASSUME mpc = "own"
      PROVE  /\ CallInv /\ Partial(0) /\ quit = 0
             /\ job.slices \in 1 .. MaxWorkers /\ 0 \in 0 .. job.slices - 1
             /\ From(0) \in Nat /\ To(0) \in Nat /\ To(0) <= arg
             /\ \A h \in Helper : h < job.slices => h \in 0 .. job.slices - 1
  <2>1. CallInv /\ Partial(0) /\ quit = 0
    BY <1>4 DEF PoolInv, CallInv
  <2>2. job.slices \in 1 .. nWorkers /\ nWorkers \in 0 .. MaxWorkers
    BY <1>0, <1>4, CallSlices DEF TypeOK
  <2>3. job.slices \in 1 .. MaxWorkers /\ 0 \in 0 .. job.slices - 1
    BY <2>2, PoolAssumption
  <2>4. From(0) \in Nat /\ To(0) \in Nat /\ To(0) <= arg
    BY <1>4, <2>3, CallSlices
  <2>5. \A h \in Helper : h < job.slices => h \in 0 .. job.slices - 1
    BY <2>3, PoolAssumption DEF Helper
  <2> QED BY <2>1, <2>3, <2>4, <2>5
<1>5. CASE mpc = "own" /\ nxt[0] < stop[0]
  <2> DEFINE k == nxt[0]
  <2>1. /\ calls' = [calls EXCEPT ![k] = @ + 1] /\ nxt' = [nxt EXCEPT ![0] = @ + 1]
        /\ stop' = stop /\ mpc' = mpc /\ w' = w /\ arg' = arg /\ job' = job
        /\ hpc' = hpc /\ start' = start /\ done' = done /\ nWorkers' = nWorkers
        /\ quit' = quit
    BY <1>5 DEF MasterRun, sems
  <2>2. 0 \in Worker /\ k \in Nat /\ From(0) <= k /\ k < To(0)
    BY <1>0, <1>4, <1>5, PoolAssumption DEF TypeOK, Partial, Worker
  <2>3. /\ k \in Index /\ k < arg
        /\ \A u : From(u)' = From(u) /\ To(u)' = To(u)
        /\ \A i \in Index : i # k => calls'[i] = calls[i]
        /\ calls'[k] = calls[k] + 1
        /\ \A u \in 0 .. job.slices - 1 :
             u # 0 => \A i \in Index : From(u) <= i /\ i < To(u) => calls'[i] = calls[i]
    <3> HIDE DEF k
    <3>1. mpc \in {"wake", "own", "gather"} /\ 0 \in 0 .. job.slices - 1 /\ k \in Int
      BY <1>4, <1>5, <2>2
    <3> QED BY <2>1, <2>2, <3>1, RunInsideSlice
  <2> HIDE DEF k
  <2>4. TypeOK'
    <3>1. calls' \in [Index -> Nat]
      BY <1>0, <2>1, <2>3 DEF TypeOK
    <3>2. nxt' \in [Worker -> 0 .. MaxRange]
      BY <1>0, <2>1, <2>2, <2>3 DEF TypeOK, Index, k
    <3> QED BY <1>0, <2>1, <3>1, <3>2 DEF TypeOK, MasterRun, sems
  <2>5. CallInv'
    <3>1. \A h \in Helper : h < job.slices => (Woken(h) => Woken(h)')
      <4> SUFFICES ASSUME NEW h \in Helper, h < job.slices, Woken(h) PROVE Woken(h)'
        OBVIOUS
      <4>1. nxt'[h] = nxt[h] /\ stop'[h] = stop[h]
        BY <1>0, <2>1 DEF TypeOK, Helper
      <4>2. \A i \in Index : From(h) <= i /\ i < To(h) => calls'[i] = calls[i]
        <5>1. h \in 0 .. job.slices - 1 /\ h # 0
          BY <1>4, <1>5 DEF Helper
        <5> QED BY <2>3, <5>1
      <4> QED BY <2>1, <2>3, <4>1, <4>2 DEF Woken, Untouched, Partial, Complete, Ran
    <3>2. Partial(0)'
      <4>1. /\ From(0) \in Nat /\ To(0) \in Nat /\ stop[0] = To(0)
            /\ Ran(0, k) /\ calls[k] = 0
        BY <1>4, <1>5, <2>2, <2>3 DEF Partial, Ran, k, Index
      <4>2. nxt'[0] = k + 1 /\ stop'[0] = To(0)
        BY <1>0, <2>1, <2>2, <4>1 DEF TypeOK, k
      <4>3. \A i \in Index :
              From(0) <= i /\ i < To(0) => calls'[i] = IF i < k + 1 THEN 1 ELSE 0
        BY <2>2, <2>3, <4>1 DEF Ran, Index
      <4> QED BY <2>2, <2>3, <4>1, <4>2, <4>3 DEF Partial, Ran
    <3>3. \A h \in Helper : Quiet(h)' = Quiet(h)
      BY <2>1 DEF Quiet
    <3>4. \A i \in Index : i >= arg => calls'[i] = 0
      <4>1. \A i \in Index : i >= arg => calls[i] = 0
        BY <1>4, <1>5 DEF CallInv
      <4>2. arg \in Int
        BY <1>0 DEF TypeOK
      <4>3. \A i \in Index : i >= arg => i # k
        BY <2>3, <4>2 DEF Index
      <4> QED BY <2>3, <4>1, <4>3
    <3>5. \A h \in Helper : h < job.slices => Woken(h)
      BY <1>4, <1>5 DEF CallInv
    <3>6. \A h \in Helper : h >= job.slices /\ h < nWorkers => Quiet(h)
      BY <1>4, <1>5 DEF CallInv
    <3>7. /\ nWorkers > 1 /\ arg > 0 /\ job.range = arg /\ w = job.slices
          /\ job.slices = IF arg < nWorkers THEN arg ELSE nWorkers
          /\ w \in 1 .. job.slices
      BY <1>4, <1>5 DEF CallInv
    <3>8. mpc' = "own" /\ w' = w /\ job' = job /\ arg' = arg /\ nWorkers' = nWorkers
      BY <1>5, <2>1
    <3> QED BY <3>1, <3>2, <3>3, <3>4, <3>5, <3>6, <3>7, <3>8 DEF CallInv
  <2> QED BY <1>1, <1>4, <1>5, <2>1, <2>4, <2>5 DEF PoolInv
<1>6. CASE mpc = "own" /\ ~(nxt[0] < stop[0])
  <2>1. /\ mpc' = "gather" /\ w' = 1 /\ calls' = calls /\ nxt' = nxt /\ stop' = stop
        /\ arg' = arg /\ job' = job /\ hpc' = hpc /\ start' = start /\ done' = done
        /\ nWorkers' = nWorkers /\ quit' = quit
    BY <1>6 DEF MasterRun, sems
  <2>2. TypeOK'
    BY <1>0, <2>1, PoolAssumption DEF TypeOK, MasterRun, sems
  <2>3. \A u : From(u)' = From(u) /\ To(u)' = To(u)
    BY <2>1 DEF From, To
  <2>4. CallInv'
    <3>1. \A h \in Helper : Woken(h)' = Woken(h) /\ Quiet(h)' = Quiet(h)
      BY <2>1, <2>3 DEF Woken, Untouched, Partial, Complete, Ran, Quiet
    <3>2. Complete(0)'
      BY <1>0, <1>4, <1>6, <2>1, <2>3, PoolAssumption
      DEF Complete, Partial, Ran, TypeOK, Index, Worker
    <3>3. \A h \in Helper : h >= 1 /\ h \in Nat
      BY DEF Helper
    <3> QED BY <1>4, <1>6, <2>1, <3>1, <3>2, <3>3 DEF CallInv
  <2> QED BY <1>1, <1>4, <1>6, <2>1, <2>2, <2>4 DEF PoolInv
<1> QED BY <1>2, <1>3, <1>5, <1>6 DEF MasterRun

\* So does the loop that waits for the helpers.
LEMMA GatherKeepsPoolInv ==
  ASSUME PoolInv, Gather
  PROVE  PoolInv'
<1>0. /\ TypeOK /\ LifeInv /\ RestInv /\ CallInv /\ quit = 0 /\ mpc = "gather"
      /\ job.slices \in 1 .. MaxWorkers /\ job.slices <= nWorkers
      /\ pool = "live" /\ spawned = nWorkers - 1
  <2>1. TypeOK /\ LifeInv /\ RestInv /\ CallInv /\ quit = 0 /\ mpc = "gather"
    BY DEF PoolInv, Gather
  <2>2. pool = "live" /\ spawned = nWorkers - 1
    BY <2>1 DEF LifeInv
  <2>3. job.slices \in 1 .. nWorkers /\ nWorkers \in 0 .. MaxWorkers
    BY <2>1, CallSlices DEF TypeOK
  <2> QED BY <2>1, <2>2, <2>3, PoolAssumption
<1>1. \A u : From(u)' = From(u) /\ To(u)' = To(u)
  BY DEF Gather, From, To
<1>2. /\ calls' = calls /\ nxt' = nxt /\ stop' = stop /\ arg' = arg /\ job' = job
      /\ hpc' = hpc /\ start' = start /\ nWorkers' = nWorkers /\ quit' = quit
      /\ pool' = pool /\ spawned' = spawned
  BY DEF Gather, loops
<1>3. CASE w < job.slices
  <2>1. done[w] > 0 /\ done' = [done EXCEPT ![w] = @ - 1] /\ w' = w + 1 /\ mpc' = mpc
    BY <1>3 DEF Gather
  <2>2. w \in Helper /\ Woken(w)
    BY <1>0, <1>3, PoolAssumption DEF CallInv, Helper, TypeOK
  <2>3. hpc[w] = "wait" /\ start[w] = 0 /\ done[w] = 1 /\ Complete(w)
    BY <2>1, <2>2 DEF Woken
  <2>4. done'[w] = 0 /\ \A h \in Helper : h # w => done'[h] = done[h]
    BY <1>0, <2>1, <2>2, <2>3 DEF TypeOK
  <2>5. TypeOK'
    <3>1. done' \in [Helper -> 0 .. SemLimit]
      BY <1>0, <2>1, <2>2, <2>3, PoolAssumption DEF TypeOK
    <3>2. w' \in 0 .. MaxWorkers
      BY <1>0, <1>3, <2>1, PoolAssumption DEF TypeOK
    <3> QED BY <1>0, <1>2, <2>1, <3>1, <3>2 DEF TypeOK
  <2>6. LifeInv' /\ RestInv'
    BY <1>0, <1>2, <2>1, <2>2, <2>3, <2>4 DEF LifeInv, RestInv, Absent, Quiet
  <2>7. CallInv'
    <3>1. \A h \in Helper : Complete(h)' = Complete(h)
      BY <1>1, <1>2 DEF Complete
    <3>2. \A h \in Helper : h # w => Woken(h)' = Woken(h) /\ Quiet(h)' = Quiet(h)
      BY <1>1, <1>2, <2>4 DEF Woken, Untouched, Partial, Complete, Ran, Quiet
    <3>3. \A h \in Helper : h = w => Quiet(h)' /\ Complete(h)'
      BY <1>2, <2>3, <2>4, <3>1 DEF Quiet
    <3>4. Complete(0)'
      BY <1>0, <1>1, <1>2 DEF CallInv, Complete
    <3>5. w' \in 1 .. job'.slices
      BY <1>0, <1>2, <1>3, <2>1 DEF CallInv
    <3>6. \A h \in Helper :
            h < job.slices => /\ h >= w' => Woken(h)'
                              /\ h < w' => Quiet(h)' /\ Complete(h)'
      BY <1>0, <1>3, <2>1, <3>1, <3>2, <3>3 DEF CallInv, Helper
    <3>7. \A h \in Helper : h >= job.slices /\ h < nWorkers => Quiet(h)'
      BY <1>0, <1>3, <3>2 DEF CallInv, Helper
    <3> QED BY <1>0, <1>2, <2>1, <3>4, <3>5, <3>6, <3>7 DEF CallInv
  <2> QED BY <1>0, <1>2, <2>1, <2>5, <2>6, <2>7 DEF PoolInv
<1>4. CASE ~(w < job.slices)
  <2>1. mpc' = "idle" /\ done' = done /\ w' = w
    BY <1>4 DEF Gather
  <2>2. TypeOK'
    BY <1>0, <1>2, <2>1 DEF TypeOK
  <2>3. \A h \in Helper : h < job.slices => Quiet(h) /\ Complete(h)
    BY <1>0, <1>4 DEF CallInv, Helper
  <2>4. \A h \in Helper : h <= spawned => Quiet(h)
    BY <1>0, <2>3 DEF CallInv, Helper, TypeOK
  <2>5. LifeInv' /\ RestInv'
    BY <1>0, <1>2, <2>1, <2>4 DEF LifeInv, RestInv, Absent, Quiet
  <2>6. CallDone
    <3>1. ASSUME NEW i \in Index, i < arg PROVE calls[i] = 1
      <4>1. i \in 0 .. arg - 1
        BY <1>0, <3>1, PoolAssumption DEF Index, TypeOK
      <4>2. PICK v \in 0 .. job.slices - 1 : From(v) <= i /\ i < To(v)
        BY <1>0, <4>1, CallSlices
      <4>3. Complete(v)
        BY <1>0, <2>3, PoolAssumption DEF CallInv, Helper
      <4> QED BY <4>2, <4>3 DEF Complete
    <3>2. ASSUME NEW i \in Index, ~(i < arg) PROVE calls[i] = 0
      BY <1>0, <3>2, PoolAssumption DEF CallInv, Index, TypeOK
    <3> QED BY <3>1, <3>2 DEF CallDone
  <2>7. CallDone'
    BY <1>2, <2>6 DEF CallDone
  <2> QED BY <2>1, <2>2, <2>5, <2>7 DEF PoolInv
<1> QED BY <1>3, <1>4

\* A helper between wake and completion is one of the current call's.
LEMMA HelperInCall ==
  ASSUME PoolInv, NEW h \in Helper,
         hpc[h] \in {"slice", "loop", "give"} \/ (start[h] > 0 /\ quit = 0)
  PROVE  /\ mpc \in {"wake", "own", "gather"} /\ h \in 0 .. job.slices - 1
         /\ Woken(h) /\ h < job.slices /\ h # 0
         /\ mpc = "wake" => h < w
         /\ mpc = "gather" => h >= w
<1>0. TypeOK /\ LifeInv /\ RestInv
  BY DEF PoolInv
<1>1. pool = "live"
  BY <1>0 DEF RestInv
<1>2. h <= spawned
  <2>1. spawned \in Nat /\ h \in Nat
    BY <1>0, PoolAssumption DEF TypeOK, Helper
  <2> QED BY <1>0, <1>1, <2>1 DEF RestInv, Absent
<1>3. mpc \notin {"spawn", "idle", "sequential"}
  BY <1>0, <1>1, <1>2 DEF RestInv, Quiet
<1>4. mpc \notin {"unwindGive", "unwindJoin", "destroyGive", "destroyJoin"}
  <2> SUFFICES ASSUME mpc \in {"unwindGive", "unwindJoin", "destroyGive", "destroyJoin"}
               PROVE  FALSE
    OBVIOUS
  <2>1. QuitInv
    BY DEF PoolInv
  <2>2. h <= LastHelper
    BY <1>0, <1>1, <1>2 DEF LastHelper, LifeInv
  <2>3. quit = 1 /\ hpc[h] \in {"slice", "loop", "give"}
    BY <2>1 DEF QuitInv
  <2>4. w \in Nat /\ h \in Nat
    BY <1>0, PoolAssumption DEF TypeOK, Helper
  <2>5. ToldToQuit(h) \/ Quiet(h)
    BY <2>1, <2>2, <2>4 DEF QuitInv
  <2> QED BY <2>3, <2>5 DEF ToldToQuit, Quiet
<1>5. mpc \in {"wake", "own", "gather"}
  BY <1>0, <1>1, <1>3, <1>4 DEF LifeInv, TypeOK
<1>6. CallInv /\ job.slices \in 1 .. nWorkers /\ spawned = nWorkers - 1
      /\ nWorkers \in Nat /\ h \in Nat \ {0} /\ w \in Nat
  <2>1. CallInv /\ job.slices \in 1 .. nWorkers
    BY <1>5, CallSlices DEF PoolInv
  <2>2. spawned = nWorkers - 1
    BY <1>1, <1>0, <1>5 DEF LifeInv
  <2>3. nWorkers \in Nat /\ h \in Nat \ {0} /\ w \in Nat
    BY <1>0, PoolAssumption DEF TypeOK, Helper
  <2> QED BY <2>1, <2>2, <2>3
<1>7. h < job.slices
  BY <1>2, <1>6 DEF CallInv, Quiet
<1>8. CASE mpc = "wake"
  BY <1>6, <1>7, <1>8 DEF CallInv, Quiet
<1>9. CASE mpc = "own"
  BY <1>6, <1>7, <1>9 DEF CallInv
<1>10. CASE mpc = "gather"
  BY <1>6, <1>7, <1>10 DEF CallInv, Quiet
<1> QED BY <1>5, <1>6, <1>7, <1>8, <1>9, <1>10

\* What one helper does inside a call disturbs nothing but its own entry.
LEMMA WokenHelperStep ==
  ASSUME PoolInv, TypeOK', NEW h \in Helper,
         mpc \in {"wake", "own", "gather"}, h \in 0 .. job.slices - 1,
         mpc = "wake" => h < w, mpc = "gather" => h >= w,
         UNCHANGED << pool, nWorkers, quit, job, mpc, w, spawned, arg >>,
         Woken(h)',
         nxt'[0] = nxt[0], stop'[0] = stop[0],
         \A g \in Helper : g # h => /\ hpc'[g] = hpc[g] /\ start'[g] = start[g]
                                    /\ done'[g] = done[g] /\ nxt'[g] = nxt[g]
                                    /\ stop'[g] = stop[g],
         \A u \in 0 .. job.slices - 1 :
           u # h => \A i \in Index : From(u) <= i /\ i < To(u) => calls'[i] = calls[i],
         \A i \in Index : i >= arg => calls'[i] = calls[i]
  PROVE  PoolInv'
<1>0. TypeOK /\ LifeInv /\ RestInv /\ CallInv /\ quit = 0 /\ pool = "live"
  BY DEF PoolInv, LifeInv
<1>1. \A u : From(u)' = From(u) /\ To(u)' = To(u)
  BY DEF From, To
<1>2. job.slices \in 1 .. nWorkers /\ nWorkers \in Nat /\ h \in Nat \ {0} /\ h <= spawned
  <2>1. job.slices \in 1 .. nWorkers
    BY CallSlices
  <2>2. spawned = nWorkers - 1
    BY <1>0 DEF LifeInv
  <2>3. nWorkers \in Nat /\ h \in Nat \ {0}
    BY <1>0, PoolAssumption DEF TypeOK, Helper
  <2> QED BY <2>1, <2>2, <2>3
<1>3. \A g \in Helper : g # h => Quiet(g)' = Quiet(g) /\ Absent(g)' = Absent(g)
  BY DEF Quiet, Absent
<1>4. \A u \in 0 .. job.slices - 1 :
        u # h => /\ Untouched(u)' = Untouched(u)
                 /\ Complete(u)' = Complete(u)
  BY <1>1 DEF Untouched, Complete
<1>5. \A g \in Helper : g < job.slices /\ g # h => Woken(g)' = Woken(g)
  <2> SUFFICES ASSUME NEW g \in Helper, g < job.slices, g # h
               PROVE  Woken(g)' = Woken(g)
    OBVIOUS
  <2>1. g \in 0 .. job.slices - 1
    BY <1>2 DEF Helper
  <2>2. Partial(g)' = Partial(g)
    BY <1>1, <2>1 DEF Partial, Ran
  <2>3. Untouched(g)' = Untouched(g) /\ Complete(g)' = Complete(g)
    BY <1>4, <2>1
  <2> QED BY <2>2, <2>3 DEF Woken
<1>6. LifeInv' /\ RestInv'
  <2>1. LifeInv'
    BY <1>0 DEF LifeInv
  <2>2. \A g \in Helper : g > spawned => Absent(g)'
    BY <1>0, <1>2, <1>3 DEF RestInv, Helper, TypeOK
  <2> QED BY <1>0, <2>1, <2>2 DEF RestInv
<1>7. CallInv'
  <2>1. 0 \in 0 .. job.slices - 1 /\ 0 # h
    BY <1>2
  <2>2. /\ mpc = "wake" => Untouched(0)'
        /\ mpc = "own" => Partial(0)'
        /\ mpc = "gather" => Complete(0)'
    BY <1>0, <1>1, <1>4, <2>1 DEF CallInv, Partial, Ran
  <2>3. \A g \in Helper : g < job.slices => g \in 0 .. job.slices - 1
    BY <1>2 DEF Helper
  <2>4. \A g \in Helper :
       g < job.slices =>
         /\ mpc = "wake" /\ g >= w => Quiet(g)' /\ Untouched(g)'
         /\ mpc = "wake" /\ g < w => Woken(g)'
         /\ mpc = "own" => Woken(g)'
         /\ mpc = "gather" /\ g >= w => Woken(g)'
         /\ mpc = "gather" /\ g < w => Quiet(g)' /\ Complete(g)'
    <3> SUFFICES ASSUME NEW g \in Helper, g < job.slices
                 PROVE  /\ mpc = "wake" /\ g >= w => Quiet(g)' /\ Untouched(g)'
                        /\ mpc = "wake" /\ g < w => Woken(g)'
                        /\ mpc = "own" => Woken(g)'
                        /\ mpc = "gather" /\ g >= w => Woken(g)'
                        /\ mpc = "gather" /\ g < w => Quiet(g)' /\ Complete(g)'
      OBVIOUS
    <3>1. CASE g = h
      BY <1>0, <1>2, <3>1 DEF TypeOK
    <3>2. CASE g # h
      BY <1>0, <1>3, <1>4, <1>5, <2>3, <3>2 DEF CallInv
    <3> QED BY <3>1, <3>2
  <2>5. \A g \in Helper : g >= job.slices /\ g < nWorkers => Quiet(g)'
    BY <1>0, <1>2, <1>3 DEF CallInv, Helper
  <2> QED BY <1>0, <2>2, <2>4, <2>5 DEF CallInv
<1> QED BY <1>0, <1>6, <1>7 DEF PoolInv

\* So does every step of a helper thread in worker_fn.
LEMMA HelperKeepsPoolInv ==
  ASSUME PoolInv, NEW h \in Helper, HelperStep(h)
  PROVE  PoolInv'
<1>0. /\ TypeOK /\ LifeInv /\ RestInv /\ MaxRange \in Nat /\ SemLimit \in Nat \ {0}
      /\ h \in Nat \ {0} /\ h \in Worker /\ 0 \in Worker /\ Helper \subseteq Worker
  BY PoolAssumption DEF PoolInv, Helper, Worker
<1>1. CASE HelperWake(h) /\ quit = 1
  <2>1. /\ hpc[h] = "wait" /\ start[h] > 0
        /\ start' = [start EXCEPT ![h] = start[h] - 1]
        /\ hpc' = [hpc EXCEPT ![h] = "exited"]
        /\ UNCHANGED << pool, nWorkers, quit, job, done, mpc, w, spawned, arg,
                        nxt, stop, calls >>
    BY <1>1 DEF HelperWake, loops
  <2>2. pool = "live"
    BY <1>0, <2>1 DEF RestInv
  <2>3. mpc \in {"unwindGive", "unwindJoin", "destroyGive", "destroyJoin"}
    BY <1>0, <1>1, <2>2 DEF LifeInv, PoolInv, TypeOK
  <2>4. QuitInv /\ LastHelper = spawned
    BY <1>0, <2>2, <2>3 DEF PoolInv, LifeInv, LastHelper
  <2>5. h <= spawned
    <3>1. spawned \in Nat
      BY <1>0, PoolAssumption DEF TypeOK
    <3>2. h > spawned => start[h] = 0
      BY <1>0, <2>2 DEF RestInv, Absent
    <3> QED BY <1>0, <2>1, <3>1, <3>2
  <2>6. done[h] = 0 /\ start[h] = 1 /\ ToldToQuit(h)
    BY <1>0, <2>1, <2>3, <2>4, <2>5 DEF QuitInv, ToldToQuit, Quiet, TypeOK
  <2>7. TypeOK'
    <3>1. start' \in [Helper -> 0 .. SemLimit]
      BY <1>0, <2>1, <2>6 DEF TypeOK
    <3>2. hpc' \in [Helper -> {"absent", "wait", "slice", "loop", "give", "exited"}]
      BY <1>0, <2>1 DEF TypeOK
    <3> QED BY <1>0, <2>1, <3>1, <3>2 DEF TypeOK
  <2>8. /\ \A g \in Helper : g # h => hpc'[g] = hpc[g] /\ start'[g] = start[g]
        /\ hpc'[h] = "exited" /\ start'[h] = 0
    BY <1>0, <2>1, <2>6 DEF TypeOK
  <2>9. LifeInv' /\ RestInv'
    <3>1. LifeInv'
      BY <1>0, <2>1, <2>3 DEF LifeInv
    <3>2. \A g \in Helper : g > spawned => Absent(g)'
      BY <1>0, <2>1, <2>2, <2>5, <2>8, PoolAssumption DEF RestInv, Absent, TypeOK
    <3> QED BY <2>1, <2>2, <2>3, <3>1, <3>2 DEF RestInv
  <2>10. QuitInv'
    <3>1. LastHelper' = LastHelper
      BY <2>1 DEF LastHelper
    <3>2. \A g \in Helper : g # h => ToldToQuit(g)' = ToldToQuit(g) /\ Quiet(g)' = Quiet(g)
      BY <2>1, <2>8 DEF ToldToQuit, Quiet
    <3>3. ToldToQuit(h)'
      BY <2>1, <2>6, <2>8 DEF ToldToQuit
    <3>4. mpc \in {"unwindGive", "destroyGive"} => ~(h >= w)
      BY <1>0, <2>1, <2>4, <2>5 DEF QuitInv, Quiet
    <3> QED BY <1>0, <2>1, <2>3, <2>4, <2>8, <3>1, <3>2, <3>3, <3>4 DEF QuitInv
  <2>11. mpc \in {"unwindGive", "unwindJoin"} => CallDone'
    BY <2>1 DEF PoolInv, CallDone
  <2> QED BY <2>1, <2>3, <2>7, <2>9, <2>10, <2>11 DEF PoolInv
<1>2. CASE HelperWake(h) /\ quit = 0
  <2>1. /\ hpc[h] = "wait" /\ start[h] > 0
        /\ start' = [start EXCEPT ![h] = start[h] - 1]
        /\ hpc' = [hpc EXCEPT ![h] = "slice"]
        /\ UNCHANGED << pool, nWorkers, quit, job, done, mpc, w, spawned, arg,
                        nxt, stop, calls >>
    BY <1>2 DEF HelperWake, loops
  <2>2. /\ mpc \in {"wake", "own", "gather"} /\ h \in 0 .. job.slices - 1 /\ Woken(h)
        /\ mpc = "wake" => h < w
        /\ mpc = "gather" => h >= w
    BY <1>2, <2>1, HelperInCall
  <2>3. start[h] = 1 /\ done[h] = 0 /\ Untouched(h)
    BY <2>1, <2>2 DEF Woken
  <2>4. TypeOK'
    <3>1. start' \in [Helper -> 0 .. SemLimit]
      BY <1>0, <2>1, <2>3 DEF TypeOK
    <3>2. hpc' \in [Helper -> {"absent", "wait", "slice", "loop", "give", "exited"}]
      BY <1>0, <2>1 DEF TypeOK
    <3> QED BY <1>0, <2>1, <3>1, <3>2 DEF TypeOK
  <2>5. /\ \A g \in Helper : g # h => hpc'[g] = hpc[g] /\ start'[g] = start[g]
        /\ hpc'[h] = "slice" /\ start'[h] = 0
    BY <1>0, <2>1, <2>3 DEF TypeOK
  <2>6. Woken(h)'
    BY <2>1, <2>3, <2>5 DEF Woken, Untouched, From, To
  <2> QED BY <2>1, <2>2, <2>4, <2>5, <2>6, WokenHelperStep
<1>3. CASE HelperSlice(h)
  <2>1. /\ mpc \in {"wake", "own", "gather"} /\ h \in 0 .. job.slices - 1 /\ Woken(h)
        /\ h < job.slices /\ hpc[h] = "slice"
        /\ mpc = "wake" => h < w
        /\ mpc = "gather" => h >= w
    BY <1>3, HelperInCall DEF HelperSlice
  <2>2. /\ hpc' = [hpc EXCEPT ![h] = "loop"]
        /\ nxt' = [nxt EXCEPT ![h] = From(h)]
        /\ stop' = [stop EXCEPT ![h] = To(h)]
        /\ UNCHANGED << pool, nWorkers, quit, job, start, done, mpc, w, spawned, arg, calls >>
    BY <1>3, <2>1 DEF HelperSlice, sems, From, To
  <2>3. start[h] = 0 /\ done[h] = 0 /\ Untouched(h)
    BY <2>1 DEF Woken
  <2>4. /\ From(h) \in Nat /\ To(h) \in Nat /\ From(h) <= To(h) /\ To(h) <= arg
        /\ arg \in 0 .. MaxRange
    BY <1>0, <2>1, CallSlices DEF TypeOK
  <2>5. TypeOK'
    <3>1. nxt' \in [Worker -> 0 .. MaxRange] /\ stop' \in [Worker -> 0 .. MaxRange]
      <4>1. From(h) \in 0 .. MaxRange /\ To(h) \in 0 .. MaxRange
        BY <1>0, <2>4
      <4>2. nxt \in [Worker -> 0 .. MaxRange] /\ stop \in [Worker -> 0 .. MaxRange]
        BY <1>0 DEF TypeOK
      <4> QED BY <2>2, <4>1, <4>2
    <3>2. hpc' \in [Helper -> {"absent", "wait", "slice", "loop", "give", "exited"}]
      BY <1>0, <2>2 DEF TypeOK
    <3> QED BY <1>0, <2>2, <3>1, <3>2 DEF TypeOK
  <2>6. /\ \A g \in Worker : g # h => nxt'[g] = nxt[g] /\ stop'[g] = stop[g]
        /\ \A g \in Helper : g # h => hpc'[g] = hpc[g]
        /\ hpc'[h] = "loop" /\ nxt'[h] = From(h) /\ stop'[h] = To(h)
    BY <1>0, <2>2 DEF TypeOK
  <2>7. Woken(h)'
    <3>1. From(h)' = From(h) /\ To(h)' = To(h)
      BY <2>2 DEF From, To
    <3>2. Partial(h)'
      BY <2>2, <2>3, <2>4, <2>6, <3>1 DEF Partial, Ran, Untouched, Index
    <3> QED BY <2>2, <2>3, <2>6, <3>2 DEF Woken
  <2> QED BY <1>0, <2>1, <2>2, <2>5, <2>6, <2>7, WokenHelperStep
<1>4. CASE HelperRun(h)
  <2>1. /\ mpc \in {"wake", "own", "gather"} /\ h \in 0 .. job.slices - 1 /\ Woken(h)
        /\ hpc[h] = "loop"
        /\ mpc = "wake" => h < w
        /\ mpc = "gather" => h >= w
    BY <1>4, HelperInCall DEF HelperRun
  <2>2. /\ UNCHANGED << pool, nWorkers, quit, job, start, done, mpc, w, spawned, arg, stop >>
        /\ \A u : From(u)' = From(u) /\ To(u)' = To(u)
    BY <1>4 DEF HelperRun, sems, From, To
  <2>3. start[h] = 0 /\ done[h] = 0 /\ Partial(h)
    BY <2>1 DEF Woken
  <2>4. /\ From(h) \in Nat /\ To(h) \in Nat /\ To(h) <= arg /\ arg \in 0 .. MaxRange
        /\ nxt[h] \in Nat
    BY <1>0, <2>1, CallSlices DEF TypeOK
  <2>5. CASE nxt[h] < stop[h]
    <3> DEFINE k == nxt[h]
    <3>1. /\ calls' = [calls EXCEPT ![k] = @ + 1]
          /\ nxt' = [nxt EXCEPT ![h] = k + 1] /\ hpc' = hpc
      BY <1>4, <2>5 DEF HelperRun
    <3>2. From(h) <= k /\ k < To(h) /\ k \in Int
      BY <2>3, <2>4, <2>5 DEF Partial
    <3>3. /\ k \in Index /\ k < arg
          /\ \A i \in Index : i # k => calls'[i] = calls[i]
          /\ calls'[k] = calls[k] + 1
          /\ \A u \in 0 .. job.slices - 1 :
               u # h => \A i \in Index : From(u) <= i /\ i < To(u) => calls'[i] = calls[i]
      <4> HIDE DEF k
      <4> QED BY <2>1, <2>2, <3>1, <3>2, RunInsideSlice
    <3>4. TypeOK'
      <4>1. calls' \in [Index -> Nat]
        BY <1>0, <3>1, <3>3 DEF TypeOK
      <4>2. nxt' \in [Worker -> 0 .. MaxRange]
        BY <1>0, <2>4, <3>1, <3>3 DEF TypeOK
      <4> QED BY <1>0, <2>2, <3>1, <4>1, <4>2 DEF TypeOK
    <3>5. nxt'[h] = k + 1 /\ \A g \in Worker : g # h => nxt'[g] = nxt[g]
      BY <1>0, <3>1 DEF TypeOK
    <3>6. Woken(h)'
      <4>1. \A i \in Index : From(h) <= i /\ i < To(h) =>
               calls'[i] = IF i < k + 1 THEN 1 ELSE 0
        <5>1. calls[k] = 0
          BY <2>3, <2>4, <3>2, <3>3 DEF Partial, Ran, Index
        <5> QED BY <2>3, <2>4, <3>3, <5>1 DEF Partial, Ran, Index
      <4>2. Partial(h)'
        BY <2>2, <2>3, <2>4, <3>2, <3>5, <4>1 DEF Partial, Ran
      <4> QED BY <2>1, <2>2, <2>3, <3>1, <4>2 DEF Woken
    <3>7. \A i \in Index : i >= arg => calls'[i] = calls[i]
      BY <2>4, <3>3 DEF Index
    <3> QED BY <1>0, <2>1, <2>2, <3>1, <3>3, <3>4, <3>5, <3>6, <3>7, WokenHelperStep
  <2>6. CASE ~(nxt[h] < stop[h])
    <3>1. hpc' = [hpc EXCEPT ![h] = "give"] /\ calls' = calls /\ nxt' = nxt
      BY <1>4, <2>6 DEF HelperRun
    <3>2. hpc'[h] = "give" /\ \A g \in Helper : g # h => hpc'[g] = hpc[g]
      BY <1>0, <3>1 DEF TypeOK
    <3>3. TypeOK'
      <4>1. hpc' \in [Helper -> {"absent", "wait", "slice", "loop", "give", "exited"}]
        BY <1>0, <3>1 DEF TypeOK
      <4> QED BY <1>0, <2>2, <3>1, <4>1 DEF TypeOK
    <3>4. Complete(h)
      BY <2>3, <2>4, <2>6 DEF Partial, Ran, Complete, Index
    <3>5. Woken(h)'
      BY <2>2, <2>3, <3>1, <3>2, <3>4 DEF Woken, Complete
    <3> QED BY <2>1, <2>2, <3>1, <3>2, <3>3, <3>5, WokenHelperStep
  <2> QED BY <2>5, <2>6
<1>5. CASE HelperGive(h)
  <2>1. /\ mpc \in {"wake", "own", "gather"} /\ h \in 0 .. job.slices - 1 /\ Woken(h)
        /\ hpc[h] = "give"
        /\ mpc = "wake" => h < w
        /\ mpc = "gather" => h >= w
    BY <1>5, HelperInCall DEF HelperGive
  <2>2. start[h] = 0 /\ done[h] = 0 /\ Complete(h)
    BY <2>1 DEF Woken
  <2>3. /\ done' = [done EXCEPT ![h] = 1] /\ hpc' = [hpc EXCEPT ![h] = "wait"]
        /\ UNCHANGED << pool, nWorkers, quit, job, start, mpc, w, spawned, arg,
                        nxt, stop, calls >>
    <3>1. Give(done[h]) = 1
      BY <1>0, <2>2 DEF Give
    <3> QED BY <1>5, <3>1 DEF HelperGive, loops
  <2>4. TypeOK'
    <3>1. done' \in [Helper -> 0 .. SemLimit]
      BY <1>0, <2>3 DEF TypeOK
    <3>2. hpc' \in [Helper -> {"absent", "wait", "slice", "loop", "give", "exited"}]
      BY <1>0, <2>3 DEF TypeOK
    <3> QED BY <1>0, <2>3, <3>1, <3>2 DEF TypeOK
  <2>5. /\ \A g \in Helper : g # h => hpc'[g] = hpc[g] /\ done'[g] = done[g]
        /\ hpc'[h] = "wait" /\ done'[h] = 1
    BY <1>0, <2>3 DEF TypeOK
  <2>6. Woken(h)'
    BY <2>2, <2>3, <2>5 DEF Woken, Complete, From, To
  <2> QED BY <2>1, <2>3, <2>4, <2>5, <2>6, WokenHelperStep
<1> QED BY <1>0, <1>1, <1>2, <1>3, <1>4, <1>5 DEF HelperStep, TypeOK

\* Every step of the pool preserves the invariant.
LEMMA PoolInvNext == PoolInv /\ [Next]_vars => PoolInv'
<1> SUFFICES ASSUME PoolInv, [Next]_vars PROVE PoolInv'
  OBVIOUS
<1>1. CASE MasterStep
  BY <1>1, CreateKeepsPoolInv, QuitKeepsPoolInv, WakeKeepsPoolInv,
     MasterRunKeepsPoolInv, GatherKeepsPoolInv DEF MasterStep
<1>2. ASSUME NEW h \in Helper, HelperStep(h) PROVE PoolInv'
  BY <1>2, HelperKeepsPoolInv
<1>3. CASE CallOnPool
  BY <1>3, CallKeepsPoolInv
<1>4. CASE DestroyBegin
  BY <1>4, QuitKeepsPoolInv
<1>5. CASE UNCHANGED vars
  BY <1>5 DEF vars, PoolInv, TypeOK, LifeInv, RestInv, QuitInv, CallInv, SequentialInv,
              CallDone, LastHelper, ToldToQuit, Quiet, Absent, Woken, Untouched,
              Complete, Partial, Ran, From, To
<1> QED BY <1>1, <1>2, <1>3, <1>4, <1>5 DEF Next, Gone

\* The inductive invariant holds in every reachable state of every pool.
THEOREM PoolInvariant == Spec => []PoolInv
BY PoolInvInit, PoolInvNext, PTL DEF Spec

\* Type correctness; in particular no loop bound ever leaves the range.
THEOREM TypeCorrect == Spec => []TypeOK
<1>1. PoolInv => TypeOK
  BY DEF PoolInv
<1> QED BY <1>1, PoolInvariant, PTL

\* modelblaster_pool_parallelize_1d returns only when fn has run exactly once
\* for every index below range, for any number of workers and any range.
THEOREM ReturnsMeanDone == Spec => []ReturnMeansDone
<1>1. PoolInv => ReturnMeansDone
  BY DEF PoolInv, ReturnMeansDone, CallDone
<1> QED BY <1>1, PoolInvariant, PTL

\* No helper reads the job descriptor, or the caller's ctx, outside a call.
THEOREM HelpersStayInsideCall == Spec => []HelpersOnlyRunInsideCall
<1>1. PoolInv => HelpersOnlyRunInsideCall
  BY HelperInCall DEF HelpersOnlyRunInsideCall
<1> QED BY <1>1, PoolInvariant, PTL

\* create_on_harts leaks no helper when it fails and destroy frees the struct
\* after the last helper has returned.
THEOREM HelpersNeverOutlivePool == Spec => []NoHelperOutlivesPool
<1>1. PoolInv => NoHelperOutlivesPool
  BY DEF PoolInv, RestInv, NoHelperOutlivesPool
<1> QED BY <1>1, PoolInvariant, PTL

\* No give ever meets a semaphore at 1, whatever its limit.
THEOREM BinaryRendezvous == Spec => []RendezvousIsBinary
<1>1. PoolInv => RendezvousIsBinary
  <2> SUFFICES ASSUME PoolInv, NEW h \in Helper PROVE start[h] + done[h] <= 1
    BY DEF RendezvousIsBinary
  <2>0. TypeOK /\ LifeInv /\ RestInv /\ h \in Nat
    BY DEF PoolInv, Helper
  <2>1. CASE pool # "live"
    BY <2>0, <2>1 DEF RestInv
  <2>2. CASE pool = "live" /\ mpc \in {"spawn", "idle", "sequential"}
    <3>1. h <= spawned \/ h > spawned
      BY <2>0, PoolAssumption DEF TypeOK
    <3> QED BY <2>0, <2>2, <3>1 DEF RestInv, Quiet, Absent
  <2>3. CASE mpc \in {"unwindGive", "unwindJoin", "destroyGive", "destroyJoin"}
    <3>1. QuitInv /\ pool = "live" /\ LastHelper = spawned
      BY <2>0, <2>3 DEF PoolInv, LifeInv, LastHelper
    <3>2. (h <= spawned \/ h > spawned) /\ (h < w \/ h >= w)
      BY <2>0, PoolAssumption DEF TypeOK
    <3> QED BY <2>0, <2>3, <3>1, <3>2 DEF QuitInv, ToldToQuit, Quiet, RestInv, Absent
  <2>4. CASE mpc \in {"wake", "own", "gather"}
    <3>1. CallInv /\ pool = "live" /\ spawned = nWorkers - 1
      BY <2>0, <2>4 DEF PoolInv, LifeInv
    <3>2. /\ h < job.slices \/ (h >= job.slices /\ h < nWorkers) \/ h > spawned
          /\ h < w \/ h >= w
      <4>1. job.slices \in Nat /\ nWorkers \in Nat /\ w \in Nat
        BY <2>0, PoolAssumption DEF TypeOK
      <4> QED BY <2>0, <3>1, <4>1
    <3>3. CASE h < job.slices
      BY <2>4, <3>1, <3>2, <3>3 DEF CallInv, Woken, Quiet
    <3>4. CASE h >= job.slices /\ h < nWorkers
      BY <3>1, <3>4 DEF CallInv, Quiet
    <3>5. CASE h > spawned
      BY <2>0, <3>1, <3>5 DEF RestInv, Absent
    <3> QED BY <3>2, <3>3, <3>4, <3>5
  <2> QED BY <2>0, <2>1, <2>2, <2>3, <2>4 DEF TypeOK, LifeInv
<1> QED BY <1>1, PoolInvariant, PTL

-----------------------------------------------------------------------------
(***************************************************************************)
(* The pool implements the abstract parallel-for.                          *)
(***************************************************************************)
\* The initial states map to initial states.
LEMMA ParallelForInit == Init => PF!Init
BY DEF Init, PF!Init, InCall, Zeros, Index, PF!None, PF!Index

\* An invocation of fn is an Exec of an index not executed before.
LEMMA RunIsExec ==
  ASSUME PoolInv, InCall, NEW k \in Index, k < arg, calls[k] = 0,
         calls' = [calls EXCEPT ![k] = @ + 1], UNCHANGED << mpc, arg >>
  PROVE  PF!Next
<1>1. calls' = [calls EXCEPT ![k] = 1]
  OBVIOUS
<1>2. PF!Exec(k)
  BY <1>1 DEF PF!Exec, InCall
<1> QED BY <1>2 DEF PF!Next, PF!Index, Index

\* A step of the pool is a step of the abstract parallel-for, or stutters.
LEMMA ParallelForStep ==
  ASSUME PoolInv, PoolInv', [Next]_vars
  PROVE  [PF!Next]_(PF!pfVars)
<1>0. TypeOK /\ MaxRange \in Nat
  BY PoolAssumption DEF PoolInv
<1>1. ASSUME UNCHANGED << InCall, arg, calls >> PROVE UNCHANGED PF!pfVars
  BY <1>1 DEF PF!pfVars
<1>2. CASE \/ \E harts \in HartLists : CreateNull(harts) \/ CreateBegin(harts)
           \/ Spawn \/ SpawnFails \/ CreateReturns \/ QuitGive \/ QuitJoin
           \/ DestroyBegin
  <2>1. InCall' = InCall /\ arg' = arg /\ calls' = calls
    BY <1>2 DEF CreateNull, CreateBegin, Spawn, SpawnFails, CreateReturns, QuitGive,
                QuitJoin, DestroyBegin, InCall
  <2> QED BY <1>1, <2>1
<1>3. CASE CallOnPool
  <2>1. CASE CallEmpty
    <3>1. PF!Call(0)
      BY <2>1 DEF CallEmpty, PF!Call, InCall, Zeros, Index, PF!None, PF!Index
    <3> QED BY <1>0, <3>1 DEF PF!Next
  <2>2. ASSUME NEW range \in 1 .. MaxRange, CallSequential(range) \/ CallParallel(range)
        PROVE  [PF!Next]_(PF!pfVars)
    <3>1. PF!Call(range)
      BY <2>2 DEF CallSequential, CallParallel, PF!Call, InCall, Zeros, Index, PF!None, PF!Index
    <3> QED BY <1>0, <3>1 DEF PF!Next
  <2> QED BY <1>3, <2>1, <2>2 DEF CallOnPool
<1>4. CASE WakeHelpers
  <2>1. InCall' = InCall /\ arg' = arg /\ calls' = calls
    BY <1>4 DEF WakeHelpers, InCall
  <2> QED BY <1>1, <2>1
<1>5. ASSUME InCall, mpc' = "idle", arg' = arg, calls' = calls PROVE PF!Next
  <2>1. CallDone'
    BY <1>5 DEF PoolInv
  <2>2. PF!Return
    BY <1>5, <2>1 DEF PF!Return, CallDone, PF!Index, Index, InCall
  <2> QED BY <2>2 DEF PF!Next
<1>6. CASE MasterRun
  <2>1. CASE nxt[0] < stop[0]
    <3> DEFINE k == nxt[0]
    <3>1. calls' = [calls EXCEPT ![k] = @ + 1] /\ UNCHANGED << mpc, arg >> /\ InCall
      BY <1>6, <2>1 DEF MasterRun, InCall
    <3>2. k \in Index /\ k < arg /\ calls[k] = 0
      <4>1. 0 \in Worker /\ k \in Nat
        BY <1>0, PoolAssumption DEF Worker, TypeOK
      <4>2. CASE mpc = "sequential"
        <5>1. /\ stop[0] = arg
              /\ \A i \in Index : calls[i] = IF i < nxt[0] THEN 1 ELSE 0
          BY <4>2 DEF PoolInv, SequentialInv
        <5>2. arg \in 0 .. MaxRange
          BY <1>0 DEF TypeOK
        <5>3. k \in Index /\ k < arg
          BY <2>1, <4>1, <5>1, <5>2, PoolAssumption DEF Index
        <5> QED BY <4>1, <5>1, <5>3
      <4>3. CASE mpc = "own"
        <5>1. Partial(0) /\ job.slices \in 1 .. nWorkers
          BY <4>3, CallSlices DEF PoolInv, CallInv
        <5>2. 0 \in 0 .. job.slices - 1
          BY <5>1
        <5>3. From(0) \in Nat /\ To(0) \in Nat /\ To(0) <= arg
          BY <4>3, <5>2, CallSlices
        <5> QED BY <1>0, <2>1, <4>1, <5>1, <5>3 DEF Partial, Ran, TypeOK, Index
      <4> QED BY <1>6, <4>2, <4>3 DEF MasterRun
    <3> HIDE DEF k
    <3> QED BY <3>1, <3>2, RunIsExec
  <2>2. CASE ~(nxt[0] < stop[0]) /\ mpc = "own"
    <3>1. InCall' = InCall /\ arg' = arg /\ calls' = calls
      BY <1>6, <2>2 DEF MasterRun, InCall
    <3> QED BY <1>1, <3>1
  <2>3. CASE ~(nxt[0] < stop[0]) /\ mpc = "sequential"
    BY <1>5, <1>6, <2>3 DEF MasterRun, InCall
  <2> QED BY <1>6, <2>1, <2>2, <2>3 DEF MasterRun
<1>7. CASE Gather
  <2>1. CASE w < job.slices
    <3>1. InCall' = InCall /\ arg' = arg /\ calls' = calls
      BY <1>7, <2>1 DEF Gather, InCall
    <3> QED BY <1>1, <3>1
  <2>2. CASE ~(w < job.slices)
    BY <1>5, <1>7, <2>2 DEF Gather, InCall
  <2> QED BY <2>1, <2>2
<1>8. ASSUME NEW h \in Helper, HelperStep(h) PROVE [PF!Next]_(PF!pfVars)
  <2>1. CASE HelperWake(h) \/ HelperSlice(h) \/ HelperGive(h)
    <3>1. InCall' = InCall /\ arg' = arg /\ calls' = calls
      BY <2>1 DEF HelperWake, HelperSlice, HelperGive, InCall
    <3> QED BY <1>1, <3>1
  <2>2. CASE HelperRun(h) /\ nxt[h] < stop[h]
    <3> DEFINE k == nxt[h]
    <3>1. calls' = [calls EXCEPT ![k] = @ + 1] /\ UNCHANGED << mpc, arg >>
      BY <2>2 DEF HelperRun
    <3>2. /\ mpc \in {"wake", "own", "gather"} /\ h \in 0 .. job.slices - 1
          /\ Woken(h) /\ hpc[h] = "loop"
      BY <2>2, HelperInCall DEF HelperRun
    <3>3. Partial(h)
      BY <3>2 DEF Woken
    <3>4. From(h) \in Nat /\ To(h) \in Nat /\ To(h) <= arg /\ h \in Worker
      BY <3>2, CallSlices, PoolAssumption DEF Worker, Helper
    <3>5. k \in Index /\ k < arg /\ calls[k] = 0
      BY <1>0, <2>2, <3>3, <3>4 DEF Partial, Ran, TypeOK, Index
    <3> HIDE DEF k
    <3> QED BY <3>1, <3>2, <3>5, RunIsExec DEF InCall
  <2>3. CASE HelperRun(h) /\ ~(nxt[h] < stop[h])
    <3>1. InCall' = InCall /\ arg' = arg /\ calls' = calls
      BY <2>3 DEF HelperRun, InCall
    <3> QED BY <1>1, <3>1
  <2> QED BY <1>8, <2>1, <2>2, <2>3 DEF HelperStep
<1>9. CASE UNCHANGED vars
  <2>1. InCall' = InCall /\ arg' = arg /\ calls' = calls
    BY <1>9 DEF vars, InCall
  <2> QED BY <1>1, <2>1
<1> QED BY <1>2, <1>3, <1>4, <1>6, <1>7, <1>8, <1>9 DEF Next, MasterStep, Gone

\* Every behaviour of the pool is one of the abstract parallel-for: exactly
\* once per index, nothing outside a call.
THEOREM PoolImplementsParallelFor == Spec => ImplementsParallelFor
<1>1. PoolInv /\ PoolInv' /\ [Next]_vars => [PF!Next]_(PF!pfVars)
  BY ParallelForStep
<1> QED BY <1>1, ParallelForInit, PoolInvariant, PTL DEF Spec, ImplementsParallelFor, PF!Spec
=============================================================================
