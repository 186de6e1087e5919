-------------------------- MODULE ModelblasterPool --------------------------
(***************************************************************************)
(* runtime/modelblaster_pool/modelblaster_pool.c: one pool, from creation  *)
(* on a list of harts through any number of parallelize_1d calls to its    *)
(* destruction.  Worker 0 is the master (the thread that owns the pool);   *)
(* workers 1 .. nWorkers-1 are the helper pthreads.  A step is one         *)
(* semaphore operation, one join, one spawn or one invocation of fn.       *)
(***************************************************************************)
EXTENDS Integers, Sequences, PoolSlices

CONSTANTS MaxWorkers,       \* MODELBLASTER_POOL_MAX_WORKERS
          MaxRange,         \* bound on the range of a call
          SemLimit,         \* k_sem limit; POSIX semaphores have none
          HartLists         \* the `harts` arguments tried

ASSUME PoolAssumption ==
  /\ MaxWorkers \in Nat \ {0}
  /\ MaxRange \in Nat
  /\ SemLimit \in Nat \ {0}
  /\ HartLists \subseteq Seq(Int)

VARIABLES
  pool,       \* "null" | "live" | "freed": the calloc'ed state struct
  nWorkers,   \* pool->n_workers
  quit,       \* pool->quit
  job,        \* pool->range and pool->n_active_slices
  start,      \* pool->start[w]
  done,       \* pool->done[w]
  mpc,        \* where the master is
  w,          \* the master's loop variable
  spawned,    \* helpers create_on_harts has started
  arg,        \* `range` of the call in progress, or of the last one
  hpc,        \* where each helper is
  nxt, stop,  \* loop variable i and bound e of each worker, master included
  calls       \* history: invocations of fn per index since the call

vars == << pool, nWorkers, quit, job, start, done, mpc, w, spawned, arg,
           hpc, nxt, stop, calls >>

Helper == 1 .. MaxWorkers - 1
Worker == 0 .. MaxWorkers - 1
Index  == 0 .. MaxRange - 1
Zeros  == [i \in Index |-> 0]

loops == << nxt, stop >>
sems  == << start, done >>

\* k_sem_give: a Zephyr semaphore at its limit drops the give.
Give(s) == IF s < SemLimit THEN s + 1 ELSE s

Init ==
  /\ pool = "null" /\ nWorkers = 0 /\ quit = 0
  /\ job = [range |-> 0, slices |-> 0]
  /\ start = [h \in Helper |-> 0] /\ done = [h \in Helper |-> 0]
  /\ mpc = "new" /\ w = 0 /\ spawned = 0 /\ arg = 0
  /\ hpc = [h \in Helper |-> "absent"]
  /\ nxt = [v \in Worker |-> 0] /\ stop = [v \in Worker |-> 0]
  /\ calls = Zeros

(***************************************************************************)
(* modelblaster_pool_create_on_harts                                       *)
(***************************************************************************)
ValidHarts(harts) ==
  /\ Len(harts) \in 1 .. MaxWorkers
  /\ \A i \in 1 .. Len(harts) :
       /\ harts[i] >= 0
       /\ \A j \in 1 .. i - 1 : harts[i] # harts[j]

\* Bad arguments, or no memory for the state struct: NULL, which every
\* caller reads as "run sequentially".
CreateNull(harts) ==
  /\ mpc = "new"
  /\ \/ ~ValidHarts(harts)
     \/ ValidHarts(harts)                                 \* calloc fails
  /\ mpc' = "idle"
  /\ UNCHANGED << pool, nWorkers, quit, job, sems, w, spawned, arg, hpc,
                  loops, calls >>

CreateBegin(harts) ==
  /\ mpc = "new"
  /\ ValidHarts(harts)
  /\ pool' = "live" /\ nWorkers' = Len(harts) /\ quit' = 0
  /\ start' = [h \in Helper |-> 0] /\ done' = [h \in Helper |-> 0]
  /\ mpc' = "spawn" /\ w' = 1 /\ spawned' = 0
  /\ UNCHANGED << job, arg, hpc, loops, calls >>

Spawn ==
  /\ mpc = "spawn" /\ w < nWorkers
  /\ hpc' = [hpc EXCEPT ![w] = "wait"]
  /\ w' = w + 1 /\ spawned' = spawned + 1
  /\ UNCHANGED << pool, nWorkers, quit, job, sems, mpc, arg, loops, calls >>

\* malloc, pthread_attr_* or pthread_create fails for helper w: the helpers
\* that did start are told to quit, then joined.
SpawnFails ==
  /\ mpc = "spawn" /\ w < nWorkers
  /\ IF spawned > 0
       THEN quit' = 1 /\ mpc' = "unwindGive" /\ w' = 1 /\ UNCHANGED pool
       ELSE pool' = "null" /\ mpc' = "idle" /\ UNCHANGED << quit, w >>
  /\ UNCHANGED << nWorkers, job, sems, spawned, arg, hpc, loops, calls >>

CreateReturns ==
  /\ mpc = "spawn" /\ w = nWorkers
  /\ mpc' = "idle"
  /\ UNCHANGED << pool, nWorkers, quit, job, sems, w, spawned, arg, hpc,
                  loops, calls >>

(***************************************************************************)
(* modelblaster_pool_destroy and the unwinding of a failed creation: give  *)
(* every helper's start semaphore, join every helper, free the struct.     *)
(***************************************************************************)
DestroyBegin ==
  /\ mpc = "idle" /\ pool = "live"
  /\ quit' = 1
  /\ mpc' = "destroyGive" /\ w' = 1
  /\ UNCHANGED << pool, nWorkers, job, sems, spawned, arg, hpc, loops, calls >>

\* The last helper each of the two pairs of loops visits.
LastHelper_OffByOne ==
  IF mpc \in {"unwindGive", "unwindJoin"} THEN spawned - 1 ELSE nWorkers - 1

LastHelper ==
  IF mpc \in {"unwindGive", "unwindJoin"} THEN spawned ELSE nWorkers - 1

QuitGive ==
  /\ mpc \in {"unwindGive", "destroyGive"}
  /\ IF w <= LastHelper
       THEN /\ start' = [start EXCEPT ![w] = Give(@)]
            /\ w' = w + 1
            /\ UNCHANGED mpc
       ELSE /\ mpc' = IF mpc = "unwindGive" THEN "unwindJoin" ELSE "destroyJoin"
            /\ w' = 1
            /\ UNCHANGED start
  /\ UNCHANGED << pool, nWorkers, quit, job, done, spawned, arg, hpc, loops,
                  calls >>

QuitJoin ==
  /\ mpc \in {"unwindJoin", "destroyJoin"}
  /\ IF w <= LastHelper
       THEN /\ hpc[w] = "exited"
            /\ w' = w + 1
            /\ UNCHANGED << mpc, pool >>
       ELSE /\ IF mpc = "unwindJoin"
                 THEN pool' = "null" /\ mpc' = "idle"
                 ELSE pool' = "freed" /\ mpc' = "gone"
            /\ UNCHANGED w
  /\ UNCHANGED << nWorkers, quit, job, sems, spawned, arg, hpc, loops, calls >>

(***************************************************************************)
(* modelblaster_pool_parallelize_1d, on the master                         *)
(***************************************************************************)
\* range == 0
CallEmpty ==
  /\ mpc = "idle"
  /\ arg' = 0 /\ calls' = Zeros
  /\ UNCHANGED << pool, nWorkers, quit, job, sems, mpc, w, spawned, hpc, loops >>

\* A NULL pool, or one of a single worker: the caller runs the whole range.
CallSequential(range) ==
  /\ mpc = "idle"
  /\ pool = "null" \/ nWorkers <= 1
  /\ arg' = range /\ calls' = Zeros
  /\ mpc' = "sequential"
  /\ nxt' = [nxt EXCEPT ![0] = 0] /\ stop' = [stop EXCEPT ![0] = range]
  /\ UNCHANGED << pool, nWorkers, quit, job, sems, w, spawned, hpc >>

\* Publish the job; the give that follows makes it visible.
CallParallel(range) ==
  /\ mpc = "idle"
  /\ pool = "live" /\ nWorkers > 1
  /\ arg' = range /\ calls' = Zeros
  /\ job' = [range |-> range,
             slices |-> IF range < nWorkers THEN range ELSE nWorkers]
  /\ mpc' = "wake" /\ w' = 1
  /\ UNCHANGED << pool, nWorkers, quit, sems, spawned, hpc, loops >>

\* The plausible slip of waking every helper, active slice or not.
WakeHelpers_All ==
  /\ mpc = "wake"
  /\ IF w < nWorkers
       THEN /\ start' = [start EXCEPT ![w] = Give(@)]
            /\ w' = w + 1
            /\ UNCHANGED << mpc, loops >>
       ELSE /\ mpc' = "own"
            /\ nxt' = [nxt EXCEPT ![0] = 0]
            /\ stop' = [stop EXCEPT ![0] = SliceEnd(0, arg, job.slices)]
            /\ UNCHANGED << start, w >>
  /\ UNCHANGED << pool, nWorkers, quit, job, done, spawned, arg, hpc, calls >>

\* One helper short of the slices handed out.
WakeHelpers_StopsEarly ==
  /\ mpc = "wake"
  /\ IF w < job.slices - 1
       THEN /\ start' = [start EXCEPT ![w] = Give(@)]
            /\ w' = w + 1
            /\ UNCHANGED << mpc, loops >>
       ELSE /\ mpc' = "own"
            /\ nxt' = [nxt EXCEPT ![0] = 0]
            /\ stop' = [stop EXCEPT ![0] = SliceEnd(0, arg, job.slices)]
            /\ UNCHANGED << start, w >>
  /\ UNCHANGED << pool, nWorkers, quit, job, done, spawned, arg, hpc, calls >>

\* Wake helpers 1 .. n_slices-1, then start on slice 0.
WakeHelpers ==
  /\ mpc = "wake"
  /\ IF w < job.slices
       THEN /\ start' = [start EXCEPT ![w] = Give(@)]
            /\ w' = w + 1
            /\ UNCHANGED << mpc, loops >>
       ELSE /\ mpc' = "own"
            /\ nxt' = [nxt EXCEPT ![0] = 0]
            /\ stop' = [stop EXCEPT ![0] = SliceEnd(0, arg, job.slices)]
            /\ UNCHANGED << start, w >>
  /\ UNCHANGED << pool, nWorkers, quit, job, done, spawned, arg, hpc, calls >>

\* One invocation of fn by the master, or the end of its loop.
MasterRun ==
  /\ mpc \in {"own", "sequential"}
  /\ IF nxt[0] < stop[0]
       THEN /\ calls' = [calls EXCEPT ![nxt[0]] = @ + 1]
            /\ nxt' = [nxt EXCEPT ![0] = @ + 1]
            /\ UNCHANGED << mpc, w >>
       ELSE /\ mpc' = IF mpc = "own" THEN "gather" ELSE "idle"
            /\ w' = 1
            /\ UNCHANGED << calls, nxt >>
  /\ UNCHANGED << pool, nWorkers, quit, job, sems, spawned, arg, hpc, stop >>

Gather ==
  /\ mpc = "gather"
  /\ IF w < job.slices
       THEN /\ done[w] > 0
            /\ done' = [done EXCEPT ![w] = @ - 1]
            /\ w' = w + 1
            /\ UNCHANGED mpc
       ELSE /\ mpc' = "idle"
            /\ UNCHANGED << done, w >>
  /\ UNCHANGED << pool, nWorkers, quit, job, start, spawned, arg, hpc, loops,
                  calls >>

(***************************************************************************)
(* modelblaster_pool_worker_fn, helper h                                   *)
(***************************************************************************)
\* Back to waiting without looking at the flag.
HelperWake_NoQuitCheck(h) ==
  /\ hpc[h] = "wait" /\ start[h] > 0
  /\ start' = [start EXCEPT ![h] = @ - 1]
  /\ hpc' = [hpc EXCEPT ![h] = "slice"]
  /\ UNCHANGED << pool, nWorkers, quit, job, done, mpc, w, spawned, arg,
                  loops, calls >>

HelperWake(h) ==
  /\ hpc[h] = "wait" /\ start[h] > 0
  /\ start' = [start EXCEPT ![h] = @ - 1]
  /\ hpc' = [hpc EXCEPT ![h] = IF quit = 1 THEN "exited" ELSE "slice"]
  /\ UNCHANGED << pool, nWorkers, quit, job, done, mpc, w, spawned, arg,
                  loops, calls >>

HelperSlice(h) ==
  /\ hpc[h] = "slice"
  /\ IF h < job.slices
       THEN /\ hpc' = [hpc EXCEPT ![h] = "loop"]
            /\ nxt' = [nxt EXCEPT ![h] = SliceStart(h, job.range, job.slices)]
            /\ stop' = [stop EXCEPT ![h] = SliceEnd(h, job.range, job.slices)]
       ELSE hpc' = [hpc EXCEPT ![h] = "give"] /\ UNCHANGED loops
  /\ UNCHANGED << pool, nWorkers, quit, job, sems, mpc, w, spawned, arg, calls >>

\* One invocation of fn by helper h, or the end of its loop.
HelperRun(h) ==
  /\ hpc[h] = "loop"
  /\ IF nxt[h] < stop[h]
       THEN /\ calls' = [calls EXCEPT ![nxt[h]] = @ + 1]
            /\ nxt' = [nxt EXCEPT ![h] = @ + 1]
            /\ UNCHANGED hpc
       ELSE hpc' = [hpc EXCEPT ![h] = "give"] /\ UNCHANGED << calls, nxt >>
  /\ UNCHANGED << pool, nWorkers, quit, job, sems, mpc, w, spawned, arg, stop >>

HelperGive(h) ==
  /\ hpc[h] = "give"
  /\ done' = [done EXCEPT ![h] = Give(@)]
  /\ hpc' = [hpc EXCEPT ![h] = "wait"]
  /\ UNCHANGED << pool, nWorkers, quit, job, start, mpc, w, spawned, arg,
                  loops, calls >>

(***************************************************************************)
(* The pool and its one caller.  "gone" is the end of a pool's life.       *)
(***************************************************************************)
CallOnPool ==
  \/ CallEmpty
  \/ \E range \in 1 .. MaxRange : CallSequential(range) \/ CallParallel(range)

MasterStep ==
  \/ \E harts \in HartLists : CreateNull(harts) \/ CreateBegin(harts)
  \/ Spawn \/ SpawnFails \/ CreateReturns
  \/ QuitGive \/ QuitJoin
  \/ WakeHelpers \/ MasterRun \/ Gather

HelperStep(h) == HelperWake(h) \/ HelperSlice(h) \/ HelperRun(h) \/ HelperGive(h)

Gone == mpc = "gone" /\ UNCHANGED vars

Next == \/ MasterStep
        \/ \E h \in Helper : HelperStep(h)
        \/ CallOnPool
        \/ DestroyBegin
        \/ Gone

\* The operating system schedules every thread; nothing obliges the owner to
\* make another call or to destroy the pool.
Fairness == WF_vars(MasterStep) /\ \A h \in Helper : WF_vars(HelperStep(h))

Spec     == Init /\ [][Next]_vars
FairSpec == Spec /\ Fairness

(***************************************************************************)
(* Properties                                                              *)
(***************************************************************************)
InCall == mpc \in {"wake", "own", "gather", "sequential"}

\* Types.  Loop bounds stay within the published range, so no helper ever
\* invokes fn with an index the caller did not ask for.
TypeOK ==
  /\ pool \in {"null", "live", "freed"}
  /\ nWorkers \in 0 .. MaxWorkers
  /\ quit \in {0, 1}
  /\ job \in [range : 0 .. MaxRange, slices : 0 .. MaxWorkers]
  /\ start \in [Helper -> 0 .. SemLimit] /\ done \in [Helper -> 0 .. SemLimit]
  /\ mpc \in {"new", "spawn", "unwindGive", "unwindJoin", "idle", "wake",
              "own", "gather", "sequential", "destroyGive", "destroyJoin",
              "gone"}
  /\ w \in 0 .. MaxWorkers /\ spawned \in 0 .. MaxWorkers - 1
  /\ arg \in 0 .. MaxRange
  /\ hpc \in [Helper -> {"absent", "wait", "slice", "loop", "give", "exited"}]
  /\ nxt \in [Worker -> 0 .. MaxRange] /\ stop \in [Worker -> 0 .. MaxRange]
  /\ calls \in [Index -> Nat]

\* parallelize_1d returns only when fn has run exactly once for every index
\* below range and for no other (the loops of worker_fn and of the master
\* partition the range, and Gather waits for all of them).
ReturnMeansDone ==
  mpc = "idle" => \A i \in Index : calls[i] = IF i < arg THEN 1 ELSE 0

\* fn and ctx live on the caller's stack: no helper is between reading the
\* job and signalling done unless the master is inside parallelize_1d.
HelpersOnlyRunInsideCall ==
  (\E h \in Helper : hpc[h] \in {"slice", "loop", "give"})
    => mpc \in {"wake", "own", "gather"}

\* create_on_harts never leaks a worker when it fails half way, and destroy
\* frees the struct only after the last helper is gone: nobody is left to
\* touch pool->start, pool->done or pool->quit.
NoHelperOutlivesPool ==
  pool # "live" => \A h \in Helper : hpc[h] \in {"absent", "exited"}

\* The rendezvous is binary: a helper never has two wakes, two completions or
\* a wake and a completion outstanding.  So the limit of 1 that Zephyr
\* enforces and the POSIX shim ignores never drops a give, on either port.
RendezvousIsBinary == \A h \in Helper : start[h] + done[h] <= 1

\* The pool implements the abstract parallel-for.
PF == INSTANCE ParallelFor WITH busy <- InCall, range <- arg, count <- calls
ImplementsParallelFor == PF!Spec

\* Every call returns, and every creation or destruction finishes.
CallsReturn == InCall ~> mpc = "idle"
CreateAndDestroyFinish == (mpc \notin {"idle", "gone"}) ~> (mpc \in {"idle", "gone"})

(***************************************************************************)
(* The inductive invariant behind the safety properties: for every phase   *)
(* of the master, where each helper is, what its two semaphores hold and   *)
(* how much of its slice it has run.                                       *)
(***************************************************************************)
From(v) == SliceStart(v, job.range, job.slices)
To(v)   == SliceEnd(v, job.range, job.slices)
Ran(v, k) == \A i \in Index :
               From(v) <= i /\ i < To(v) => calls[i] = IF i < k THEN 1 ELSE 0

Untouched(v) == \A i \in Index : From(v) <= i /\ i < To(v) => calls[i] = 0
Complete(v)  == \A i \in Index : From(v) <= i /\ i < To(v) => calls[i] = 1
Partial(v)   == /\ From(v) <= nxt[v] /\ nxt[v] <= To(v) /\ stop[v] = To(v)
                /\ Ran(v, nxt[v])

Absent(h) == hpc[h] = "absent" /\ start[h] = 0 /\ done[h] = 0
Quiet(h)  == hpc[h] = "wait" /\ start[h] = 0 /\ done[h] = 0
ToldToQuit(h) == /\ done[h] = 0
                 /\ \/ hpc[h] = "wait" /\ start[h] = 1
                    \/ hpc[h] = "exited" /\ start[h] = 0

\* A helper between the give of its start and the take of its done.
Woken(h) ==
  \/ hpc[h] = "wait" /\ start[h] = 1 /\ done[h] = 0 /\ Untouched(h)
  \/ hpc[h] = "slice" /\ start[h] = 0 /\ done[h] = 0 /\ Untouched(h)
  \/ hpc[h] = "loop" /\ start[h] = 0 /\ done[h] = 0 /\ Partial(h)
  \/ hpc[h] = "give" /\ start[h] = 0 /\ done[h] = 0 /\ Complete(h)
  \/ hpc[h] = "wait" /\ start[h] = 0 /\ done[h] = 1 /\ Complete(h)

CallInv ==
  /\ nWorkers > 1 /\ arg > 0 /\ job.range = arg
  /\ job.slices = IF arg < nWorkers THEN arg ELSE nWorkers
  /\ w \in 1 .. job.slices
  /\ \A i \in Index : i >= arg => calls[i] = 0
  /\ mpc = "wake" => Untouched(0)
  /\ mpc = "own" => Partial(0) /\ w = job.slices
  /\ mpc = "gather" => Complete(0)
  /\ \A h \in Helper :
       h < job.slices =>
         /\ mpc = "wake" /\ h >= w => Quiet(h) /\ Untouched(h)
         /\ mpc = "wake" /\ h < w => Woken(h)
         /\ mpc = "own" => Woken(h)
         /\ mpc = "gather" /\ h >= w => Woken(h)
         /\ mpc = "gather" /\ h < w => Quiet(h) /\ Complete(h)
  /\ \A h \in Helper : h >= job.slices /\ h < nWorkers => Quiet(h)

QuitInv ==
  /\ quit = 1 /\ w \in 1 .. LastHelper + 1 /\ spawned < nWorkers
  /\ \A h \in Helper :
       h <= LastHelper =>
         /\ mpc \in {"unwindGive", "destroyGive"} /\ h < w => ToldToQuit(h)
         /\ mpc \in {"unwindGive", "destroyGive"} /\ h >= w => Quiet(h)
         /\ mpc \in {"unwindJoin", "destroyJoin"} => ToldToQuit(h)
         /\ mpc \in {"unwindJoin", "destroyJoin"} /\ h < w => hpc[h] = "exited"

SequentialInv ==
  /\ pool = "null" \/ nWorkers <= 1
  /\ stop[0] = arg /\ nxt[0] <= arg
  /\ \A i \in Index : calls[i] = IF i < nxt[0] THEN 1 ELSE 0

\* Which phases own the struct.
LifeInv ==
  /\ mpc = "new" => pool = "null" /\ \A h \in Helper : hpc[h] = "absent"
  /\ mpc = "gone" => pool = "freed"
  /\ mpc \in {"idle", "sequential"} => pool \in {"live", "null"}
  /\ mpc \notin {"new", "gone", "idle", "sequential"} => pool = "live"
  /\ pool = "live" => nWorkers >= 1
  /\ pool = "live" /\ mpc \notin {"spawn", "unwindGive", "unwindJoin"}
       => spawned = nWorkers - 1
  /\ mpc = "spawn" => w = spawned + 1 /\ w <= nWorkers
  /\ pool = "live" /\ mpc \in {"spawn", "idle", "sequential"} => quit = 0

\* The helpers outside calls and teardown.
RestInv ==
  /\ pool # "live" => \A h \in Helper : /\ hpc[h] \in {"absent", "exited"}
                                        /\ start[h] = 0 /\ done[h] = 0
  /\ pool = "live" => \A h \in Helper : h > spawned => Absent(h)
  /\ pool = "live" /\ mpc \in {"spawn", "idle", "sequential"}
       => \A h \in Helper : h <= spawned => Quiet(h)

CallDone == \A i \in Index : calls[i] = IF i < arg THEN 1 ELSE 0

PoolInv ==
  /\ TypeOK
  /\ LifeInv
  /\ RestInv
  /\ mpc \in {"unwindGive", "unwindJoin", "destroyGive", "destroyJoin"} => QuitInv
  /\ mpc \in {"wake", "own", "gather"} => quit = 0 /\ CallInv
  /\ mpc = "sequential" => SequentialInv
  /\ mpc \in {"new", "spawn", "unwindGive", "unwindJoin", "idle"} => CallDone
=============================================================================
