# A TLA+ verification of ModelBlaster

ModelBlaster turns neural networks into C programs for small RISC-V machines.
It extracts a graph of ops from each model, writes a kernel for each op, hands
the measured costs to an external scheduler (XPU-RT), and turns the schedule
that comes back into a program that runs several models, several instances of
each and several cores at once. On CUDA it optimises the same graphs in rounds:
an external optimiser, KernelBlaster, writes and times kernels, and changes of
the graph ("hints") are accepted or rejected on what was measured. This directory
models the parts where order, concurrency and failure decide whether that is
right, checks them with TLC on small instances, and proves with TLAPS what can be
proved for all of them.

Paths of code are relative to `src/`.

## 1. The system

### Parts, their state and their operations

| Part | Code | State it keeps | Operations |
|---|---|---|---|
| Thread pool | `runtime/modelblaster_pool/` | the struct, `quit`, the job, two semaphores per helper | create on harts, `parallelize_1d`, destroy |
| POSIX shim | `runtime/mb_posix_compat.h` | a `sem_t` per semaphore (no limit, unlike Zephyr's) | Zephyr's semaphores on Linux |
| Schedule ingest | `pipeline/ingest_xpurt_schedule.py` | the schedule's entries, the sort graph, the table | complete, admit time dependencies, sort, resolve, count fan-out |
| Schedule walker | generated by `pipeline/generate_xpurt_main.py` | workers, pools, hart locks, completion semaphores, completion counts | discover, audit, initialise, spawn, walk, join |
| Linear schedules | `pipeline/ingest_schedule.py`, `pipeline/generate_multi_main.py` | a list of slots | run the slots one after another |
| Schedule sharding | `pipeline/schedule_shards.py` | none | rewrite a schedule by shard factors |
| Build cache | `pipeline/build_cache.py` | a directory of products, lock files, a memo of failures | look up, lock, build, publish, evict |
| Rounds | `_run` in `pipeline/kb_graph_opt.py`, `kb_resume.py` | the hints file, `state.json`, the cache's index, `progress.json` | profile, plan, export, run, ingest, decide; mark, resume |
| Round barriers | `pipeline/kb_barrier.py`, `kb_halfway.py`, `kb_global.py` | `halfway.json`, `parked.json`, an inbox | pause, wait, import, park, restart from a pack |
| Hint waves | `evaluate_hints`, `GpuLeases` in `pipeline/kb_graph_opt.py`, `kb_proposals.py` | the leases, a lock file per GPU, result files | poll, lease, time again, decide |
| Round controller | `pipeline/round_controller.py`, `region_loop.py` | the best result, the moves refused | choose a move, accept, stop |
| CUDA streams | `pipeline/kb_concurrency.py` | a schedule of ops; events, lanes and budgets in the generated code | order ops, capture, replay |
| LLM budget | `pipeline/llm_budget.py` | a counter per client | check before, account after |
| LLM clients | `pipeline/*_client.py` | none | requests |
| Graph | `pipeline/extract_graph*.py`, `apply_*_hint.py`, `graph_*.py` | the IR | lower, fuse, split, shard, rewrite |
| Code generation | `pipeline/generate_skeleton.py`, `generate_kernels.py` | none | write C |
| Export and profiling | `pipeline/kb_export.py`, `verify_kernel.py`, `profile_kernel.py` | result files | compile, run, compare, measure |
| Runners | `validation/` | FireSim slots, processes | build, run, parse logs |
| Harnesses | `harness*/` | per-network ready flags (micro-ROS) | run one model, or one per thread |
| Decision loop | `scripts/` | round directories | drive all of the above |

### How they interact

The scheduler's JSON goes through *ingest*, which writes it as a C array, the
*dispatch table*. The *walker* is a C program generated around that table; it
has one thread per (core kind, hart), and an entry that reserves several harts
runs its kernel through a *thread pool* of its own, whose master is the walker
thread. Walker threads share completion semaphores (one per table entry), hart
mutexes and counters, and nothing else. On Linux the same C runs on the *POSIX
shim*. The measured times go back to the *decision loop*, which runs rounds:
build, measure, choose a change.

The graph optimiser's *rounds* work on one directory. A round profiles the
graph, exports problems, lets a KernelBlaster process optimise them, and takes
the winners into a cache; then it decides hints in *waves*. A wave is one more
KernelBlaster process, next to which a pool of threads times the pairs that are
ready again, on GPUs that both programs share by lock files. At *barriers* the
optimiser exchanges knowledge packages with a second host through files, for
which it may wait, or end and be restarted there from a pack of its directory. A
process that dies is restarted on the directory it left. Everything is compiled
through the *build cache*. The winner's CUDA graph is replayed with the *stream
schedule*.

### What is hard, and what makes each part correct

*Pool.* The job descriptor is plain memory, published by a semaphore give. A
call must invoke `fn` exactly once per index and must not return before the
last invocation, or a helper runs `fn` on a context that is gone. A creation
that fails half-way and a destruction must not free memory a helper uses.

*Ingest.* It must emit what the walker silently relies on: edges that point
backward in the table, a fan-out equal to the number of consumers, each
dispatch index of each instance once. It repairs schedules (ops the scheduler
left out) and drops time dependencies that would close a cycle.

*Walker.* The semaphores' tokens are anonymous: a consumer is right only because
counts balance. Deadlock freedom is an argument over three resources at once
(program order of each worker, tokens, mutexes) that nobody wrote down in one
place. Two scans of the table (discovery, audit) must agree on who runs what.
Any initialisation step can fail while threads already run.

*Build cache.* Several processes share a directory and own nothing but a lock per
key, which a waiting process gives up on after 30 minutes. A product must be the
product of what was asked for, must be built once, and must not be evicted while
it is used; whoever dies must leave nothing half done.

*Rounds and barriers.* A dozen files, no two of which change together. A
process may die between any two of them: no winner and no package may be lost, no
package counted twice, no expensive pass repeated, and a resumed KernelBlaster run must
find the problem its journal is about. A hint that is called accepted must have
its kernels in the cache; hints that conflict must be decided in rank order,
however they are spread over waves.

*Hint waves.* A verdict on a hint outlives the run, so it must rest on the kernels
and not on a lost GPU or a process that failed. Timed runs must be alone on their
GPU although two programs and several threads ask for it; whatever an attempt ends
in, its lease and lock must be given back.

*Stream schedule.* Ops that no tensor connects may share a buffer or a kernel's
static scratch; kernels that spin for all their blocks may hold the SMs that the
others need. The replay must give what the sequential run gives.

*micro-ROS harness.* Threads open their sessions one after the other by flags, end
each other's windows by flags, and share one trace table without a lock.

`PROJECT.json` lists every component and every hazard at its line.

## 2. The modules

| Module | What it is |
|---|---|
| `PoolSlices` | the arithmetic that cuts a range into slices |
| `ParallelFor` | abstract: what `parallelize_1d` promises a caller |
| `ModelblasterPool` | the pool, one action per semaphore operation, join, spawn or call of `fn` |
| `ModelblasterPoolProofs` | its theorems |
| `XpurtTable` | the dispatch table, and what the walker relies on (`WellFormed`) |
| `XpurtIngest` | `load()`: from a schedule to a dispatch table |
| `XpurtIngestProofs` | its inductive invariant: what an emitted table is, for every schedule |
| `DagExecution` | abstract: a run of a dispatch table as a run of a graph with exclusive harts |
| `XpurtWalker` | `main()` and the workers of the generated runner |
| `XpurtWalkerProofs` | its inductive invariant, the safety it implies, the refinement of `DagExecution`, and the arguments that count: tokens, deadlock freedom, capture |
| `BuildCache` | `cached_build`, `build`, `evict`: processes over a shared directory, one action per system call that matters |
| `BuildCacheProofs` | its inductive invariant and the theorems about builders, eviction and hits |
| `RoundFlow` | the rounds over one directory, one action per effect on a file |
| `RoundFlowProofs` | what is consistent whatever moment a process dies at |
| `HintWave` | one wave: the main thread, the pool's tasks, KernelBlaster's process |
| `HintWaveProofs` | its inductive invariant and the safety it implies |
| `StreamSchedule` | the analysis of the ops, the capture, and the GPU that replays |
| `StreamScheduleProofs` | that the concurrent replay reads what the sequential one does, and that what runs at once fits on the device |
| `MicrorosHarness` | the threads, timers and flags of the micro-ROS harness, in all its builds |
| `MicrorosHarnessProofs` | its types, that handshakes never overlap, and that the dumped trace is whole |
| `MC*` | the instances TLC checks |

`XpurtIngest` and `XpurtWalker` meet in `XpurtTable`: the first is proved to
emit tables that satisfy what the second assumes (`EmittedTableWellFormed` is
`WellFormed` but for the bound on the fan-out, which no code establishes; and
every emitted table `IsTable`).
Operators named `X_Suffix` (`Before_None`, `Fanout_PerEdge`, ...) are
deliberately wrong variants of the operator `X` that follows them: each is a
slip the code could contain, and each is known to violate a property. No
specification uses them.

### ModelblasterPool and the C code

`mpc` is the master's program counter and `hpc[h]` that of helper `h`; `w` is
the loop variable every loop of the master reuses; `nxt` and `stop` are `i` and
`e` of the loop over a slice. `job` is the published descriptor. `calls` is a
history variable: how often `fn` was invoked per index in the current call.

| Code | Actions |
|---|---|
| `modelblaster_pool_create_on_harts` | `CreateNull`, `CreateBegin`, `Spawn`, `SpawnFails`, `CreateReturns`; unwinding `QuitGive`, `QuitJoin` |
| `modelblaster_pool_destroy` | `DestroyBegin`, `QuitGive`, `QuitJoin` |
| `modelblaster_pool_parallelize_1d` | `CallEmpty`, `CallSequential`, `CallParallel`, `WakeHelpers`, `MasterRun`, `Gather` |
| `modelblaster_pool_worker_fn` | `HelperWake`, `HelperSlice`, `HelperRun`, `HelperGive` |

A helper's two reads of the job in `HelperSlice` are one step: the only writer
is the master at `CallParallel`, and `HelpersOnlyRunInsideCall` shows that no
helper is there then. CPU affinity, stack sizes and the malloc of the argument
block are left out, except that any of them may fail (`SpawnFails`).

### XpurtIngest and the Python code

A step is one pass of the loop that `load()` is in. `Synthesize` and
`ThreadJob` are `_complete_from_ir` (one op; then the threading of a job's new
ops into its consumers), `BuildGraph` and `AdmitTimeDep` build `adj` with the
reachability test, `Pop` and `Sorted` are Kahn's algorithm over the heap of
(start time, key), `EmitEntry` is the loop that resolves keys and raises, and
`CountFanout` the last pass. Times are small integers; a key is a pair of a job
and a dispatch id; `Rank` stands for the lexicographic order of the key
strings, which is what Python's tuple comparison falls back to.

Left out: the profile-database hash (a warning), `MB_INGEST_SKIP_IR_COMPLETION`
(it switches `Synthesize` and `ThreadJob` off), reading JSON, and the writing of
C files.

### XpurtWalker and the generated C code

`phase` is where `main()` is. `Discover` is the first scan of the table,
`Audit` the second, `InitEntryRuntime` validates entries and creates pools and
locks, `InitSems` the semaphores, `Spawn`/`SpawnNone` start the threads, `Join`
waits for them and destroys the pools and locks. `why` keeps the reason for a
reboot, which ends the run whatever the workers are doing.

A worker `v` is the pair of its core kind and hart. It sits at entry `at[v]`,
in the step `pc[v]`, having done `i[v]` takes or gives:

| Code | Action |
|---|---|
| loop over `deps`, then the `time_dep` unless it is among them: `k_sem_take` | `TakeDep` |
| start gate, then the branch on network and zero-cost | `PassGate` |
| `lock_entry_harts` (insertion sort, then ascending) | `LockHart` |
| lookup of the implementation, kernel call | `BeginKernel`, `EndKernel` |
| `unlock_entry_harts` | `UnlockHart` |
| atomic increment of `completed_dispatches` | `CountDispatch` |
| comparison of instance 0's output | `Capture` |
| `fanout` times `k_sem_give` | `Give` |
| `i_++` to the next claimed entry | `NextEntry` |

The order in which `main()` spawns the workers is left open. `ended` is a
history variable. Profiling counters, the trace, streaming and printing are left out; so is
the inside of a kernel, which for a composite entry is a call of the pool
(`BeginKernel` .. `EndKernel` is one such call, and `ReturnMeansDone` of the
pool, a theorem, is why one step can stand for its end).

### BuildCache and the Python code

`pc[p]` is where process `p` is in `cached_build`. `store` is the directory: for
each file (the product, the stored error or the `.meta` of a key) the version of
the source it was made from, and its mtime. The digest is abstracted to the
version: `Key` tells versions apart, which is what sha256 is trusted to do.
`asked[p]` is the version `p` computed its key from, `source` what the headers
hold now; the two differ if somebody edits a header meanwhile (`EditAnyTime`).

| Code | Actions |
|---|---|
| `cached_build`: the key; the call of `evict` | `Request`; the last line of `Return` |
| `hit()`: `exists`; `.meta` and mtime; `_link` | `HitCheck`, `Touch`, `Link` |
| `_neg` | `NegCheck` |
| `_flock` | `Lock`, `LockTimeout` |
| `run(tmp)` | `Compile`, `CompileBreaks` |
| `os.replace`, the `.meta`; the stored error | `Publish`, `WriteMeta`, `StoreError` |
| the `finally` of `build` | `Return` |
| `evict` | `Scan`, `ScanBreaks`, `EvictBegins`, `EvictOne`, `EvictMeta`, `EvictEnds` |
| a process that is killed | `Die` |

`hit` and `_neg` are tried before the lock (`hit`, `neg`) and with it (`hit2`,
`neg2`). A product that has gone when it is to be linked makes `_link` raise,
which is the answer `raised`. The scan of the directory is one step at its
earliest moment, `scanned`, and `evict`'s `now` is read later, as `clock`: the
files are in fact listed between the two, so that what the model holds to be
changed since the scan is at least what is. An entry counts one towards the cap,
whatever its size. Statistics, `tmp` files (which no scan lists) and the
toolchain's identity are left out, and a process makes one request at a time: in
the code the threads of a process share the count of misses, which decides only
how often `evict` is called.

`barged` is a history variable: the keys for which somebody has given up waiting.

### RoundFlow and the Python code

`pc` is where `_run` is. What is in memory (`docM`, `stM`, `waves`, `ready`) is
lost when the process dies; the rest is files, and each action changes at most
one of those that a crash may separate. The cache is the set of the items and
hints whose winners it holds, a problem is the part of the cache it was seeded
from when it was exported, a decision is its round and its vote. The round of a
decision is kept for the properties alone.

| Code | Actions |
|---|---|
| `_run`: start, the rounds left, the summary | `Start`, `BeginRound`, `Fixpoint`, `EndRound`, `Complete` |
| `refresh_at_round`, at its three callers | `Import`: `Merge` (the database), `Move` (to `done/`) |
| `state.json`; `parked.json` | `SaveState`, `MarkResumed` |
| the phases up to the plan | `Profile`, `Characterize`, `MarkChar`, `Park`, `Reprofile`, `MakePlan` |
| the plan's problems and run | `Export`, `MarkExport`, `StartKb`, `KbPauses`, `KbEnds` |
| `Halfway.sync` | `WritePaused`, `WaitForAck`, `RemoveAck`, `WriteDone` |
| the winners, the sent items, the hints | `Ingest`, `MarkIngest`, `MarkSent`, `SaveHints` |
| `_cands`, `schedule`, `decide_hints` | `PickCandidates`, `PlaceHint`, `FixWaves`, `NextWave`, `MarkWave` |
| `prepared`, `evaluate_hints`, `finish_hint` | `Prepare`, `StartWave`, `WaveEnds`, `FinishHint` |
| a process that ends at any point | `Crash` |
| a restart from a pack without the journals | `DropPartialRounds` |
| the controller's upload | `Deliver` |

`Crash` stands for a kill, an exception and an exit asked for by a signal alike,
at any step. An import is three or four of them (the packages listed and merged
into the database, their move, the ack's, the state), and a package may come between
any two. Packages are numbered in the order they are sent; each holds what the
earlier ones hold, and `known` is the newest the database has. A "lost" vote is an infrastructure failure of a hint or of its whole
wave; a hint rejected while its problems are built is a "rejected" vote. `Crash`
may cut off the cache's `index.json`, which is rewritten in place
(`kb_ingest.py:97`), if `TornWrites` says so: the next process cannot read it and
ends, every time (`pc = "failed"`). The runs set it to `FALSE`, the theorems hold
for both.

Here a wave is three steps; `HintWave` is what happens inside it.

### HintWave and the Python code

Three kinds of actors: the main thread (`main`, with `todo` for the loop it is
in), the tasks of the pool (`pc[h]` for the task of hint `h`, `queue` for those
not begun), and KernelBlaster's process (`kb`, `file`, `kbOn`).

| Code | Actions |
|---|---|
| `prepare_hint`, `kb.start` | `Prepare` |
| the polling loop: `proc.poll`, `read_result`, `ex.submit`, `break` | `Poll`, `Look`, `Looked` |
| `collect`, the end of the `with` over the pool | `Collect`, `Join`, `Leave` |
| once more for what was lost | `OnceMore`, `Measured` |
| `finish_hint` for each, in rank order | `Finish`, `Return` |
| `measure_hint`, the attempts | `Begin`, and `Judged` at every end of an attempt |
| `remeasure`: build both, time in turn | `Build`, `BuildFails`, `StartRun`, `EndRun` |
| the evaluator's `time_problems` | `StartRun`, `EndRun`, `EvaluatorFails` |
| `lease_device`, `_flock` | `Lease`, `TakeLock`, `LockTimesOut`, `Unlock`, `Unlease` |
| KernelBlaster's process (external) | `KbResult`, `KbTimes`, `KbTimed`, `KbExits` |

`way` says who times: ModelBlaster itself, which holds the GPU's lock over the
whole pair; KernelBlaster's evaluator, which takes it per run; or nobody
(`cfg.remeasure = 0`). A device in `Unlocked` has a lock file this user may not
open, in which case the code goes on without it. The lease picks by the time of
the last release, of which `older` keeps the order. A gain is "faster" or
"slower". A hardware mismatch is found twice in the code: by `time_problems` with the
GPU leased (`kb_eval.py:194`), which is `EvaluatorFails`, and from the recorded
results before any lease (`kb_graph_opt.py:1072`), which the model does not tell
from the other; `Judged` ends the task either way.

Left out: sleeps and traces, the restriction of the leases to the GPUs the results
recorded, locks on remote hosts, and how the process that an exception leaves
behind is killed.

### StreamSchedule and the Python code

`Analyze` is one iteration of the loops of `schedule()` for one op: ancestors in
the whole graph (`anc`) and in the partition (`A`), lane and chain. `Capture` is
the launch of one op under `mb_conc_launch`, with the edges that the analysis
leaves (`deps`) and, under the policy `strict`, the barrier an op that does not
fit its budget becomes. `Place`, `End` and `Join` are the GPU's: it gives a ready
op one SM at a time, and an op ends when it holds all it needs at once. An op is
one node of the graph and a byte range a set of cells. `mem` says who wrote a cell
last; the ops read it while they run.

Left out: the sequential fallback (`MB_CONCURRENCY=0`), the warm-up of the lanes,
how the probe measures, the watchdog. `SERIAL_KINDS` is empty at this commit; the
model has it. Under the policy without budgets (`none`) a replay may hang, which
is what the watchdog is for; under `split` it is assumed that kernels keep to
their budget.

### MicrorosHarness and the C code

`build` is the configuration compiled: one executor per network (`node`), one for
two (`single`), one for the first and one for the other two with two timers
(`bc`), with one timer whose callback runs both (`fused`) or the second network
alone (`fusedNoC`, `MICROROS_FUSE_BC_NO_C`), or without micro-ROS (`norclc`), and no
micro-ROS at all (`direct`).

| Code | Actions |
|---|---|
| `node_thread_fn` and its variants: wait for the flag, open the session | `Start`, `SessionOpen`, `SessionFails`, `SeesNetA` |
| the loops, the timers' callbacks | `Spin`, `Tick` (external), `Leave` |
| `run_graph_*`, `trace_record` | `Reserve`, `Record` |
| `main`: joins, `emit_trace_block` | `Main` |

Taking an entry of the trace (`atomic_inc`) and writing it are two steps. Left
out: publishing, teardown, thread priorities, the broker, and the memory that
`main.c:202` warns may be overwritten.

## 3. What the runs show

| Run | Instance | Shows |
|---|---|---|
| `pool` | pools of 1 to 4 workers, good and bad hart lists, ranges 0 to 5, any number of calls, failing allocation and spawns | exactly-once calls, no helper outside a call or after the free, every call, creation and destruction ends; the pool implements `ParallelFor` |
| `walker` | 14 hand-picked tables and all 144 of three entries over two harts with backward edges, failing operating-system calls | tokens balance, nobody is stuck, captures are late enough, the run ends; it implements `DagExecution`, in which dependencies and harts are respected and a run that ends has executed every entry |
| `walker_capture` | two instances in a pipeline | **finding 2** |
| `ingest` | a model of three ops with any subset scheduled, every start time in 0..1 and every time dependency, beside a second job; schedules that must be refused | emitted tables are well formed and complete, synthesized ops are ordered, time dependencies never defeat data dependencies |
| `ingest_time_dep` | the situation of the comment on dropped edges | **finding 1** |
| `build_cache` | two processes, a source that compiles and one that does not, three requests, edits between requests, killed compilers and processes, failing writes | no product built twice, unless a wait was given up; hits are what was asked for; eviction takes only what was old at its scan or has changed since; every request comes back |
| `rounds` | two rounds of three hints, two of which conflict, and one item; a half-way pause or a park; a crash, a restart from a pack and a package at any moment | what a crash leaves is consistent, no winner and no package is lost, none counted that was not imported, hints are decided in rank order, the expensive pass is run once, the run returns |
| `rounds_twice` | one round without an exchange, one crash | **finding 3** |
| `streams` | every dataflow of four ops with at most two inputs each, four placements of the outputs, two of the slots, two partitions, four styles of policy and kernels, six SMs, a width capped at three | each op reads what it reads in sequence; lanes are apart; what runs together fits and replays end, where no more ops run at once than the cap counts |
| `microros` | every mode with two or three networks, with a one-shot network or none, with failing initialisations | handshakes never overlap, the dumped trace is whole, all threads return |
| `hint_wave` | two hints, over two GPUs (one without a lock) with one attempt or one GPU with two, each way to time, a process that times once and ends with any status, waits for locks that are given up | timed runs and pairs are undisturbed, verdicts rest on the kernels, a loss is final only after one more attempt, nothing is left leased or locked, the wave ends |
| `hint_wave_lost` | the same | **finding 4** |

The hand-picked tables of `walker` each hold one situation: a producer that is a
data and a time dependency of one consumer and a join across kinds (`Diamond`),
blocks that overlap in two harts and list them in opposite orders, with a
zero-cost view (`Blocks`), a pipeline of two instances (`Periodic`), an entry of
an unknown network (`Stranger`), and one table for each way `main()` or a worker
gives up. `Crowded` exceeds the semaphore limit: the properties that assume
`WellFormed` do not speak of it, the others still hold of it.

The type invariants, the inductive invariants and the properties that the
refinements or other properties subsume (`ReturnMeansDone`, `RendezvousIsBinary`,
`DependencyOrder`, `ExclusiveHarts`, `LocksOnlyAroundKernel`,
`AuditAgreesWithDiscovery`, `OneBuilder`) are theorems and are not repeated by a
run.

### Bounds, and why they are enough

* Pool: `MaxWorkers = 4`, `MaxRange = 5`, so that a range is smaller than, equal
  to, larger than and no multiple of the number of workers, and at least one
  helper is inactive in some calls. `SemLimit = 2` is one more than any
  semaphore is shown to hold. The theorems have no bounds.
* Walker: `Horizon = 1` bounds the clock: entries start now or one tick later,
  which is all the gate can tell apart between two entries. `MaxWorkers`,
  `MaxHarts`, `MaxWidth`, `MaxPools` are one less than the tables `ManyWorkers`,
  `FarHart`, `TooWide`, `ManyPools` need, so that each limit is met and passed.
  `SemLimit = 2` (32 in the code) is met by `Diamond` and passed by `Crowded`.
* All tables: three entries are the fewest with a join, a chain and an overlap of
  two blocks; two harts the fewest with opposite lock orders. The entries' order
  of kinds is fixed (the last may be of either kind).
* Ingest: three ops, one of them free and one scalar; one model in which IR
  order and id order differ.
* Build cache: two processes are what it takes to race for a lock, and to evict
  under a reader; one key whose product is built and one whose error is stored
  are two entries, one more than the cap. Times keep the order they have in the
  code (refresh at 60 s, `min_age` 600 s, the lock and the stored errors for
  longer than a compilation): `Refresh = 0`, `MinAge = 2`, `LockWait = 0`,
  `NegTtl = 1`, so that with `Horizon = 2` products get old enough to be
  refreshed and evicted, errors expire and waits are given up. `MaxRequests = 3`:
  a builder, one that races it, and one that comes later.
* Rounds: three hints of which the first and the last conflict, two to a wave and
  two candidates a round (`MaxVariants`): a round has two waves when the two
  conflict, one when they do not, and a hint is left for the next round.
  `Rounds = 2` lets a hint gather two votes and an item be planned again;
  `InfraRetry = RetryMax = 1` are met and passed. One crash, one restart from a
  pack and one package (`MaxCrashes`, `MaxDrops`, `MaxPackages`) may fall between
  any two steps, those inside an import included; that a second package arrives
  while the first is imported, and everything else with any number of each, is left
  to the theorems.
* Streams: `N = 4` ops are the fewest with two branches, a join and an op before
  or after them; the placements alias buffers in place, by reuse, and with the
  graph's input. `SMs = 6` and `WidthCap = 3` (32 in the code) are chosen so that
  the cap is met by three ops at once and passed by four, whose budgets then add up
  to eight SMs of six; section 6 says what the properties make of that.
* micro-ROS: `MaxIters = 2` runs, a network of two dispatches, `TraceMax = 5`
  entries, which some builds fill and some do not, `MaxTicks = 2` firings of a
  timer.
* Hint waves: `N = 2` hints are more than the GPUs in one pool and as many as in
  the other; `KbRuns = 1` timed run of KernelBlaster can fall into any step.

### Fairness

`main()` and the workers are threads of a preemptive scheduler, none of them
spins without yielding (the start gate calls `k_yield`), and each locks a
mutex only as often as it has entries, so a mutex cannot be taken away from a
waiting worker for ever: weak fairness of `main()`, of each worker and of the
clock. For the pool: weak fairness of the master's steps inside a call, a
creation or a destruction, and of each helper. That the owner calls the pool or
destroys it is not assumed.

For the build cache: weak fairness of each process while a request or an
eviction is under way, which includes that its compiler ends (every call of it
has a time limit). Neither the clock, nor requests, nor edits, nor deaths are
assumed to happen: `EveryRequestReturns` does not rest on the wait being given
up. Polling the lock is fair enough since requests are few: each holder releases
it and asks again at most a bounded number of times.

Rounds: weak fairness of the process's next step, which includes that the command
is run again after a process has died, that KernelBlaster ends (each of its calls
has a time limit) and that the wait for the controller does (by its timeout).
Crashes, packs and packages need not happen, and happen finitely often
(`FlowReturns` speaks of such runs). Streams: the export and the GPU keep working
(`WF(Next)`); which ready op is placed is left to the GPU. micro-ROS: weak
fairness of each thread, each timer and `main`. Hint waves: weak fairness of the
main thread and of each task, and of KernelBlaster's process in ending its timed
runs and in exiting, not in writing results; the lock a task waits for is then
free from some point on, since the process times finitely often and the pool never
has two tasks on one GPU.

`CHECK_DEADLOCK FALSE` in all runs but the pool's: `done`, `fatal`, `error`,
`returned`, `raised`, `failed`, the joined replay, the dumped trace and a cache
whose requests are all made are final states; a harness in which an initialisation
failed, and a replay without budgets, may stop too. That nothing else is final is
what the liveness properties and `NeverStuck` say. The pool's run checks for
deadlock.

## 4. What is proved

`ModelblasterPoolProofs` proves, for every number of workers, every bound on the
range, every semaphore limit of at least 1 and every set of hart lists
(`PoolAssumption`), the safety of the pool: `TypeCorrect`, `ReturnsMeanDone`,
`HelpersStayInsideCall`, `HelpersNeverOutlivePool`, `BinaryRendezvous`, and
`PoolImplementsParallelFor`.

None of these is inductive. "The call has returned, so all calls of `fn` are
done" says nothing of how it came about; the argument needs, for every phase of
the master, where each helper is, what its two semaphores hold, and how much of
its slice it has run. That is `PoolInv`: `CallInv` for the phases of a call,
`QuitInv` for those of a teardown, `RestInv` for the rest, and `LifeInv` for who
owns the struct. `PoolInvInit` and the
`...KeepsPoolInv` lemmas, one per group of actions, show it inductive.

The slices need arithmetic of their own: that slice bounds are in range
(`SliceBounds`), that different slices are apart (`SlicesApart`) and that they
cover the range (`SlicesCover`). These are nonlinear; they rest on `Euclid`.

`XpurtIngestProofs` proves for any set of finite schedules, any networks, cores,
job names and order of keys (`IngestAssumption`: an op's id is its own, its
producers are ops of its network, job names, keys and times have their types):
`DataDepsAlwaysSorted`, `AdmittedTimeDepsAlwaysHold`, `EmittedTableIsWellFormed`,
`EmittedTableIsTyped`, `SynthesizedOpsAreChained` and `EveryDispatchIsOnce`. The
last also assumes `OneJobPerInstance`, that no two job names are read as the same
instance of a network. The code does not see to it: `_split_job_name` reads `mlp`
and `mlp0` as instance 0 of `mlp`, and a schedule with both has its dispatches
twice.

`IngestInv` has a part for each loop of `load()`. `RawInv`: completion only adds
entries, and they keep their types. `ChainInv`: a synthesized op comes after those
of its producers that the scheduler had placed, and once a job is done with, its
synthesized ops are among the dependencies of their consumers; both are needed,
since an edge between two of them is threaded only at the end. `GraphInv`: adding
the edge of a time dependency keeps an acyclic graph acyclic, because the test that
admits it is a closure (`Reaches`): the set of what is reachable from the entry is
closed, and does not hold the other end. `OrderInv`: what a sorted entry comes
after was sorted before it, so that a sort that stops early has found a set without
a least element, and the data dependencies have it too. `TableInv`: the entries
emitted so far are the first of the order, and none had a fault.
`EveryDispatchIsOnce` then counts: `Remap` is injective on the ops that cost
something and onto their count, and `Ascending` lists each consumer's producers
once, which is what balances the fan-out.

`XpurtWalkerProofs` does the same for the walker: for
every set of tables with well-typed columns (`IsTable`), any number of workers,
harts, networks and instances, and every limit of the semaphores and bound of
the clock (`WalkerAssumption`).

* `DependenciesRespected`, `HartsExclusive`, `LocksAroundKernels`, `AuditAgrees`
  and `WalkerImplementsDag` do not assume a well-formed table: whatever ingest
  emits, the walker may hang on it but never runs a kernel early or on a hart
  that is taken, and when `main()` has joined its workers every entry has been
  executed (`JoinReturns`, from the audit).
* `TokensAlwaysBalance` and `NoDeadlock` are about tables that are `WellFormed`,
  which `EmittedTableIsWellFormed` proves of ingest, but for the limit on the
  fan-out; `EmittedTableIsTyped` proves `IsTable`.
* `CaptureIsLate` needs the table to hold all of the model's dispatches.

The invariant is `WalkerInv`. A kernel may begin
because its tokens were taken, tokens were given because their producers have
ended (`TokenInv`, `DepsOf`), and a producer has ended exactly if its worker has
passed it (`WalkOf`: no other worker claims it, which is what the audit has
established, `UpInv`). `LocksOf` says that a worker holds a prefix, in ascending
order, of the mutexes it needs, and `OwnerInv` that nobody else holds any. Each
step has a lemma, `...Keeps`; `WorkerStep` is what they share: what is left to
show of a step of one worker, the others being where they were.

Balance is proved by counting: the consumers that have taken a token of an entry
(`Taken`) grow by one with each `TakeDep`, since a consumer's takes are distinct,
and a give meets a semaphore below its limit because what it holds is less than
the fan-out. Deadlock freedom is two arguments. `NoLockCycle`: of the workers
that wait for a mutex take one that waits for the greatest hart; its owner holds
that hart, so it waits for a greater one. `TokenIsThere`: if nobody waits for a
mutex take the worker with the least entry; the producer it waits for lies
before that entry, so its worker is past it and has given a token for every
consumer, and this one is not taken.

`BuildCacheProofs` proves for any set of processes and versions, all times, and
with deaths and edits at any moment (`CacheAssumption`): `TypeCorrect`,
`OneBuilderAtATime`, `BuiltOnce` and `EvictionSparesTheYoung`. The invariant is
`CacheInv`: who is past the lock holds it, or its key is `barged`
(`InsideHolds`); nobody else holds it (`HolderInside`); what a builder looked for
in vain with the lock is still missing, because only a builder could have put it
there (`StillMissing`); and the difference between an eviction's list and the
directory is newer than the list (`ScanIsStale`). The last needs
`StillMissing`: a product that was finished before the scan and is published
after it would be older than the scan, but it was then missing in the scan.

`HitsAreCurrent` has one hypothesis more, `EditAnyTime = FALSE`: nobody edits a
header while a request is under way. It needs an invariant of its own,
`KeyTellsContent`: a hit is right because the file it found is of the content its
key was computed from, which was seen to by another process, perhaps one that has
died since, at a time when its own key was current (`CacheTellsContent`).

`RoundFlowProofs` proves, for any hints, ranks, conflicts, widths, retries, items
and rounds, any number of crashes, restarts and packages, and with indexes that
are cut off (`FlowAssumption`): `RoundTypeCorrect`, `DecisionsRecorded`,
`AcceptedCached`, `SentIngested`, `JournalsMatch`, `PackagesKept`, `RankOrder`
and `OneCharacterization`. The invariant `FlowInv` relates memory to disk for
every place the process can be at: which state a live process has read and not yet
saved (`Counts`), that a decided hint of the round is on disk with its outcome
(`DecisionInv`), that what is called accepted in memory or on disk is cached
(`CachedInv`), what the results say of sent items (`SentInv`), that a journal, once
begun, is one of the exported problem (`JournalInv`), that a listed package is known
or refused and that no count exceeds what the database knows (`PackageInv`), what a park excludes (`CharInv`), and that waves respect the ranks
of conflicting hints and are decided in their order (`WaveInv`). Each part has one
lemma, `...Step`, that goes through the actions.

`HintWaveProofs` proves for any number of hints, pools, attempts and timed runs
(`WaveAssumption`): `WaveTypes`, `TimedAlone`, `PairAlone`, `VerdictOnKernels`,
`LostAfterOnceMore` and `LeavesNothing`. `WaveInv` has a part for each of the
shared things: the leases (`LeaseInv`), the lock files (`LockInv`), the queue
(`QueueInv`), where the main thread may be (`PhaseInv`), what the result files and
their copies say of each other (`FileInv`), the count of attempts (`CountInv`),
and what verdicts rest on (`VerdictInv`). `TaskEffect` says once for all actions
of a task what they can do to the shared state; the `...Step` lemmas use it.

`StreamScheduleProofs` proves for any programs, ops, cells and SMs
(`StreamAssumption`): `StreamTypeCorrect`, `LanesDiffer`, `ReadsSequential` and,
under one hypothesis, `BudgetsFit`.
`ScheduleInv` says that `A` holds the ancestors of every conflicting pair
(`Order`), that ops of a slot that may overlap have different lanes (`Lanes`), that
the captured edges include the reduction of `A` (`Edges`), and what memory holds of
what has ended (`Replayed`). `EdgesSuffice` is the step that is easy to get wrong:
if all direct predecessors of an op have ended, so have all its ancestors, though
the reduction has dropped their edges.

`BudgetsFit` is an argument about chains and antichains. Ops that run at once are
not ordered (`Resident`: an op starts when what its edges name has ended), and two
ops of one chain are (`Chains`), so that `r` ops at once lie on `r` chains
(`RunsAtOnce`). The chains that may overlap one of them include those of the others, so
its width is at least `r` (`WidthCounts`) and its share at most the `r`th part of
the device (`ShareFits`, `NeedFits`); an op that needs all of it is exclusive, and
barriers order everything else before or after it (`Apart`). The hypothesis is
`BudgetsKept`: under the policy `split` no kernel takes more than its budget, which
is what that policy trusts kernels to do. The cap on the width is in the property
itself: `NeedsFit` speaks of the moments at which no more ops run than the cap
counts (`WithinCap`), whatever the graph and the device; at these the width of each
op that runs is at least their number, capped or not.

`MicrorosHarnessProofs` proves `OneHandshake`: in every build a flag is set by one
thread, after its own handshake, and that of `net_a` only after that of `net_b`
(`SessionInv`); `HarnessTypes`, with the cap on the runs of `net_b`: one thread
runs it, at most once a turn, and looked at the cap when the turn began; and
`TraceIsWhole`. The trace is a matter of two threads between taking an entry and
writing it. `TraceInv` says that a network is run by one thread (`OwnNets`), that
two threads never hold the same entry (`OwnEntries`), and that an entry that was
taken is either still to be written by the thread that holds it or holds a dispatch
that has been recorded, each recorded dispatch having one as long as there was room
(`TraceKnown`). When all threads have exited nothing is still to be written. The
assumption `HarnessAssumption` says in addition that the mark for "no entry" is no
number.

## 5. What is only model-checked

Liveness (`CallsReturn`, `CreateAndDestroyFinish`, `Terminates`,
`EveryRequestReturns`, `FlowReturns`, `ReplayFinishes`, `AllReturn`, `WaveEnds`) is
out of the prover's reach: they rest on fairness, hence on `ENABLED`. `NoDeadlock`
is the safety half of `Terminates`. `ImplementsParallelFor` and `ImplementsDag` are
proved step by step for the safety of the abstract specifications
(`PoolImplementsParallelFor`, `WalkerImplementsDag`). Every invariant that a run
checks is a theorem too, under the hypotheses named above.

## 6. Findings

Each of the first four is a violation run; `PROJECT.json` quotes the lines.

1. *Dropped time dependencies.* A time dependency that closes a cycle is left
   out of the sort graph "for nothing correctness-wise", but stays in the entry.
   Since the entry reaches its time dependency in the graph, the dependency is
   always sorted behind it, and the check for forward time dependencies raises.
   `AdmittedTimeDepsHold` is the other half: no other edge ever does.
2. *Capture.* The output of instance 0 is compared when the last of its
   dispatches completes. An entry of instance 1 on another hart does not wait
   for that and may have begun to write the same buffer.
3. *A decision recorded twice.* `decide_hints` saves the hints file and then marks
   the wave, "after the hints file: a decision is never recorded twice". A process
   that dies between the two has recorded and not marked it: the resumed round
   decides the wave again, and the evidence of that round counts twice.
4. *A lost result is rejected.* A result file that is missing although
   KernelBlaster exited with status 0 is "not a verdict" while the wave is polled;
   `collect` replaces it by a result without the tag that says so, and
   `finish_hint` rejects the hint on it. With any other status, and for a result
   that is there and tagged, `VerdictRestsOnKernels` shows that it is as promised.

What the models also have in them, and no run isolates:

* `evict` decides by a list it made earlier and unlinks by name. A hit's refresh
  may come too late for it; if the unlink falls between the hit's test and its
  link, the request raises (the answer `raised`). `YoungSurvives` says what does
  hold.
* A header that is edited between the computation of a key and the compilation is
  stored under the old content's key (`EditAnyTime`); `HitIsCurrent` is false then, and
  the run and `HitsAreCurrent` assume that no request is under way when a file is
  edited.
* A fan-out beyond 32 loses tokens on Zephyr, and a consumer waits for ever
  (`generate_xpurt_main.py:1082`). Nothing checks the limit; `TokensBalance` and
  `NeverStuck` are about tables within it (`WellFormed`), as the code's comment is.
* The width of an op is capped at 32 (`kb_concurrency.py:175`), where the budget is
  described as the SMs divided by the width (`kb_concurrency.py:28`). When more than
  32 ops run at once on a device of more than 32 SMs, the shares add up to more than
  the device, and kernels that spin for all their blocks may wait for each other.
  `NeedsFit` and `ReplayFinishes` are therefore stated for as many ops at once as the
  cap counts (`WithinCap`); without that premise the run finds `NeedsFit` violated.
* Two jobs whose names are read as one instance of a network (`mlp` and `mlp0`,
  `ingest_xpurt_schedule.py:93`) both pass the ingest, and that instance has its
  dispatches twice (`OneJobPerInstance`).
* A product without its `.meta`, because its builder died, is served and never
  refreshed, and so evicted first.
* An entry whose core has no hart carries the hart -1: discovery and audit provide
  for it (`claims_unbound`), `init_entry_runtime` refuses it (table `Unbound`).
* The table is ordered by dependencies first and by start time second, where a note
  (`notes/xpurt_walker_semantics.md:84`) says by start time.
* The cache's `index.json` is rewritten in place; a process that dies in it leaves
  half a file that ends every later process (`TornWrites`).
* A thread of the micro-ROS harness whose initialisation fails leaves its flag
  unset, and who waits for it waits for ever.

## 7. What is not modelled

* *Extraction, lowering, rewrites of the graph, sharding, code generation*: pure
  translations without state or order; what they must preserve is numeric and is
  judged by execution (`graph_verify.py`).
* *Numeric kernels, models, configurations*: data.
* *LLM clients and budget*: requests to a service, a counter per client that is
  looked at before a call and added to after it; nothing else depends on them.
* *Export, verification, profiling, runners, scripts, decision loop*: one process
  after another, and parsing of what they print.
* *Linear schedules and the single-model harnesses*: one thread, one list.
* *Round controller and region loop*: off by default; heuristics on measured costs
  that skip a part of a round or end the loop.
* *In the graph search*: the beam and the interleaved engine, the SOL gate, audits,
  re-queued hints, the search of candidates. They decide what a plan or a wave
  holds, which the models leave open.
* *In rounds and barriers*: the synchronisation after the characterization that does
  not end the process, the cases in which a park is skipped, the renaming of a round
  that another configuration left, and the handler that forwards signals. Its lock is
  not reentrant (`kb_resume.py:259`): a signal that arrives while the same thread
  registers a process would wait for itself. That is one window between two byte
  codes of one thread, which these models do not have.
* *In the stream schedule*: the watchdog, which compares wall-clock times.
