------------------------------ MODULE HintWave ------------------------------
(***************************************************************************)
(* One wave of graph hints (evaluate_hints in src/pipeline/kb_graph_opt.py)*)
(* and the GPUs it is timed on.  One KernelBlaster process optimises the   *)
(* original and the variant of every hint of the wave; meanwhile the main  *)
(* thread polls for their result files, and a pool of threads re-times a   *)
(* hint's pair on a leased GPU as soon as both are there.  KernelBlaster   *)
(* times on the same GPUs: whoever times holds the GPU's lock file.  When  *)
(* the process has exited the hints are decided, in rank order.            *)
(***************************************************************************)
EXTENDS Integers, Sequences, FiniteSets

CONSTANTS
    Ways,          \* how re-measurements may be made, see below
    N,             \* hints of the wave; a hint is its rank
    Pools,         \* the re-timing pools: their devices, by index, those without
                   \* a lock file this user may open, cfg.remeasure_attempts
    KbRuns,        \* bound: timed runs KernelBlaster makes
    MayTimeOut,    \* the wait for a lock file can reach its limit
    None, KB

Hints == 1 .. N

ASSUME WaveAssumption ==
    /\ Ways \subseteq {"own", "eval", "off"}
    /\ N \in Nat /\ KbRuns \in Nat /\ MayTimeOut \in BOOLEAN
    /\ \A p \in Pools :
           /\ p.gpus \subseteq Nat /\ p.gpus # {} /\ p.unlocked \subseteq p.gpus
           /\ p.attempts \in Nat \ {0}
    /\ None \notin Nat \cup {"runs", "ok", "infra", "mismatch", "own", "faster", "slower",
                              "accepted", "rejected", "undecided"}
    /\ KB \notin Nat \cup {None}

Sides == {"original", "variant"}

VARIABLES
    pool,          \* the devices and attempts of this wave
    way,           \* "own": ModelBlaster runs the pair; "eval": KernelBlaster's
                   \* evaluator does; "off": no re-measurement (cfg.remeasure = 0)
    main,          \* where evaluate_hints is
    live,          \* the hints that were not rejected when they were prepared
    kb,            \* the process: None, "runs", "ok", "failed", "stopped"
    file,          \* the result files
    over,          \* done: what the last poll of the process said
    todo,          \* the hints a loop of the main thread has still to visit
    sides,         \* ro, rv: what the results were when the hint was submitted
    final,         \* what collect() returned
    queue, pc,     \* tasks the pool has not begun; where the task of a hint is
    left, tries,   \* attempts it has left, has made
    dev, runs,     \* the device leased, the sides whose runs are over
    got,           \* what they came to
    older,         \* pairs of devices: the first was released before the second
    lock,          \* who holds a device's lock file
    kbOn, kbLeft,  \* the devices KernelBlaster times on; the runs it has left
    times,         \* of a hint: what measure_hint left behind
    verdict        \* of a hint: what finish_hint recorded

process == <<kb, file, kbOn, kbLeft>>
loop    == <<main, over, todo, sides, final, verdict>>
task    == <<queue, pc, left, tries, dev, runs, got, times>>
fixed   == <<pool, way, live>>
vars    == <<fixed, process, loop, task, older, lock>>

Gpus     == pool.gpus
Unlocked == pool.unlocked
Attempts == pool.attempts

NoFile == [s \in Sides |-> "none"]

Init ==
    /\ pool \in Pools /\ way \in Ways
    /\ main = "prepare" /\ live = {}
    /\ kb = None /\ file = [h \in Hints |-> NoFile]
    /\ kbOn = {} /\ kbLeft = KbRuns
    /\ over = FALSE /\ todo = {}
    /\ sides = [h \in Hints |-> NoFile] /\ final = [h \in Hints |-> NoFile]
    /\ queue = <<>> /\ pc = [h \in Hints |-> "idle"]
    /\ left = [h \in Hints |-> 0] /\ tries = [h \in Hints |-> 0]
    /\ dev = [h \in Hints |-> None] /\ runs = [h \in Hints |-> {}]
    /\ got = [h \in Hints |-> NoFile]
    /\ older = {} /\ lock = [d \in Gpus |-> None]
    /\ times = [h \in Hints |-> None] /\ verdict = [h \in Hints |-> None]

---------------------------------------------------------------------------
(* KernelBlaster's process, as far as this code sees it.                   *)

KbResult(h, s, r) ==
    /\ kb = "runs" /\ h \in live /\ file[h][s] = "none"
    /\ file' = [file EXCEPT ![h][s] = r]
    /\ UNCHANGED <<fixed, kb, kbOn, kbLeft, loop, task, older, lock>>

KbTimes(d) ==
    /\ kb = "runs" /\ kbLeft > 0 /\ d \notin kbOn
    /\ \/ d \in Unlocked /\ UNCHANGED lock
       \/ d \notin Unlocked /\ lock[d] = None /\ lock' = [lock EXCEPT ![d] = KB]
    /\ kbOn' = kbOn \cup {d} /\ kbLeft' = kbLeft - 1
    /\ UNCHANGED <<fixed, kb, file, loop, task, older>>

KbTimed(d) ==
    /\ d \in kbOn
    /\ kbOn' = kbOn \ {d}
    /\ lock' = IF d \in Unlocked THEN lock ELSE [lock EXCEPT ![d] = None]
    /\ UNCHANGED <<fixed, kb, file, kbLeft, loop, task, older>>

\* It may exit with result files missing, whatever its status.
KbExits(status) ==
    /\ kb = "runs" /\ kbOn = {}
    /\ kb' = status
    /\ UNCHANGED <<fixed, file, kbOn, kbLeft, loop, task, older, lock>>

---------------------------------------------------------------------------
(* The main thread up to the end of the process.                           *)

\* The hints that survive prepare_hint go to one process; none: no process.
Prepare(l) ==
    /\ main = "prepare"
    /\ live' = l
    /\ IF l = {} THEN main' = "finish" /\ todo' = Hints /\ UNCHANGED kb
                 ELSE main' = "poll" /\ kb' = "runs" /\ UNCHANGED todo
    /\ UNCHANGED <<pool, way, file, kbOn, kbLeft, over, sides, final, verdict, task, older, lock>>

\* The process is polled before the files are looked at: what it wrote before
\* it exited is then there.
Poll ==
    /\ main = "poll"
    /\ over' = (kb # "runs")
    /\ todo' = { h \in live : pc[h] = "idle" }
    /\ main' = "look"
    /\ UNCHANGED <<fixed, process, sides, final, verdict, task, older, lock>>

Written(h) == \A s \in Sides : file[h][s] # "none"

\* ro or _lost, rv or _lost.
Read(h) == [s \in Sides |-> IF file[h][s] = "none" THEN "infra" ELSE file[h][s]]

First(S) == CHOOSE h \in S : \A g \in S : h <= g

Look ==
    /\ main = "look" /\ todo # {}
    /\ LET h == First(todo) IN
       /\ todo' = todo \ {h}
       /\ IF Written(h) \/ over
          THEN /\ sides' = [sides EXCEPT ![h] = Read(h)]
               /\ queue' = Append(queue, h)
               /\ pc' = [pc EXCEPT ![h] = "queued"]
          ELSE UNCHANGED <<sides, queue, pc>>
    /\ UNCHANGED <<fixed, process, main, over, final, verdict, left, tries, dev, runs, got, times, older, lock>>

\* A slip: the process is asked again once the files have been looked at.
Looked_PollsLate ==
    /\ main = "look" /\ todo = {}
    /\ main' = IF kb # "runs" THEN "collect" ELSE "poll"
    /\ UNCHANGED <<fixed, process, over, todo, sides, final, verdict, task, older, lock>>

Looked ==
    /\ main = "look" /\ todo = {}
    /\ main' = IF over THEN "collect" ELSE "poll"
    /\ UNCHANGED <<fixed, process, over, todo, sides, final, verdict, task, older, lock>>

\* collect(): exit 75 is Interrupted, which leaves evaluate_hints as soon as
\* the pool is empty; any other status but 0 loses the wave.  A result that is
\* missing all the same is {"final_ok": False}.
Collect ==
    /\ main = "collect"
    /\ final' = IF kb = "ok"
                THEN [h \in Hints |-> [s \in Sides |->
                        IF h \in live /\ file[h][s] = "none" THEN "missing" ELSE file[h][s]]]
                ELSE final
    /\ main' = IF kb = "stopped" THEN "leave" ELSE "join"
    /\ UNCHANGED <<fixed, process, over, todo, sides, verdict, task, older, lock>>

---------------------------------------------------------------------------
(* A task of the pool: measure_hint.                                       *)

Ended   == { h \in Hints : pc[h] = "done" }
Working == { h \in live : pc[h] \notin {"idle", "queued", "done"} }

\* min(len(live), 2 * n_dev): one builds while the other times.
MaxWorkers == IF Cardinality(live) < 2 * Cardinality(Gpus)
              THEN Cardinality(live) ELSE 2 * Cardinality(Gpus)

\* ModelBlaster builds both programs before it asks for a GPU; the evaluator
\* builds them on the GPU it was given.
FirstStep == IF way = "own" THEN "build" ELSE "lease"

Fresh(h, n) ==
    /\ left' = [left EXCEPT ![h] = n]
    /\ runs' = [runs EXCEPT ![h] = {}]
    /\ got' = [got EXCEPT ![h] = NoFile]

Attempt(h, n) == Fresh(h, n) /\ pc' = [pc EXCEPT ![h] = FirstStep]

Worthwhile(h) == way # "off" /\ \A s \in Sides : sides[h][s] = "ok"

Begin(h) ==
    /\ queue # <<>> /\ h = Head(queue) /\ Cardinality(Working) < MaxWorkers
    /\ queue' = Tail(queue)
    /\ IF Worthwhile(h)
       THEN Attempt(h, Attempts)
       ELSE pc' = [pc EXCEPT ![h] = "done"] /\ UNCHANGED <<left, runs, got>>
    /\ UNCHANGED <<fixed, process, loop, tries, dev, times, older, lock>>

Passed(g)   == \A s \in Sides : g[s] = "ok"
Infra(g)    == ~ Passed(g) /\ \A s \in Sides : g[s] \in {"ok", "infra"}
Mismatch(g) == g["original"] = "mismatch"

\* An attempt that came to g is over: infrastructure alone is tried again, and
\* HardwareMismatch ends the task.
Judged(h, g, pace) ==
    /\ tries' = IF Mismatch(g) THEN tries ELSE [tries EXCEPT ![h] = @ + 1]
    /\ IF Infra(g) /\ left[h] > 1
       THEN Attempt(h, left[h] - 1) /\ UNCHANGED times
       ELSE /\ times' = [times EXCEPT ![h] = CASE Passed(g)   -> pace
                                               [] Infra(g)    -> "infra"
                                               [] Mismatch(g) -> "mismatch"
                                               [] OTHER       -> "own"]
            /\ pc' = [pc EXCEPT ![h] = "done"]
            /\ Fresh(h, 0)

Outcome(why) == [s \in Sides |-> why]

Build(h) ==
    /\ pc[h] = "build"
    /\ pc' = [pc EXCEPT ![h] = "lease"]
    /\ UNCHANGED <<fixed, process, loop, queue, left, tries, dev, runs, got, times, older, lock>>

BuildFails(h, why) ==
    /\ pc[h] = "build"
    /\ Judged(h, Outcome(why), None)
    /\ UNCHANGED <<fixed, process, loop, queue, dev, older, lock>>

\* A slip: a device counts as busy only while a program runs on it.
Leased_WhileTiming == { dev[h] : h \in { g \in Hints : pc[g] = "timing" } }

Leased == { dev[h] : h \in Hints } \ {None}

\* d was released before e, or neither was ever and d comes first.
Before(d, e) == <<d, e>> \in older \/ (<<e, d>> \notin older /\ d <= e)

\* Of the free devices the one released longest ago.
Lease(h) ==
    /\ pc[h] = "lease"
    /\ \E d \in Gpus \ Leased :
       /\ \A e \in Gpus \ Leased : Before(d, e)
       /\ dev' = [dev EXCEPT ![h] = d]
       /\ pc' = [pc EXCEPT ![h] = IF way = "own" /\ d \notin Unlocked THEN "lock" ELSE "run"]
    /\ UNCHANGED <<fixed, process, loop, queue, left, tries, runs, got, times, older, lock>>

TakeLock(h) ==
    /\ pc[h] = "lock" /\ lock[dev[h]] = None
    /\ lock' = [lock EXCEPT ![dev[h]] = h]
    /\ pc' = [pc EXCEPT ![h] = "run"]
    /\ UNCHANGED <<fixed, process, loop, queue, left, tries, dev, runs, got, times, older>>

\* The attempt raises with the GPU leased.
GivesUp(h, why) ==
    /\ got' = [got EXCEPT ![h] = Outcome(why)]
    /\ pc' = [pc EXCEPT ![h] = "unlease"]
    /\ UNCHANGED <<fixed, process, loop, queue, left, tries, dev, runs, times, older, lock>>

\* A TimeoutError is an OSError: the attempt is lost to infrastructure.
LockTimesOut(h) ==
    /\ MayTimeOut /\ pc[h] = "lock" /\ lock[dev[h]] # None
    /\ GivesUp(h, "infra")

\* A slip: nobody locks for the evaluator, since the lease did not.
LocksPerRun_Never(h) == FALSE

\* The evaluator locks the GPU for each run, ModelBlaster for all of them.
LocksPerRun(h) == way = "eval" /\ dev[h] \notin Unlocked

StartRun(h) ==
    /\ pc[h] = "run" /\ runs[h] # Sides
    /\ IF LocksPerRun(h)
       THEN lock[dev[h]] = None /\ lock' = [lock EXCEPT ![dev[h]] = h]
       ELSE UNCHANGED lock
    /\ pc' = [pc EXCEPT ![h] = "timing"]
    /\ UNCHANGED <<fixed, process, loop, queue, left, tries, dev, runs, got, times, older>>

Side(h) == IF "original" \in runs[h] THEN "variant" ELSE "original"

EndRun(h, r) ==
    /\ pc[h] = "timing"
    /\ got' = [got EXCEPT ![h][Side(h)] = r]
    /\ runs' = [runs EXCEPT ![h] = @ \cup {Side(h)}]
    /\ lock' = IF LocksPerRun(h) THEN [lock EXCEPT ![dev[h]] = None] ELSE lock
    /\ pc' = [pc EXCEPT ![h] = "run"]
    /\ UNCHANGED <<fixed, process, loop, queue, left, tries, dev, times, older>>

\* time_problems does not start, finds no GPU of the model, or writes nothing.
EvaluatorFails(h, why) ==
    /\ way = "eval" /\ pc[h] = "run" /\ runs[h] = {}
    /\ GivesUp(h, why)

Unlock(h) ==
    /\ pc[h] = "run" /\ runs[h] = Sides
    /\ lock' = IF way = "own" /\ dev[h] \notin Unlocked THEN [lock EXCEPT ![dev[h]] = None] ELSE lock
    /\ pc' = [pc EXCEPT ![h] = "unlease"]
    /\ UNCHANGED <<fixed, process, loop, queue, left, tries, dev, runs, got, times, older>>

\* A slip: an attempt that did not pass keeps its device.
Unlease_OnSuccessOnly(h, pace) ==
    /\ pc[h] = "unlease"
    /\ older' = { x \in Gpus \X Gpus : x[1] # dev[h] /\ (x[2] = dev[h] \/ x \in older) }
    /\ dev' = IF Passed(got[h]) THEN [dev EXCEPT ![h] = None] ELSE dev
    /\ Judged(h, got[h], pace)
    /\ UNCHANGED <<fixed, process, loop, queue, lock>>

Unlease(h, pace) ==
    /\ pc[h] = "unlease"
    /\ older' = { x \in Gpus \X Gpus : x[1] # dev[h] /\ (x[2] = dev[h] \/ x \in older) }
    /\ dev' = [dev EXCEPT ![h] = None]
    /\ Judged(h, got[h], pace)
    /\ UNCHANGED <<fixed, process, loop, queue, lock>>

---------------------------------------------------------------------------
(* The main thread after the end of the process.                           *)

\* A slip: the pool is left without waiting for its threads.
AllDone_NoShutdown == TRUE

AllDone  == \A h \in live : pc[h] \in {"idle", "done"}
Mismatched == \E h \in Hints : times[h] = "mismatch"

\* A slip: only the retries inside the pool.
Again_InPoolOnly == {}

\* The hints whose re-measurement was lost while the process was sharing the GPUs.
Again == IF kb = "ok" THEN { h \in live : times[h] = "infra" } ELSE {}

Join ==
    /\ main = "join" /\ AllDone
    /\ main' = IF Mismatched THEN "raised" ELSE "again"
    /\ todo' = Again
    /\ UNCHANGED <<fixed, process, over, sides, final, verdict, task, older, lock>>

Leave ==
    /\ main = "leave" /\ AllDone
    /\ main' = "raised"
    /\ UNCHANGED <<fixed, process, over, todo, sides, final, verdict, task, older, lock>>

\* Once more, on a fresh lease, in this thread.
OnceMore ==
    /\ main = "again" /\ AllDone /\ ~ Mismatched /\ todo # {}
    /\ Attempt(First(todo), 1)
    /\ todo' = todo \ {First(todo)}
    /\ UNCHANGED <<fixed, process, main, over, sides, final, verdict, queue, tries, dev, times, older, lock>>

Measured ==
    /\ main = "again" /\ AllDone /\ (Mismatched \/ todo = {})
    /\ main' = IF Mismatched THEN "raised" ELSE "finish"
    /\ todo' = Hints
    /\ UNCHANGED <<fixed, process, over, sides, final, verdict, task, older, lock>>

Bad(h) == { s \in Sides : final[h][s] # "ok" }

\* finish_hint; without a re-measurement KernelBlaster's own times decide.
Verdict(h, pace) ==
    LET by == IF way = "off" THEN pace ELSE times[h] IN
    CASE h \notin live                                            -> "rejected"
      [] h \in live /\ kb # "ok"                                   -> "undecided"
      [] h \in live /\ kb = "ok" /\ Bad(h) # {}                    ->
             IF \A s \in Bad(h) : final[h][s] = "infra" THEN "undecided" ELSE "rejected"
      [] h \in live /\ kb = "ok" /\ Bad(h) = {} /\ by = "infra"     -> "undecided"
      [] h \in live /\ kb = "ok" /\ Bad(h) = {} /\ by = "faster"    -> "accepted"
      [] OTHER                                                    -> "rejected"

Finish(pace) ==
    /\ main = "finish" /\ todo # {}
    /\ verdict' = [verdict EXCEPT ![First(todo)] = Verdict(First(todo), pace)]
    /\ todo' = todo \ {First(todo)}
    /\ UNCHANGED <<fixed, process, main, over, sides, final, task, older, lock>>

Return ==
    /\ main = "finish" /\ todo = {}
    /\ main' = "returned"
    /\ UNCHANGED <<fixed, process, over, todo, sides, final, verdict, task, older, lock>>

---------------------------------------------------------------------------
Paces == {"faster", "slower"}

Main ==
    \/ Poll \/ Look \/ Looked \/ Collect \/ Join \/ Leave \/ OnceMore \/ Measured \/ Return
    \/ \E l \in SUBSET Hints : Prepare(l)
    \/ \E pace \in Paces : Finish(pace)

Task(h) ==
    \/ Begin(h) \/ Build(h) \/ Lease(h) \/ TakeLock(h) \/ LockTimesOut(h)
    \/ StartRun(h) \/ Unlock(h)
    \/ \E why \in {"own", "infra"} : BuildFails(h, why)
    \/ \E why \in {"own", "infra", "mismatch"} : EvaluatorFails(h, why)
    \/ \E r \in {"ok", "own", "infra"} : EndRun(h, r)
    \/ \E pace \in Paces : Unlease(h, pace)

KbFinishes == (\E d \in Gpus : KbTimed(d)) \/ \E status \in {"ok", "failed", "stopped"} : KbExits(status)

KbWorks ==
    \/ \E h \in Hints, s \in Sides, r \in {"ok", "bad", "infra"} : KbResult(h, s, r)
    \/ \E d \in Gpus : KbTimes(d)

Next == Main \/ (\E h \in Hints : Task(h)) \/ KbFinishes \/ KbWorks

Spec == Init /\ [][Next]_vars /\ WF_vars(Main) /\ WF_vars(KbFinishes)
             /\ \A h \in Hints : WF_vars(Task(h))

---------------------------------------------------------------------------
\* The device a hint or the process is timing on right now.
OnGpu(d) == { h \in Hints : pc[h] = "timing" /\ dev[h] = d } \cup (IF d \in kbOn THEN {KB} ELSE {})

\* A GPU with a lock file runs one timed program at a time, ModelBlaster's or
\* KernelBlaster's: the lease keeps two hints apart, the lock file the two programs.
OneTimedRunPerGpu ==
    \A d \in Gpus \ Unlocked : \A x, y \in OnGpu(d) : x = y

\* Between the first and the last run of a pair nobody else's re-measurement runs
\* on its GPU, and when ModelBlaster runs the pair no run of KernelBlaster's either.
PairUndisturbed ==
    \A h \in Hints : pc[h] = "timing" \/ (pc[h] = "run" /\ runs[h] # {}) =>
        /\ OnGpu(dev[h]) \ {h, KB} = {}
        /\ way = "own" /\ dev[h] \notin Unlocked => dev[h] \notin kbOn

\* A verdict on a prepared hint is one on the kernels: it rests on a completed
\* re-measurement, or on a result that is not good; a result that was written while
\* the files were looked at, a failed wave, a lost GPU or link is none.
VerdictRestsOnKernels ==
    \A h \in live : verdict[h] \in {"accepted", "rejected"} =>
        /\ kb = "ok"
        /\ \/ \E s \in Sides : final[h][s] \in {"bad", "missing"}
           \/ Bad(h) = {} /\ (way = "off" \/ times[h] \in {"faster", "slower", "own"})

\* A re-measurement that infrastructure cost the hint its verdict was made as often
\* as configured, and once more when KernelBlaster had left the GPUs.
LostOnlyAfterOnceMore ==
    \A h \in live : verdict[h] = "undecided" /\ kb = "ok" /\ Bad(h) = {} => tries[h] = Attempts + 1

\* Whatever fails, the wave ends with no GPU leased or locked, no task at work, and
\* the process gone.
NothingLeftBehind ==
    main \in {"returned", "raised"} =>
        /\ Leased = {} /\ Working = {} /\ queue = <<>> /\ kb # "runs"
        /\ \A d \in Gpus : lock[d] = None

\* The wave ends: nobody waits for a lease, a lock or a result for ever.
WaveEnds == <>(main \in {"returned", "raised"})

\* "missing result.json at exit: infra/crash, not a verdict" (kb_graph_opt.py:1279).
LostResultIsNoVerdict ==
    \A h \in live : (\A s \in Sides : final[h][s] # "bad") /\ times[h] = None /\ way # "off"
                       => verdict[h] # "rejected"
=============================================================================
