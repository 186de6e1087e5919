--------------------------- MODULE HintWaveProofs ---------------------------
(***************************************************************************)
(* WaveInv is inductive, for any number of hints, any pools of devices and *)
(* any number of attempts; from it follow the safety properties of a wave. *)
(***************************************************************************)
EXTENDS HintWave, FiniteSetTheorems, SequenceTheorems, WellFoundedInduction, TLAPS

\* A non-empty set of naturals has a least element.
LEMMA NatHasLeast ==
  ASSUME NEW S, S \subseteq Nat, S # {}
  PROVE  \E x \in S : \A y \in S : x <= y
<1> DEFINE R == OpToRel(<, Nat)
<1>1. \A x, y \in Nat : (<< x, y >> \in R) <=> x < y
  BY DEF OpToRel
<1>2. IsWellFoundedOn(R, Nat)
  BY NatLessThanWellFounded, Zenon
<1> HIDE DEF R
<1>3. PICK x \in S : \A y \in S : ~ (<< y, x >> \in R)
  BY <1>2, WFMin, Zenon
<1>4. \A y \in S : ~ (y < x) /\ y \in Nat /\ x \in Nat
  BY <1>1, <1>3
<1> QED BY <1>3, <1>4

Resting == {"idle", "queued", "done"}
OnLease == {"lock", "run", "timing", "unlease"}
Late    == {"collect", "join", "leave", "again", "finish", "returned", "raised"}
Closed  == {"finish", "returned", "raised"}
Files   == {"none", "ok", "bad", "infra"}

WaveTypeOK ==
    /\ pool \in Pools /\ way \in {"own", "eval", "off"}
    /\ main \in {"prepare", "poll", "look"} \cup Late
    /\ over \in BOOLEAN /\ live \subseteq Hints /\ todo \subseteq Hints
    /\ kb \in {None, "runs", "ok", "failed", "stopped"} /\ kbOn \subseteq Gpus
    /\ file \in [Hints -> [Sides -> Files]] /\ sides \in [Hints -> [Sides -> Files]]
    /\ final \in [Hints -> [Sides -> Files \cup {"missing"}]]
    /\ queue \in Seq(Hints) /\ older \subseteq Gpus \X Gpus
    /\ pc \in [Hints -> Resting \cup OnLease \cup {"build", "lease"}]
    /\ left \in [Hints -> Nat] /\ tries \in [Hints -> Nat]
    /\ dev \in [Hints -> Gpus \cup {None}] /\ runs \in [Hints -> SUBSET Sides]
    /\ got \in [Hints -> [Sides -> {"none", "ok", "own", "infra", "mismatch"}]]
    /\ lock \in [Gpus -> Hints \cup {KB, None}]
    /\ times \in [Hints -> {None, "faster", "slower", "own", "infra", "mismatch"}]
    /\ verdict \in [Hints -> {None, "accepted", "rejected", "undecided"}]

\* A device is leased by one hint, which is at a step where it needs it.
LeaseInv ==
    /\ \A h \in Hints : dev[h] # None <=> pc[h] \in OnLease
    /\ \A g, h \in Hints : dev[g] = dev[h] /\ dev[h] # None => g = h

\* A hint holds the lock of its device while ModelBlaster runs its pair, and
\* while the evaluator makes one run.
Holds(h) == pc[h] = "timing" \/ (way = "own" /\ pc[h] = "run")

LockInv ==
    /\ way = "off" => \A h \in Hints : pc[h] \in Resting /\ times[h] = None
    /\ \A h \in Hints : pc[h] = "lock" => way = "own" /\ dev[h] \notin Unlocked
    /\ \A d \in Gpus \ Unlocked :
           /\ lock[d] = KB <=> d \in kbOn
           /\ \A h \in Hints : lock[d] = h <=> dev[h] = d /\ Holds(h)
    /\ \A d \in Unlocked : lock[d] = None

\* What waits in the queue waits there once.
QueueInv ==
    /\ \A i \in 1 .. Len(queue) : pc[queue[i]] = "queued"
    /\ \A i, j \in 1 .. Len(queue) : queue[i] = queue[j] => i = j

PhaseInv ==
    /\ \A h \in Hints \ live : pc[h] = "idle" /\ times[h] = None
    /\ main = "prepare" => live = {} /\ kb = None /\ ~ over
    /\ main = "look" => \A h \in todo : h \in live /\ pc[h] = "idle"
    /\ main \in Late \/ over => kb # "runs"
    /\ kbOn # {} => kb = "runs"
    /\ main \in {"again"} \cup Closed => queue = <<>>
    /\ main \in Closed => AllDone

\* What was read is what the files say, for good: the file was there, or the
\* process had exited.
FileInv ==
    /\ \A h \in Hints : pc[h] # "idle" => \A s \in Sides :
           IF file[h][s] = "none" THEN sides[h][s] = "infra" /\ kb # "runs"
                                  ELSE sides[h][s] = file[h][s]
    /\ over /\ main = "look" => \A h \in live \ todo : pc[h] # "idle"
    /\ main \in Late => \A h \in live : pc[h] # "idle"
    /\ kb = "ok" /\ main \in Late \ {"collect"} => \A h \in live : \A s \in Sides :
           final[h][s] = IF file[h][s] = "none" THEN "missing" ELSE file[h][s]

\* Every attempt is counted; the one more is made for those that were lost.
Counted(h) ==
    /\ pc[h] \in {"idle", "queued"} => tries[h] = 0 /\ times[h] = None
    /\ pc[h] \notin Resting => tries[h] + left[h] = Attempts /\ times[h] = None
    /\ times[h] = "infra" => tries[h] = Attempts

CountedAgain(h) ==
    /\ pc[h] = "done" \/ (pc[h] \notin Resting /\ left[h] = 1)
    /\ pc[h] \notin Resting => kb = "ok" /\ tries[h] = Attempts /\ h \notin todo
    /\ kb = "ok" /\ pc[h] = "done" /\ times[h] = "infra" =>
           tries[h] = IF h \in todo THEN Attempts ELSE Attempts + 1

CountInv ==
    /\ \A h \in Hints : pc[h] = "done" /\ Worthwhile(h) => times[h] # None
    /\ \A h \in Hints : pc[h] \notin Resting => left[h] >= 1
    /\ main \notin {"again"} \cup Closed => \A h \in Hints : Counted(h)
    /\ main = "again" => todo \subseteq Again /\ \A h \in live : CountedAgain(h)
    /\ main \in {"finish", "returned"} => ~ Mismatched
    /\ main \in {"finish", "returned"} /\ kb = "ok" =>
           \A h \in live : times[h] = "infra" => tries[h] = Attempts + 1

\* The verdicts are written last.
VerdictInv ==
    /\ main \notin {"finish", "returned"} => \A h \in Hints : verdict[h] = None
    /\ VerdictRestsOnKernels
    /\ LostOnlyAfterOnceMore

WaveInv == WaveTypeOK /\ LeaseInv /\ LockInv /\ QueueInv /\ PhaseInv /\ FileInv /\ CountInv /\ VerdictInv

(***************************************************************************)
(* Choices.                                                                *)
(***************************************************************************)
\* First picks a member.
LEMMA FirstIn ==
  ASSUME NEW S, S \subseteq Nat, S # {}
  PROVE  First(S) \in S
BY NatHasLeast DEF First

\* The hint that a loop of the main thread takes next is one it has to do.
LEMMA FirstTodo ==
  ASSUME WaveInv, todo # {}
  PROVE  First(todo) \in todo
<1>1. todo \subseteq Nat
  BY WaveAssumption DEF WaveInv, WaveTypeOK, Hints
<1> QED BY <1>1, FirstIn

\* The devices are numbers, and there is at least one attempt.
LEMMA PoolFacts ==
  ASSUME WaveInv
  PROVE  Gpus \subseteq Nat /\ Unlocked \subseteq Gpus /\ Attempts \in Nat /\ Attempts >= 1
BY WaveAssumption DEF WaveInv, WaveTypeOK, Gpus, Unlocked, Attempts

Outcomes == {"none", "ok", "own", "infra", "mismatch"}
Steps    == Resting \cup OnLease \cup {"build", "lease"}

\* A fresh attempt has nothing to show.
LEMMA FreshTypes ==
  ASSUME WaveInv, NEW h \in Hints, NEW n \in Nat, Fresh(h, n)
  PROVE  /\ left' \in [Hints -> Nat] /\ runs' \in [Hints -> SUBSET Sides]
         /\ got' \in [Hints -> [Sides -> Outcomes]]
<1>1. NoFile \in [Sides -> Outcomes]
  BY DEF NoFile, Outcomes
<1>2. got \in [Hints -> [Sides -> Outcomes]]
  BY DEF WaveInv, WaveTypeOK, Outcomes
<1> QED BY <1>1, <1>2 DEF Fresh, WaveInv, WaveTypeOK


(***************************************************************************)
(* Each part of the invariant is kept by every step.                       *)
(***************************************************************************)
\* Types.
LEMMA TypeStep ==
  ASSUME WaveInv, [Next]_vars
  PROVE  WaveTypeOK'
<1> USE WaveAssumption DEF WaveInv, WaveTypeOK, Late, Resting, OnLease, Files, Gpus, Unlocked, fixed, process, loop, task
<1>1. ASSUME Poll PROVE WaveTypeOK'
  BY <1>1 DEF Poll
<1>2. ASSUME Look PROVE WaveTypeOK'
  <2>1. First(todo) \in todo
    BY <1>2, FirstTodo DEF Look
  <2>2. Read(First(todo)) \in [Sides -> Files]
    BY <2>1 DEF Read
  <2>3. sides' \in [Hints -> [Sides -> Files]]
    <3>1. sides' = sides \/ sides' = [sides EXCEPT ![First(todo)] = Read(First(todo))]
      BY <1>2 DEF Look
    <3>2. First(todo) \in Hints /\ sides \in [Hints -> [Sides -> Files]]
      BY <2>1
    <3> HIDE DEF WaveInv, WaveTypeOK, Files, Hints
    <3> QED BY <2>2, <3>1, <3>2
  <2>4. queue' \in Seq(Hints)
    <3>1. queue' = queue \/ queue' = Append(queue, First(todo))
      BY <1>2 DEF Look
    <3>2. First(todo) \in Hints /\ queue \in Seq(Hints)
      BY <2>1
    <3> HIDE DEF WaveInv, Hints
    <3> QED BY <3>1, <3>2
  <2>5. pc' \in [Hints -> Steps]
    BY <1>2, <2>1 DEF Look, Steps
  <2> QED BY <1>2, <2>3, <2>4, <2>5 DEF Look, Steps
<1>3. ASSUME Looked PROVE WaveTypeOK'
  BY <1>3 DEF Looked
<1>4. ASSUME Collect PROVE WaveTypeOK'
  BY <1>4 DEF Collect
<1>5. ASSUME Join PROVE WaveTypeOK'
  BY <1>5 DEF Join, Again
<1>6. ASSUME Leave PROVE WaveTypeOK'
  BY <1>6 DEF Leave
<1>7. ASSUME OnceMore PROVE WaveTypeOK'
  <2>1. First(todo) \in todo
    BY <1>7, FirstTodo DEF OnceMore
  <2>2. Fresh(First(todo), 1) /\ pc' \in [Hints -> Steps]
    BY <1>7, <2>1 DEF OnceMore, Attempt, FirstStep, Steps
  <2> QED BY <1>7, <2>1, <2>2, FreshTypes DEF OnceMore, Outcomes, Steps
<1>8. ASSUME Measured PROVE WaveTypeOK'
  BY <1>8 DEF Measured
<1>9. ASSUME Return PROVE WaveTypeOK'
  BY <1>9 DEF Return
<1>10. ASSUME NEW l \in SUBSET Hints, Prepare(l) PROVE WaveTypeOK'
  BY <1>10 DEF Prepare
<1>11. ASSUME NEW pace \in Paces, Finish(pace) PROVE WaveTypeOK'
  <2>1. First(todo) \in todo
    BY <1>11, FirstTodo DEF Finish
  <2> QED BY <1>11, <2>1 DEF Finish, Verdict, Paces
<1>12. ASSUME NEW h \in Hints, Begin(h) PROVE WaveTypeOK'
  <2>1. Attempts \in Nat /\ queue' \in Seq(Hints)
    BY <1>12, PoolFacts DEF Begin
  <2>2. CASE Worthwhile(h)
    <3>1. Fresh(h, Attempts) /\ pc' \in [Hints -> Steps]
      BY <1>12, <2>2 DEF Begin, Attempt, FirstStep, Steps
    <3> QED BY <1>12, <2>1, <3>1, FreshTypes DEF Begin, Outcomes, Steps
  <2>3. CASE ~ Worthwhile(h)
    BY <1>12, <2>1, <2>3 DEF Begin
  <2> QED BY <2>2, <2>3
<1>13. ASSUME NEW h \in Hints, Build(h) PROVE WaveTypeOK'
  BY <1>13 DEF Build
<1>14. ASSUME NEW h \in Hints, Lease(h) PROVE WaveTypeOK'
  BY <1>14 DEF Lease
<1>15. ASSUME NEW h \in Hints, TakeLock(h) PROVE WaveTypeOK'
  BY <1>15 DEF TakeLock
<1>16. ASSUME NEW h \in Hints, LockTimesOut(h) PROVE WaveTypeOK'
  BY <1>16 DEF LockTimesOut, GivesUp, Outcome
<1>17. ASSUME NEW h \in Hints, StartRun(h) PROVE WaveTypeOK'
  <2>1. CASE LocksPerRun(h)
    <3>1. lock' \in [Gpus -> Hints \cup {KB, None}]
      BY <1>17, <2>1 DEF StartRun
    <3>2. pc' \in [Hints -> Steps]
      BY <1>17 DEF StartRun, Steps
    <3> QED BY <1>17, <3>1, <3>2 DEF StartRun, Steps
  <2>2. CASE ~ LocksPerRun(h)
    BY <1>17, <2>2 DEF StartRun
  <2> QED BY <2>1, <2>2
<1>18. ASSUME NEW h \in Hints, Unlock(h) PROVE WaveTypeOK'
  BY <1>18 DEF Unlock
<1>19. ASSUME NEW h \in Hints, NEW why \in {"own", "infra"}, BuildFails(h, why) PROVE WaveTypeOK'
  <2>1. UNCHANGED <<fixed, process, loop, queue, lock>> /\ tries' \in [Hints -> Nat]
    BY <1>19 DEF BuildFails, Judged
  <2>2. older' \subseteq Gpus \X Gpus /\ dev' \in [Hints -> Gpus \cup {None}]
    BY <1>19 DEF BuildFails
  <2>3. CASE Infra(Outcome(why)) /\ left[h] > 1
    <3>1. Fresh(h, left[h] - 1) /\ left[h] - 1 \in Nat /\ times' = times
      BY <1>19, <2>3 DEF BuildFails, Judged, Attempt
    <3>2. pc' \in [Hints -> Steps]
      BY <1>19, <2>3 DEF BuildFails, Judged, Attempt, FirstStep, Steps
    <3> QED BY <2>1, <2>2, <3>1, <3>2, FreshTypes DEF Outcomes, Steps
  <2>4. CASE ~ (Infra(Outcome(why)) /\ left[h] > 1)
    <3>1. times' \in [Hints -> {None, "faster", "slower", "own", "infra", "mismatch"}]
      BY <1>19, <2>4 DEF BuildFails, Judged, Paces, Passed, Outcome, Sides
    <3>2. Fresh(h, 0) /\ pc' \in [Hints -> Steps]
      BY <1>19, <2>4 DEF BuildFails, Judged, Steps
    <3> QED BY <2>1, <2>2, <3>1, <3>2, FreshTypes DEF Outcomes, Steps
  <2> QED BY <2>3, <2>4
<1>20. ASSUME NEW h \in Hints, NEW why \in {"own", "infra", "mismatch"}, EvaluatorFails(h, why) PROVE WaveTypeOK'
  BY <1>20 DEF EvaluatorFails, GivesUp, Outcome
<1>21. ASSUME NEW h \in Hints, NEW r \in {"ok", "own", "infra"}, EndRun(h, r) PROVE WaveTypeOK'
  <2>1. got' \in [Hints -> [Sides -> Outcomes]]
    <3>1. r \in Outcomes /\ got \in [Hints -> [Sides -> Outcomes]]
      BY DEF Outcomes
    <3> QED BY <1>21, <3>1 DEF EndRun
  <2>2. runs' \in [Hints -> SUBSET Sides]
    BY <1>21 DEF EndRun, Side, Sides
  <2> QED BY <1>21, <2>1, <2>2 DEF EndRun, Outcomes
<1>22. ASSUME NEW h \in Hints, NEW pace \in Paces, Unlease(h, pace) PROVE WaveTypeOK'
  <2>1. UNCHANGED <<fixed, process, loop, queue, lock>> /\ tries' \in [Hints -> Nat]
    BY <1>22 DEF Unlease, Judged
  <2>2. older' \subseteq Gpus \X Gpus /\ dev' \in [Hints -> Gpus \cup {None}]
    BY <1>22 DEF Unlease
  <2>3. CASE Infra(got[h]) /\ left[h] > 1
    <3>1. Fresh(h, left[h] - 1) /\ left[h] - 1 \in Nat /\ times' = times
      BY <1>22, <2>3 DEF Unlease, Judged, Attempt
    <3>2. pc' \in [Hints -> Steps]
      BY <1>22, <2>3 DEF Unlease, Judged, Attempt, FirstStep, Steps
    <3> QED BY <2>1, <2>2, <3>1, <3>2, FreshTypes DEF Outcomes, Steps
  <2>4. CASE ~ (Infra(got[h]) /\ left[h] > 1)
    <3>1. times' \in [Hints -> {None, "faster", "slower", "own", "infra", "mismatch"}]
      BY <1>22, <2>4 DEF Unlease, Judged, Paces, Passed, Outcome, Sides
    <3>2. Fresh(h, 0) /\ pc' \in [Hints -> Steps]
      BY <1>22, <2>4 DEF Unlease, Judged, Steps
    <3> QED BY <2>1, <2>2, <3>1, <3>2, FreshTypes DEF Outcomes, Steps
  <2> QED BY <2>3, <2>4
<1>23. ASSUME NEW d \in Gpus, KbTimed(d) PROVE WaveTypeOK'
  BY <1>23 DEF KbTimed
<1>24. ASSUME NEW status \in {"ok", "failed", "stopped"}, KbExits(status) PROVE WaveTypeOK'
  BY <1>24 DEF KbExits
<1>25. ASSUME NEW d \in Gpus, KbTimes(d) PROVE WaveTypeOK'
  BY <1>25 DEF KbTimes
<1>26. ASSUME NEW h \in Hints, NEW s \in Sides, NEW r \in {"ok", "bad", "infra"}, KbResult(h, s, r) PROVE WaveTypeOK'
  BY <1>26 DEF KbResult
<1>27. CASE UNCHANGED vars
  BY <1>27 DEF vars
<1> HIDE DEF WaveInv, WaveTypeOK, Late, Resting, OnLease, Files, Gpus, Unlocked, fixed, process, loop, task
<1> QED BY <1>1, <1>2, <1>3, <1>4, <1>5, <1>6, <1>7, <1>8, <1>9, <1>10, <1>11, <1>12, <1>13, <1>14, <1>15, <1>16, <1>17, <1>18, <1>19, <1>20, <1>21, <1>22, <1>23, <1>24, <1>25, <1>26, <1>27 DEF Next, Main, Task, KbFinishes, KbWorks

\* Most steps of the main thread touch no task and no device.
LoopStep ==
    \/ Poll \/ Looked \/ Collect \/ Join \/ Leave \/ Measured \/ Return
    \/ \E pace \in Paces : Finish(pace)

\* The loops of the main thread leave its tasks, KernelBlaster and the locks alone.
LEMMA LoopFrame ==
  ASSUME LoopStep
  PROVE  UNCHANGED <<fixed, process, task, older, lock>>
BY DEF LoopStep, Poll, Looked, Collect, Join, Leave, Measured, Return, Finish

\* Nor does KernelBlaster, except for the locks.
LEMMA KbFrame ==
  ASSUME KbFinishes \/ KbWorks
  PROVE  UNCHANGED <<fixed, loop, task, older>>
BY DEF KbFinishes, KbWorks, KbTimed, KbExits, KbTimes, KbResult

\* What a step can be.
LEMMA StepKinds ==
  ASSUME [Next]_vars
  PROVE  \/ UNCHANGED vars \/ LoopStep \/ Look \/ OnceMore \/ (\E l \in SUBSET Hints : Prepare(l))
         \/ (\E h \in Hints : Task(h)) \/ KbFinishes \/ KbWorks
BY DEF Next, Main, LoopStep

\* A step of one task keeps the leases if what it leases was free, and it leases
\* exactly at the steps that need a device.
LEMMA LeaseFrame ==
  ASSUME WaveInv, NEW h \in Hints, pool' = pool,
         \A g \in Hints \ {h} : pc'[g] = pc[g] /\ dev'[g] = dev[g],
         dev'[h] # None <=> pc'[h] \in OnLease,
         dev'[h] = dev[h] \/ dev'[h] = None \/ dev'[h] \notin Leased
  PROVE  LeaseInv'
<1>0. pc \in [Hints -> Steps] /\ dev \in [Hints -> Gpus \cup {None}] /\ LeaseInv
  BY DEF WaveInv, WaveTypeOK, Steps
<1>1. \A g \in Hints : g # h => pc'[g] = pc[g] /\ dev'[g] = dev[g]
  OBVIOUS
<1>2. \A g \in Hints : dev'[g] # None <=> pc'[g] \in OnLease
  BY <1>0, <1>1 DEF LeaseInv
<1>3. ASSUME NEW g \in Hints, g # h, dev'[g] = dev'[h], dev'[h] # None PROVE FALSE
  BY <1>0, <1>1, <1>3 DEF LeaseInv, Leased
<1>4. \A f, g \in Hints : dev'[f] = dev'[g] /\ dev'[g] # None => f = g
  BY <1>0, <1>1, <1>3 DEF LeaseInv
<1> QED BY <1>2, <1>4 DEF LeaseInv

\* What an attempt that came to g leaves behind.
LEMMA JudgedTo ==
  ASSUME WaveInv, NEW h \in Hints, NEW g, NEW pace, Judged(h, g, pace)
  PROVE  /\ \/ /\ Infra(g) /\ left[h] > 1 /\ times' = times
               /\ pc' = [pc EXCEPT ![h] = FirstStep] /\ left' = [left EXCEPT ![h] = left[h] - 1]
            \/ /\ ~ (Infra(g) /\ left[h] > 1)
               /\ times' = [times EXCEPT ![h] = CASE Passed(g)   -> pace
                                                  [] Infra(g)    -> "infra"
                                                  [] Mismatch(g) -> "mismatch"
                                                  [] OTHER       -> "own"]
               /\ pc' = [pc EXCEPT ![h] = "done"] /\ left' = [left EXCEPT ![h] = 0]
         /\ runs' = [runs EXCEPT ![h] = {}] /\ got' = [got EXCEPT ![h] = NoFile]
         /\ tries' = IF Mismatch(g) THEN tries ELSE [tries EXCEPT ![h] = @ + 1]
<1>1. CASE Infra(g) /\ left[h] > 1
  BY <1>1 DEF Judged, Attempt, Fresh
<1>2. CASE ~ (Infra(g) /\ left[h] > 1)
  BY <1>2 DEF Judged, Fresh
<1> QED BY <1>1, <1>2

\* Leases.
LEMMA LeaseStep ==
  ASSUME WaveInv, [Next]_vars
  PROVE  LeaseInv'
<1>1. CASE UNCHANGED vars
  BY <1>1 DEF vars, WaveInv, LeaseInv, OnLease, fixed, task
<1>2. CASE LoopStep
  BY <1>2, LoopFrame DEF WaveInv, LeaseInv, OnLease, Gpus, WaveTypeOK, fixed, task
<1>3. ASSUME Look PROVE LeaseInv'
  <2> DEFINE h == First(todo)
  <2>0. h \in Hints
    BY <1>3, FirstTodo DEF Look, WaveInv, WaveTypeOK
  <2>1. pc \in [Hints -> Steps] /\ dev \in [Hints -> Gpus \cup {None}] /\ LeaseInv
    BY DEF WaveInv, WaveTypeOK, Steps
  <2>a. h \in todo
    BY <1>3, FirstTodo DEF Look
  <2>b. pc[h] = "idle"
    BY <1>3, <2>a DEF Look, WaveInv, PhaseInv
  <2>2. pc' = pc \/ pc' = [pc EXCEPT ![h] = "queued"]
    BY <1>3 DEF Look
  <2>3. pc'[h] \notin OnLease /\ \A g \in Hints \ {h} : pc'[g] = pc[g]
    BY <2>0, <2>1, <2>2, <2>b DEF OnLease
  <2>4. dev' = dev /\ dev[h] = None /\ pool' = pool
    BY <1>3, <2>0, <2>1, <2>b DEF Look, LeaseInv, OnLease, fixed
  <2> HIDE DEF h
  <2> QED BY <2>0, <2>1, <2>3, <2>4, LeaseFrame
<1>4. ASSUME OnceMore PROVE LeaseInv'
  <2> DEFINE h == First(todo)
  <2>0. h \in Hints /\ h \in todo
    BY <1>4, FirstTodo DEF OnceMore, WaveInv, WaveTypeOK
  <2>1. pc \in [Hints -> Steps] /\ dev \in [Hints -> Gpus \cup {None}] /\ LeaseInv
    BY DEF WaveInv, WaveTypeOK, Steps
  <2>b. pc[h] = "done" \/ pc[h] = "idle"
    BY <1>4, <2>0 DEF OnceMore, WaveInv, PhaseInv, AllDone
  <2>2. pc' = [pc EXCEPT ![h] = FirstStep]
    BY <1>4 DEF OnceMore, Attempt
  <2>3. pc'[h] \notin OnLease /\ \A g \in Hints \ {h} : pc'[g] = pc[g]
    BY <2>0, <2>1, <2>2 DEF FirstStep, OnLease
  <2> HIDE DEF h
  <2> QED BY <1>4, <2>0, <2>1, <2>b, <2>3, LeaseFrame DEF OnceMore, LeaseInv, OnLease, fixed
<1>5. ASSUME NEW l \in SUBSET Hints, Prepare(l) PROVE LeaseInv'
  BY <1>5 DEF Prepare, WaveInv, LeaseInv, OnLease, task
<1>6. ASSUME NEW h \in Hints, Begin(h) PROVE LeaseInv'
  <2>1. pc \in [Hints -> Steps] /\ dev \in [Hints -> Gpus \cup {None}] /\ LeaseInv
    BY DEF WaveInv, WaveTypeOK, Steps
  <2>0. pc[h] = "queued"
    BY <1>6 DEF Begin, WaveInv, WaveTypeOK, QueueInv
  <2>2. pc' = [pc EXCEPT ![h] = FirstStep] \/ pc' = [pc EXCEPT ![h] = "done"]
    BY <1>6 DEF Begin, Attempt
  <2>3. pc'[h] \notin OnLease /\ \A g \in Hints \ {h} : pc'[g] = pc[g]
    BY <2>1, <2>2 DEF FirstStep, OnLease
  <2> QED BY <1>6, <2>0, <2>1, <2>3, LeaseFrame DEF Begin, LeaseInv, OnLease, fixed
<1>7. ASSUME NEW h \in Hints, Build(h) PROVE LeaseInv'
  <2>1. pc \in [Hints -> Steps] /\ dev \in [Hints -> Gpus \cup {None}] /\ LeaseInv
    BY DEF WaveInv, WaveTypeOK, Steps
  <2> QED BY <1>7, <2>1, LeaseFrame DEF Build, LeaseInv, OnLease, fixed, Leased
<1>8. ASSUME NEW h \in Hints, Lease(h) PROVE LeaseInv'
  <2>1. pc \in [Hints -> Steps] /\ dev \in [Hints -> Gpus \cup {None}] /\ LeaseInv
    BY DEF WaveInv, WaveTypeOK, Steps
  <2>2. None \notin Gpus
    BY PoolFacts, WaveAssumption
  <2>3. PICK d \in Gpus \ Leased : dev' = [dev EXCEPT ![h] = d] /\ pc' = [pc EXCEPT ![h] = pc'[h]]
                                 /\ pc'[h] \in {"lock", "run"}
    BY <1>8, <2>1 DEF Lease
  <2>4. dev'[h] \in Gpus \ Leased /\ \A g \in Hints \ {h} : pc'[g] = pc[g] /\ dev'[g] = dev[g]
    BY <2>1, <2>3
  <2> QED BY <1>8, <2>2, <2>3, <2>4, LeaseFrame DEF Lease, OnLease, fixed
<1>9. ASSUME NEW h \in Hints, TakeLock(h) PROVE LeaseInv'
  <2>1. pc \in [Hints -> Steps] /\ dev \in [Hints -> Gpus \cup {None}] /\ LeaseInv
    BY DEF WaveInv, WaveTypeOK, Steps
  <2> QED BY <1>9, <2>1, LeaseFrame DEF TakeLock, LeaseInv, OnLease, fixed, Leased
<1>10. ASSUME NEW h \in Hints, LockTimesOut(h) PROVE LeaseInv'
  <2>1. pc \in [Hints -> Steps] /\ dev \in [Hints -> Gpus \cup {None}] /\ LeaseInv
    BY DEF WaveInv, WaveTypeOK, Steps
  <2> QED BY <1>10, <2>1, LeaseFrame DEF LockTimesOut, GivesUp, Outcome, LeaseInv, OnLease, fixed, Leased
<1>11. ASSUME NEW h \in Hints, StartRun(h) PROVE LeaseInv'
  <2>1. pc \in [Hints -> Steps] /\ dev \in [Hints -> Gpus \cup {None}] /\ LeaseInv
    BY DEF WaveInv, WaveTypeOK, Steps
  <2> QED BY <1>11, <2>1, LeaseFrame DEF StartRun, LocksPerRun, LeaseInv, OnLease, fixed, Leased
<1>12. ASSUME NEW h \in Hints, Unlock(h) PROVE LeaseInv'
  <2>1. pc \in [Hints -> Steps] /\ dev \in [Hints -> Gpus \cup {None}] /\ LeaseInv
    BY DEF WaveInv, WaveTypeOK, Steps
  <2> QED BY <1>12, <2>1, LeaseFrame DEF Unlock, LeaseInv, OnLease, fixed, Leased
<1>13. ASSUME NEW h \in Hints, NEW why \in {"own", "infra"}, BuildFails(h, why) PROVE LeaseInv'
  <2>1. pc \in [Hints -> Steps] /\ dev \in [Hints -> Gpus \cup {None}] /\ LeaseInv
    BY DEF WaveInv, WaveTypeOK, Steps
  <2>2. pc' = [pc EXCEPT ![h] = FirstStep] \/ pc' = [pc EXCEPT ![h] = "done"]
    BY <1>13, JudgedTo DEF BuildFails
  <2>3. pc'[h] \notin OnLease /\ \A g \in Hints \ {h} : pc'[g] = pc[g]
    BY <2>1, <2>2 DEF FirstStep, OnLease
  <2> QED BY <1>13, <2>1, <2>3, LeaseFrame DEF BuildFails, LeaseInv, OnLease, fixed
<1>14. ASSUME NEW h \in Hints, NEW why \in {"own", "infra", "mismatch"}, EvaluatorFails(h, why) PROVE LeaseInv'
  <2>1. pc \in [Hints -> Steps] /\ dev \in [Hints -> Gpus \cup {None}] /\ LeaseInv
    BY DEF WaveInv, WaveTypeOK, Steps
  <2> QED BY <1>14, <2>1, LeaseFrame DEF EvaluatorFails, GivesUp, Outcome, LeaseInv, OnLease, fixed, Leased
<1>15. ASSUME NEW h \in Hints, NEW r \in {"ok", "own", "infra"}, EndRun(h, r) PROVE LeaseInv'
  <2>1. pc \in [Hints -> Steps] /\ dev \in [Hints -> Gpus \cup {None}] /\ LeaseInv
    BY DEF WaveInv, WaveTypeOK, Steps
  <2> QED BY <1>15, <2>1, LeaseFrame DEF EndRun, LocksPerRun, LeaseInv, OnLease, fixed, Leased
<1>16. ASSUME NEW h \in Hints, NEW pace \in Paces, Unlease(h, pace) PROVE LeaseInv'
  <2>1. pc \in [Hints -> Steps] /\ dev \in [Hints -> Gpus \cup {None}] /\ LeaseInv
    BY DEF WaveInv, WaveTypeOK, Steps
  <2>2. pc' = [pc EXCEPT ![h] = FirstStep] \/ pc' = [pc EXCEPT ![h] = "done"]
    BY <1>16, JudgedTo DEF Unlease
  <2>3. pc'[h] \notin OnLease /\ \A g \in Hints \ {h} : pc'[g] = pc[g]
    BY <2>1, <2>2 DEF FirstStep, OnLease
  <2> QED BY <1>16, <2>1, <2>3, LeaseFrame DEF Unlease, LeaseInv, OnLease, fixed
<1>17. CASE KbFinishes \/ KbWorks
  BY <1>17, KbFrame DEF WaveInv, LeaseInv, OnLease, fixed, task
<1> QED BY <1>1, <1>2, <1>3, <1>4, <1>5, <1>6, <1>7, <1>8, <1>9, <1>10, <1>11, <1>12, <1>13, <1>14, <1>15, <1>16, <1>17, StepKinds DEF Task

\* A step of one task that neither takes nor frees a lock, to a place where it
\* holds none.
LEMMA LockFrame ==
  ASSUME WaveInv, NEW h \in Hints, UNCHANGED <<pool, way, kbOn, lock>>,
         \A g \in Hints \ {h} : pc'[g] = pc[g] /\ dev'[g] = dev[g],
         ~ Holds(h), pc'[h] \notin {"timing", "run", "lock"},
         way = "off" => pc'[h] \in Resting /\ times' = times
  PROVE  LockInv'
<1>1. \A g \in Hints : Holds(g)' <=> Holds(g)
  BY DEF Holds
<1>2. \A g \in Hints : pc'[g] = "lock" => pc[g] = "lock" /\ dev'[g] = dev[g]
  OBVIOUS
<1>3. \A g \in Hints : Holds(g) => dev'[g] = dev[g]
  OBVIOUS
<1>4. LockInv
  BY DEF WaveInv
<1>5. way' = "off" => \A g \in Hints : pc'[g] \in Resting /\ times'[g] = None
  BY <1>4 DEF LockInv
<1>6. \A g \in Hints : pc'[g] = "lock" => way' = "own" /\ dev'[g] \notin Unlocked'
  BY <1>2, <1>4 DEF LockInv, Unlocked
<1>7. \A d \in (Gpus \ Unlocked)' :
           /\ lock'[d] = KB <=> d \in kbOn'
           /\ \A g \in Hints : lock'[d] = g <=> dev'[g] = d /\ Holds(g)'
  BY <1>1, <1>3, <1>4 DEF LockInv, Unlocked, Gpus
<1> QED BY <1>4, <1>5, <1>6, <1>7 DEF LockInv, Unlocked

\* A task takes or frees the lock of its device, or neither.
LEMMA LockSwitch ==
  ASSUME WaveInv, NEW h \in Hints, UNCHANGED <<pool, way, kbOn, dev, times>>,
         \A g \in Hints \ {h} : pc'[g] = pc[g], pc[h] \in OnLease, pc'[h] # "lock",
         LET d == dev[h] IN
         \/ d \in Unlocked /\ lock' = lock
         \/ d \notin Unlocked /\ Holds(h)' /\ lock[d] = None /\ lock' = [lock EXCEPT ![d] = h]
         \/ d \notin Unlocked /\ Holds(h) /\ ~ Holds(h)' /\ lock' = [lock EXCEPT ![d] = None]
         \/ lock' = lock /\ (Holds(h)' <=> Holds(h))
  PROVE  LockInv'
<1> DEFINE d == dev[h]
<1>1. LeaseInv /\ LockInv /\ lock \in [Gpus -> Hints \cup {KB, None}]
  BY DEF WaveInv, WaveTypeOK
<1>2. d \in Gpus /\ d # None /\ way # "off" /\ \A g \in Hints : dev[g] = d => g = h
  <2>1. pc[h] \notin Resting /\ dev[h] \in Gpus \cup {None}
    BY DEF OnLease, Resting, WaveInv, WaveTypeOK
  <2> QED BY <1>1, <2>1 DEF LeaseInv, LockInv
<1>3. KB \notin Hints /\ None \notin Hints /\ KB # None
  BY WaveAssumption DEF Hints
<1>4. \A g \in Hints \ {h} : Holds(g)' <=> Holds(g)
  BY DEF Holds
<1>5. \A e \in Gpus \ {d} : lock'[e] = lock[e]
  BY <1>1, <1>2
<1>6. \A e \in Gpus \ Unlocked : e # d => (lock'[e] = KB <=> e \in kbOn)
                               /\ \A g \in Hints : lock'[e] = g <=> dev[g] = e /\ Holds(g)'
  <2>1. \A e \in Gpus : e # d => dev[h] # e
    OBVIOUS
  <2> HIDE DEF d
  <2> QED BY <1>1, <1>4, <1>5, <2>1 DEF LockInv
<1>7. d \notin Unlocked => (lock'[d] = KB <=> d \in kbOn)
                               /\ \A g \in Hints : lock'[d] = g <=> dev[g] = d /\ Holds(g)'
  <2>1. d \notin Unlocked => (lock[d] = KB <=> d \in kbOn) /\ (lock[d] = h <=> Holds(h))
                           /\ \A g \in Hints : lock[d] = g <=> dev[g] = d /\ Holds(g)
    BY <1>1, <1>2 DEF LockInv
  <2>2. CASE Holds(h)' /\ lock[d] = None /\ lock' = [lock EXCEPT ![d] = h]
    <3>1. lock'[d] = h
      BY <1>1, <1>2, <2>2
    <3> HIDE DEF d
    <3> QED BY <1>2, <1>3, <2>1, <2>2, <3>1
  <2>3. CASE Holds(h) /\ ~ Holds(h)' /\ lock' = [lock EXCEPT ![d] = None]
    <3>1. lock'[d] = None
      BY <1>1, <1>2, <2>3
    <3> HIDE DEF d
    <3> QED BY <1>2, <1>3, <2>1, <2>3, <3>1
  <2>4. CASE lock' = lock /\ (Holds(h)' <=> Holds(h))
    <3> HIDE DEF d
    <3> QED BY <1>2, <2>1, <2>4
  <2> QED BY <2>2, <2>3, <2>4
<1>8. \A e \in Unlocked : lock'[e] = None
  BY <1>1, <1>2, <1>5, PoolFacts DEF LockInv
<1>9. \A g \in Hints : pc'[g] = "lock" => way = "own" /\ dev[g] \notin Unlocked
  BY <1>1 DEF LockInv
<1> HIDE DEF d
<1> QED BY <1>2, <1>6, <1>7, <1>8, <1>9 DEF LockInv, Gpus, Unlocked

\* KernelBlaster takes or frees the lock of a device, or neither.
LEMMA LockKb ==
  ASSUME WaveInv, NEW d \in Gpus, UNCHANGED <<pool, way, pc, dev, times>>,
         \/ d \in Unlocked /\ lock' = lock /\ \A e \in Gpus \ {d} : e \in kbOn' <=> e \in kbOn
         \/ d \notin Unlocked /\ lock[d] = None /\ lock' = [lock EXCEPT ![d] = KB] /\ kbOn' = kbOn \cup {d}
         \/ d \in kbOn \ Unlocked /\ lock' = [lock EXCEPT ![d] = None] /\ kbOn' = kbOn \ {d}
  PROVE  LockInv'
<1>1. LockInv /\ lock \in [Gpus -> Hints \cup {KB, None}]
  BY DEF WaveInv, WaveTypeOK
<1>2. KB \notin Hints /\ None \notin Hints /\ KB # None
  BY WaveAssumption DEF Hints
<1>3. \A g \in Hints : Holds(g)' <=> Holds(g)
  BY DEF Holds
<1>4. \A e \in Gpus \ {d} : lock'[e] = lock[e] /\ (e \in kbOn' <=> e \in kbOn)
  BY <1>1
<1>5. \A e \in Gpus \ Unlocked : (lock'[e] = KB <=> e \in kbOn')
                               /\ \A g \in Hints : lock'[e] = g <=> dev[g] = e /\ Holds(g)
  <2>1. ASSUME NEW e \in Gpus \ Unlocked, e # d
        PROVE  (lock'[e] = KB <=> e \in kbOn') /\ \A g \in Hints : lock'[e] = g <=> dev[g] = e /\ Holds(g)
    BY <1>1, <1>4, <2>1 DEF LockInv
  <2>2. ASSUME d \notin Unlocked
        PROVE  (lock'[d] = KB <=> d \in kbOn') /\ \A g \in Hints : lock'[d] = g <=> dev[g] = d /\ Holds(g)
    <3>1. (lock[d] = KB <=> d \in kbOn) /\ \A g \in Hints : lock[d] = g <=> dev[g] = d /\ Holds(g)
      BY <1>1, <2>2 DEF LockInv
    <3>2. \/ lock[d] = None /\ lock'[d] = KB /\ d \in kbOn'
          \/ lock[d] = KB /\ lock'[d] = None /\ d \notin kbOn'
      BY <1>1, <2>2, <3>1
    <3> QED BY <1>2, <3>1, <3>2
  <2> QED BY <2>1, <2>2
<1>6. \A e \in Unlocked : lock'[e] = None
  BY <1>1, <1>4, PoolFacts DEF LockInv
<1> QED BY <1>1, <1>3, <1>5, <1>6 DEF LockInv, Gpus, Unlocked

\* Lock files.
LEMMA LockStep ==
  ASSUME WaveInv, [Next]_vars
  PROVE  LockInv'
<1>1. CASE UNCHANGED vars
  BY <1>1 DEF vars, WaveInv, LockInv, Holds, Gpus, Unlocked, fixed, process, task
<1>2. CASE LoopStep
  BY <1>2, LoopFrame DEF WaveInv, LockInv, Holds, Gpus, Unlocked, fixed, process, task
<1>3. ASSUME Look PROVE LockInv'
  <2> DEFINE h == First(todo)
  <2>1. pc \in [Hints -> Steps] /\ dev \in [Hints -> Gpus \cup {None}] /\ LeaseInv /\ LockInv
    BY DEF WaveInv, WaveTypeOK, Steps
  <2>2. h \in Hints /\ pc[h] = "idle"
    <3>1. h \in todo
      BY <1>3, FirstTodo DEF Look
    <3> QED BY <1>3, <3>1 DEF Look, WaveInv, WaveTypeOK, PhaseInv
  <2>3. pc' = pc \/ pc' = [pc EXCEPT ![h] = "queued"]
    BY <1>3 DEF Look
  <2>4. pc'[h] \in Resting /\ \A g \in Hints \ {h} : pc'[g] = pc[g]
    BY <2>1, <2>2, <2>3 DEF Resting
  <2>5. ~ Holds(h)
    BY <2>2 DEF Holds
  <2>6. UNCHANGED <<pool, way, kbOn, lock, dev, times>>
    BY <1>3 DEF Look, fixed, process
  <2> HIDE DEF h
  <2> QED BY <2>2, <2>4, <2>5, <2>6, LockFrame DEF Resting
<1>4. ASSUME OnceMore PROVE LockInv'
  <2> DEFINE h == First(todo)
  <2>1. pc \in [Hints -> Steps] /\ dev \in [Hints -> Gpus \cup {None}] /\ LeaseInv /\ LockInv
    BY DEF WaveInv, WaveTypeOK, Steps
  <2>2. h \in Hints /\ pc[h] \in {"idle", "done"} /\ way # "off"
    <3>1. h \in todo
      BY <1>4, FirstTodo DEF OnceMore
    <3>2. times[h] = "infra" /\ h \in Hints
      BY <1>4, <3>1 DEF OnceMore, WaveInv, WaveTypeOK, CountInv, Again
    <3>3. None # "infra"
      BY WaveAssumption
    <3> QED BY <1>4, <2>1, <3>1, <3>2, <3>3 DEF OnceMore, WaveInv, PhaseInv, AllDone, LockInv
  <2>3. pc' = [pc EXCEPT ![h] = FirstStep]
    BY <1>4 DEF OnceMore, Attempt
  <2>4. pc'[h] \in {"build", "lease"} /\ \A g \in Hints \ {h} : pc'[g] = pc[g]
    BY <2>1, <2>2, <2>3 DEF FirstStep
  <2>5. ~ Holds(h)
    BY <2>2 DEF Holds
  <2>6. UNCHANGED <<pool, way, kbOn, lock, dev>>
    BY <1>4 DEF OnceMore, fixed, process
  <2> HIDE DEF h
  <2> QED BY <2>2, <2>4, <2>5, <2>6, LockFrame
<1>5. ASSUME NEW l \in SUBSET Hints, Prepare(l) PROVE LockInv'
  BY <1>5 DEF Prepare, WaveInv, LockInv, Holds, Gpus, Unlocked, task
<1>6. ASSUME NEW h \in Hints, Begin(h) PROVE LockInv'
  <2>1. pc \in [Hints -> Steps] /\ dev \in [Hints -> Gpus \cup {None}] /\ LeaseInv /\ LockInv
    BY DEF WaveInv, WaveTypeOK, Steps
  <2>2. pc[h] = "queued"
    BY <1>6 DEF Begin, WaveInv, WaveTypeOK, QueueInv
  <2>3. \/ pc' = [pc EXCEPT ![h] = FirstStep] /\ way # "off"
        \/ pc' = [pc EXCEPT ![h] = "done"]
    BY <1>6 DEF Begin, Attempt, Worthwhile
  <2>4. pc'[h] \in {"build", "lease", "done"} /\ (way = "off" => pc'[h] = "done") /\ \A g \in Hints \ {h} : pc'[g] = pc[g]
    BY <2>1, <2>2, <2>3 DEF FirstStep
  <2>5. ~ Holds(h)
    BY <2>2 DEF Holds
  <2>6. UNCHANGED <<pool, way, kbOn, lock, dev, times>>
    BY <1>6 DEF Begin, fixed, process
  <2> QED BY <2>4, <2>5, <2>6, LockFrame DEF Resting
<1>7. ASSUME NEW h \in Hints, Build(h) PROVE LockInv'
  <2>1. pc \in [Hints -> Steps] /\ dev \in [Hints -> Gpus \cup {None}] /\ LeaseInv /\ LockInv
    BY DEF WaveInv, WaveTypeOK, Steps
  <2>2. pc'[h] \in {"lease", "unlease"} /\ \A g \in Hints \ {h} : pc'[g] = pc[g]
    BY <1>7, <2>1 DEF Build
  <2>3. way # "off" /\ ~ Holds(h)
    BY <1>7, <2>1 DEF Build, LockInv, Resting, Holds
  <2>4. UNCHANGED <<pool, way, kbOn, lock, dev>>
    BY <1>7 DEF Build, fixed, process
  <2> QED BY <2>2, <2>3, <2>4, LockFrame
<1>8. ASSUME NEW h \in Hints, Lease(h) PROVE LockInv'
  <2>1. pc \in [Hints -> Steps] /\ dev \in [Hints -> Gpus \cup {None}] /\ LeaseInv /\ LockInv
    BY DEF WaveInv, WaveTypeOK, Steps
  <2>2. pc[h] = "lease" /\ way # "off" /\ dev[h] = None
    BY <1>8, <2>1 DEF Lease, LockInv, LeaseInv, OnLease, Resting
  <2>3. PICK d \in Gpus \ Leased : dev' = [dev EXCEPT ![h] = d] /\
           pc' = [pc EXCEPT ![h] = IF way = "own" /\ d \notin Unlocked THEN "lock" ELSE "run"]
    BY <1>8 DEF Lease
  <2>4. dev'[h] = d /\ \A g \in Hints \ {h} : dev'[g] = dev[g] /\ pc'[g] = pc[g] /\ (Holds(g)' <=> Holds(g))
    BY <1>8, <2>1, <2>3 DEF Lease, Holds, fixed
  <2>5. UNCHANGED <<pool, way, kbOn, lock, times>> /\ None \notin Gpus
    BY <1>8, PoolFacts, WaveAssumption DEF Lease, fixed, process
  <2>6. ~ Holds(h) /\ (d \notin Unlocked => ~ Holds(h)') /\ (pc'[h] = "lock" => way = "own" /\ d \notin Unlocked)
    BY <2>1, <2>2, <2>3, <2>5 DEF Holds
  <2> QED BY <2>1, <2>2, <2>4, <2>5, <2>6 DEF LockInv, Gpus, Unlocked
<1>9. ASSUME NEW h \in Hints, TakeLock(h) PROVE LockInv'
  <2>1. pc \in [Hints -> Steps] /\ dev \in [Hints -> Gpus \cup {None}] /\ LeaseInv /\ LockInv
    BY DEF WaveInv, WaveTypeOK, Steps
  <2>2. UNCHANGED <<pool, way, kbOn, dev, times>> /\ \A g \in Hints \ {h} : pc'[g] = pc[g]
    BY <1>9, <2>1 DEF TakeLock, fixed, process
  <2>3. pc[h] = "lock" /\ pc'[h] = "run" /\ Holds(h)' /\ dev[h] \notin Unlocked
    BY <1>9, <2>1, <2>2 DEF TakeLock, Holds, LockInv
  <2>4. lock' = [lock EXCEPT ![dev[h]] = h] /\ lock[dev[h]] = None
    BY <1>9 DEF TakeLock
  <2> QED BY <2>2, <2>3, <2>4, LockSwitch DEF OnLease
<1>10. ASSUME NEW h \in Hints, LockTimesOut(h) PROVE LockInv'
  <2>1. pc \in [Hints -> Steps] /\ dev \in [Hints -> Gpus \cup {None}] /\ LeaseInv /\ LockInv
    BY DEF WaveInv, WaveTypeOK, Steps
  <2>2. pc'[h] \in {"lease", "unlease"} /\ \A g \in Hints \ {h} : pc'[g] = pc[g]
    BY <1>10, <2>1 DEF LockTimesOut, GivesUp
  <2>3. way # "off" /\ ~ Holds(h)
    BY <1>10, <2>1 DEF LockTimesOut, GivesUp, LockInv, Resting, Holds
  <2>4. UNCHANGED <<pool, way, kbOn, lock, dev>>
    BY <1>10 DEF LockTimesOut, GivesUp, fixed, process
  <2> QED BY <2>2, <2>3, <2>4, LockFrame
<1>11. ASSUME NEW h \in Hints, StartRun(h) PROVE LockInv'
  <2>1. pc \in [Hints -> Steps] /\ dev \in [Hints -> Gpus \cup {None}] /\ LeaseInv /\ LockInv
    BY DEF WaveInv, WaveTypeOK, Steps
  <2>2. UNCHANGED <<pool, way, kbOn, dev, times>> /\ \A g \in Hints \ {h} : pc'[g] = pc[g]
    BY <1>11, <2>1 DEF StartRun, fixed, process
  <2>3. pc[h] = "run" /\ pc'[h] = "timing" /\ Holds(h)'
    BY <1>11, <2>1 DEF StartRun, Holds
  <2>4. \/ dev[h] \notin Unlocked /\ lock[dev[h]] = None /\ lock' = [lock EXCEPT ![dev[h]] = h]
        \/ lock' = lock /\ (dev[h] \in Unlocked \/ Holds(h))
    <3>1. way = "own" \/ way = "eval"
      BY <2>1, <2>3 DEF WaveInv, WaveTypeOK, LockInv, Resting
    <3> QED BY <1>11, <2>3, <3>1 DEF StartRun, LocksPerRun, Holds
  <2> QED BY <2>2, <2>3, <2>4, LockSwitch DEF OnLease
<1>12. ASSUME NEW h \in Hints, Unlock(h) PROVE LockInv'
  <2>1. pc \in [Hints -> Steps] /\ dev \in [Hints -> Gpus \cup {None}] /\ LeaseInv /\ LockInv
    BY DEF WaveInv, WaveTypeOK, Steps
  <2>2. UNCHANGED <<pool, way, kbOn, dev, times>> /\ \A g \in Hints \ {h} : pc'[g] = pc[g]
    BY <1>12, <2>1 DEF Unlock, fixed, process
  <2>3. pc[h] = "run" /\ pc'[h] = "unlease" /\ ~ Holds(h)'
    BY <1>12, <2>1 DEF Unlock, Holds
  <2>4. \/ dev[h] \notin Unlocked /\ Holds(h) /\ lock' = [lock EXCEPT ![dev[h]] = None]
        \/ lock' = lock /\ (dev[h] \in Unlocked \/ ~ Holds(h))
    BY <1>12, <2>3 DEF Unlock, Holds
  <2> QED BY <2>2, <2>3, <2>4, LockSwitch DEF OnLease
<1>13. ASSUME NEW h \in Hints, NEW why \in {"own", "infra"}, BuildFails(h, why) PROVE LockInv'
  <2>1. pc \in [Hints -> Steps] /\ dev \in [Hints -> Gpus \cup {None}] /\ LeaseInv /\ LockInv
    BY DEF WaveInv, WaveTypeOK, Steps
  <2>2. pc'[h] \in {"build", "lease", "done"} /\ \A g \in Hints \ {h} : pc'[g] = pc[g]
    <3>1. pc' = [pc EXCEPT ![h] = FirstStep] \/ pc' = [pc EXCEPT ![h] = "done"]
      BY <1>13, JudgedTo DEF BuildFails
    <3> QED BY <2>1, <3>1 DEF FirstStep
  <2>3. way # "off" /\ ~ Holds(h)
    BY <1>13, <2>1 DEF BuildFails, LockInv, Resting, Holds
  <2>4. UNCHANGED <<pool, way, kbOn, lock>> /\ \A g \in Hints \ {h} : dev'[g] = dev[g]
    BY <1>13, <2>1 DEF BuildFails, fixed, process
  <2> QED BY <2>2, <2>3, <2>4, LockFrame
<1>14. ASSUME NEW h \in Hints, NEW why \in {"own", "infra", "mismatch"}, EvaluatorFails(h, why) PROVE LockInv'
  <2>1. pc \in [Hints -> Steps] /\ dev \in [Hints -> Gpus \cup {None}] /\ LeaseInv /\ LockInv
    BY DEF WaveInv, WaveTypeOK, Steps
  <2>2. pc'[h] \in {"lease", "unlease"} /\ \A g \in Hints \ {h} : pc'[g] = pc[g]
    BY <1>14, <2>1 DEF EvaluatorFails, GivesUp
  <2>3. way # "off" /\ ~ Holds(h)
    BY <1>14, <2>1 DEF EvaluatorFails, GivesUp, LockInv, Resting, Holds
  <2>4. UNCHANGED <<pool, way, kbOn, lock, dev>>
    BY <1>14 DEF EvaluatorFails, GivesUp, fixed, process
  <2> QED BY <2>2, <2>3, <2>4, LockFrame
<1>15. ASSUME NEW h \in Hints, NEW r \in {"ok", "own", "infra"}, EndRun(h, r) PROVE LockInv'
  <2>1. pc \in [Hints -> Steps] /\ dev \in [Hints -> Gpus \cup {None}] /\ LeaseInv /\ LockInv
    BY DEF WaveInv, WaveTypeOK, Steps
  <2>2. UNCHANGED <<pool, way, kbOn, dev, times>> /\ \A g \in Hints \ {h} : pc'[g] = pc[g]
    BY <1>15, <2>1 DEF EndRun, fixed, process
  <2>3. pc[h] = "timing" /\ pc'[h] = "run" /\ Holds(h)
    BY <1>15, <2>1 DEF EndRun, Holds
  <2>4. \/ dev[h] \notin Unlocked /\ ~ Holds(h)' /\ lock' = [lock EXCEPT ![dev[h]] = None]
        \/ lock' = lock /\ (dev[h] \in Unlocked \/ Holds(h)')
    <3>1. way = "own" \/ way = "eval"
      BY <2>1, <2>3 DEF WaveInv, WaveTypeOK, LockInv, Resting
    <3> QED BY <1>15, <2>2, <2>3, <3>1 DEF EndRun, LocksPerRun, Holds
  <2> QED BY <2>2, <2>3, <2>4, LockSwitch DEF OnLease
<1>16. ASSUME NEW h \in Hints, NEW pace \in Paces, Unlease(h, pace) PROVE LockInv'
  <2>1. pc \in [Hints -> Steps] /\ dev \in [Hints -> Gpus \cup {None}] /\ LeaseInv /\ LockInv
    BY DEF WaveInv, WaveTypeOK, Steps
  <2>2. pc'[h] \in {"build", "lease", "done"} /\ \A g \in Hints \ {h} : pc'[g] = pc[g]
    <3>1. pc' = [pc EXCEPT ![h] = FirstStep] \/ pc' = [pc EXCEPT ![h] = "done"]
      BY <1>16, JudgedTo DEF Unlease
    <3> QED BY <2>1, <3>1 DEF FirstStep
  <2>3. way # "off" /\ ~ Holds(h)
    BY <1>16, <2>1 DEF Unlease, LockInv, Resting, Holds
  <2>4. UNCHANGED <<pool, way, kbOn, lock>> /\ \A g \in Hints \ {h} : dev'[g] = dev[g]
    BY <1>16, <2>1 DEF Unlease, fixed, process
  <2> QED BY <2>2, <2>3, <2>4, LockFrame
<1>17. ASSUME NEW d \in Gpus, KbTimed(d) PROVE LockInv'
  BY <1>17, LockKb DEF KbTimed, fixed, task
<1>18. ASSUME NEW status \in {"ok", "failed", "stopped"}, KbExits(status) PROVE LockInv'
  BY <1>18, WaveAssumption DEF KbExits, WaveInv, WaveTypeOK, PhaseInv, LockInv, Holds, Hints, Gpus, Unlocked, fixed, task, loop
<1>19. ASSUME NEW d \in Gpus, KbTimes(d) PROVE LockInv'
  BY <1>19, LockKb DEF KbTimes, fixed, task
<1>20. ASSUME NEW h \in Hints, NEW s \in Sides, NEW r \in {"ok", "bad", "infra"}, KbResult(h, s, r) PROVE LockInv'
  BY <1>20, WaveAssumption DEF KbResult, WaveInv, WaveTypeOK, PhaseInv, LockInv, Holds, Hints, Gpus, Unlocked, fixed, task, loop
<1> QED BY <1>1, <1>2, <1>3, <1>4, <1>5, <1>6, <1>7, <1>8, <1>9, <1>10, <1>11, <1>12, <1>13, <1>14, <1>15, <1>16, <1>17, <1>18, <1>19, <1>20, StepKinds DEF Task, KbFinishes, KbWorks

(***************************************************************************)
(* What the step of a task does to what the main thread looks at.          *)
(***************************************************************************)
Others(h) == \A g \in Hints \ {h} :
    pc'[g] = pc[g] /\ left'[g] = left[g] /\ tries'[g] = tries[g] /\ times'[g] = times[g]

Starts(h) ==
    /\ queue # <<>> /\ h = Head(queue) /\ queue' = Tail(queue) /\ pc[h] = "queued"
    /\ times' = times /\ tries' = tries
    /\ \/ Worthwhile(h) /\ pc'[h] \notin Resting /\ left'[h] = Attempts
       \/ ~ Worthwhile(h) /\ pc'[h] = "done"

GoesOn(h) ==
    /\ queue' = queue /\ pc[h] \notin Resting /\ pc'[h] \notin Resting /\ times' = times
    /\ \/ left'[h] = left[h] /\ tries'[h] = tries[h]
       \/ left[h] > 1 /\ left'[h] = left[h] - 1 /\ tries'[h] = tries[h] + 1

Ends(h) ==
    /\ queue' = queue /\ pc[h] \notin Resting /\ pc'[h] = "done"
    /\ times'[h] \in {"faster", "slower", "own", "infra", "mismatch"}
    /\ times'[h] = "infra" => left[h] <= 1 /\ tries'[h] = tries[h] + 1

\* A judged attempt is made again or is the last one.
LEMMA JudgedEffect ==
  ASSUME WaveInv, NEW h \in Hints, NEW g, NEW pace, Judged(h, g, pace), queue' = queue,
         Passed(g) => pace \in Paces, pc[h] \notin Resting
  PROVE  Others(h) /\ (GoesOn(h) \/ Ends(h))
<1>1. pc \in [Hints -> Steps] /\ left \in [Hints -> Nat] /\ tries \in [Hints -> Nat]
  BY DEF WaveInv, WaveTypeOK, Steps
<1>2. times \in [Hints -> {None, "faster", "slower", "own", "infra", "mismatch"}]
  BY DEF WaveInv, WaveTypeOK
<1>3. CASE Infra(g) /\ left[h] > 1
  <2>1. times' = times /\ pc' = [pc EXCEPT ![h] = FirstStep] /\ left' = [left EXCEPT ![h] = left[h] - 1]
    BY <1>3, JudgedTo
  <2>2. ~ Mismatch(g)
    BY <1>3 DEF Infra, Mismatch, Sides
  <2>3. tries' = [tries EXCEPT ![h] = @ + 1]
    BY <2>2, JudgedTo
  <2>4. Others(h)
    BY <1>1, <2>1, <2>3 DEF Others
  <2>5. GoesOn(h)
    BY <1>1, <1>3, <2>1, <2>3 DEF GoesOn, FirstStep, Resting
  <2> QED BY <2>4, <2>5
<1>4. CASE ~ (Infra(g) /\ left[h] > 1)
  <2>1. /\ pc' = [pc EXCEPT ![h] = "done"] /\ left' = [left EXCEPT ![h] = 0]
        /\ times' = [times EXCEPT ![h] = CASE Passed(g)   -> pace
                                           [] Infra(g)    -> "infra"
                                           [] Mismatch(g) -> "mismatch"
                                           [] OTHER       -> "own"]
        /\ tries' = IF Mismatch(g) THEN tries ELSE [tries EXCEPT ![h] = @ + 1]
    BY <1>4, JudgedTo
  <2>2. Others(h)
    BY <1>1, <1>2, <2>1 DEF Others
  <2>3. ~ (Passed(g) /\ Infra(g)) /\ ~ (Infra(g) /\ Mismatch(g)) /\ ~ (Passed(g) /\ Mismatch(g))
    BY DEF Infra, Mismatch, Passed, Sides
  <2>4. times'[h] = CASE Passed(g) -> pace [] Infra(g) -> "infra" [] Mismatch(g) -> "mismatch" [] OTHER -> "own"
    BY <1>2, <2>1
  <2>5. times'[h] \in {"faster", "slower", "own", "infra", "mismatch"} /\ (times'[h] = "infra" => Infra(g))
    BY <2>3, <2>4 DEF Paces
  <2>6. times'[h] = "infra" => tries'[h] = tries[h] + 1 /\ left[h] <= 1
    BY <1>1, <1>4, <2>1, <2>3, <2>5
  <2> QED BY <1>1, <2>1, <2>2, <2>5, <2>6 DEF Ends
<1> QED BY <1>3, <1>4

\* The step of a task touches its own hint alone.
LEMMA TaskEffect ==
  ASSUME WaveInv, NEW h \in Hints, Task(h)
  PROVE  /\ UNCHANGED <<fixed, process, loop>> /\ Others(h)
         /\ Starts(h) \/ GoesOn(h) \/ Ends(h)
<1> DEFINE P == UNCHANGED <<fixed, process, loop>> /\ Others(h) /\ (Starts(h) \/ GoesOn(h) \/ Ends(h))
<1>0. pc \in [Hints -> Steps] /\ left \in [Hints -> Nat] /\ tries \in [Hints -> Nat]
  BY DEF WaveInv, WaveTypeOK, Steps
<1>1. ASSUME Begin(h) PROVE P
  <2>1. pc[h] = "queued"
    BY <1>1 DEF Begin, WaveInv, WaveTypeOK, QueueInv
  <2>2. CASE Worthwhile(h)
    <3>1. pc' = [pc EXCEPT ![h] = FirstStep] /\ left' = [left EXCEPT ![h] = Attempts]
      BY <1>1, <2>2 DEF Begin, Attempt, Fresh
    <3>2. Others(h)
      BY <1>0, <1>1, <3>1 DEF Begin, Others
    <3>3. Starts(h)
      BY <1>0, <1>1, <2>1, <2>2, <3>1 DEF Begin, Starts, FirstStep, Resting
    <3> QED BY <1>1, <3>2, <3>3 DEF Begin
  <2>3. CASE ~ Worthwhile(h)
    BY <1>0, <1>1, <2>1, <2>3 DEF Begin, Others, Starts
  <2> QED BY <2>2, <2>3
<1>2. ASSUME Build(h) PROVE P
  BY <1>0, <1>2 DEF Build, Others, GoesOn, Resting
<1>3. ASSUME Lease(h) PROVE P
  <2>1. pc[h] = "lease" /\ pc' = [pc EXCEPT ![h] = pc'[h]] /\ pc'[h] \in {"lock", "run"}
    BY <1>0, <1>3 DEF Lease
  <2> QED BY <1>0, <1>3, <2>1 DEF Lease, Others, GoesOn, Resting
<1>4. ASSUME TakeLock(h) PROVE P
  BY <1>0, <1>4 DEF TakeLock, Others, GoesOn, Resting
<1>5. ASSUME LockTimesOut(h) PROVE P
  BY <1>0, <1>5 DEF LockTimesOut, GivesUp, Others, GoesOn, Resting
<1>6. ASSUME StartRun(h) PROVE P
  BY <1>0, <1>6 DEF StartRun, Others, GoesOn, Resting
<1>7. ASSUME Unlock(h) PROVE P
  BY <1>0, <1>7 DEF Unlock, Others, GoesOn, Resting
<1>8. ASSUME NEW why \in {"own", "infra"}, BuildFails(h, why) PROVE P
  <2>1. pc[h] \notin Resting
    BY <1>8 DEF BuildFails, Resting
  <2>2. Others(h) /\ (GoesOn(h) \/ Ends(h))
    BY <1>8, <2>1, JudgedEffect DEF BuildFails, Passed, Outcome, Sides
  <2> QED BY <1>8, <2>2 DEF BuildFails
<1>9. ASSUME NEW why \in {"own", "infra", "mismatch"}, EvaluatorFails(h, why) PROVE P
  BY <1>0, <1>9 DEF EvaluatorFails, GivesUp, Others, GoesOn, Resting
<1>10. ASSUME NEW r \in {"ok", "own", "infra"}, EndRun(h, r) PROVE P
  BY <1>0, <1>10 DEF EndRun, Others, GoesOn, Resting
<1>11. ASSUME NEW pace \in Paces, Unlease(h, pace) PROVE P
  <2>1. pc[h] \notin Resting
    BY <1>11 DEF Unlease, Resting
  <2>2. Others(h) /\ (GoesOn(h) \/ Ends(h))
    BY <1>11, <2>1, JudgedEffect DEF Unlease, Passed, Outcome, Sides
  <2> QED BY <1>11, <2>2 DEF Unlease
<1> HIDE DEF P
<1>12. P
  BY <1>1, <1>2, <1>3, <1>4, <1>5, <1>6, <1>7, <1>8, <1>9, <1>10, <1>11 DEF Task
<1> QED BY <1>12 DEF P

\* A hint that is not in the queue may go anywhere.
LEMMA QueueFrame ==
  ASSUME WaveInv, queue' = queue,
         \A g \in Hints : pc[g] = "queued" => pc'[g] = "queued"
  PROVE  QueueInv'
<1>1. \A i \in 1 .. Len(queue) : queue[i] \in Hints
  BY DEF WaveInv, WaveTypeOK
<1> QED BY <1>1 DEF WaveInv, QueueInv

\* The queue.
LEMMA QueueStep ==
  ASSUME WaveInv, [Next]_vars
  PROVE  QueueInv'
<1>0. pc \in [Hints -> Steps] /\ queue \in Seq(Hints)
  BY DEF WaveInv, WaveTypeOK, Steps
<1>1. CASE UNCHANGED vars
  BY <1>1, QueueFrame DEF vars, task
<1>2. CASE LoopStep
  BY <1>2, LoopFrame, QueueFrame DEF task
<1>3. ASSUME Look PROVE QueueInv'
  <2> DEFINE h == First(todo)
  <2>1. h \in Hints /\ pc[h] = "idle"
    <3>1. h \in todo
      BY <1>3, FirstTodo DEF Look
    <3> QED BY <1>3, <3>1 DEF Look, WaveInv, WaveTypeOK, PhaseInv
  <2>2. CASE queue' = Append(queue, h) /\ pc' = [pc EXCEPT ![h] = "queued"]
    <3> HIDE DEF h
    <3>1. \A i \in 1 .. Len(queue) : queue[i] \in Hints /\ queue[i] # h
      BY <1>0, <2>1 DEF WaveInv, QueueInv
    <3>2. /\ Len(queue') = Len(queue) + 1 /\ queue'[Len(queue) + 1] = h
          /\ \A i \in 1 .. Len(queue) : queue'[i] = queue[i]
      BY <1>0, <2>1, <2>2
    <3>3. \A i \in 1 .. Len(queue') : pc'[queue'[i]] = "queued"
      BY <1>0, <2>1, <2>2, <3>1, <3>2 DEF WaveInv, QueueInv
    <3>4. \A i, j \in 1 .. Len(queue') : queue'[i] = queue'[j] => i = j
      BY <1>0, <3>1, <3>2 DEF WaveInv, QueueInv
    <3> QED BY <3>3, <3>4 DEF QueueInv
  <2>3. CASE UNCHANGED <<queue, pc>>
    BY <2>3, QueueFrame
  <2> QED BY <1>3, <2>2, <2>3 DEF Look
<1>4. ASSUME OnceMore PROVE QueueInv'
  <2>1. queue = <<>> /\ queue' = queue
    BY <1>4 DEF OnceMore, WaveInv, PhaseInv
  <2> QED BY <2>1 DEF QueueInv
<1>5. ASSUME NEW l \in SUBSET Hints, Prepare(l) PROVE QueueInv'
  BY <1>5, QueueFrame DEF Prepare, task
<1>6. ASSUME NEW h \in Hints, Task(h) PROVE QueueInv'
  <2>1. Others(h) /\ (Starts(h) \/ GoesOn(h) \/ Ends(h))
    BY <1>6, TaskEffect
  <2>2. CASE Starts(h)
    <3>1. /\ Len(queue') = Len(queue) - 1 /\ Len(queue) \in Nat \ {0} /\ h = queue[1]
          /\ \A i \in 1 .. Len(queue') : queue'[i] = queue[i + 1]
      BY <1>0, <2>2 DEF Starts
    <3>2. \A i, j \in 1 .. Len(queue) : queue[i] = queue[j] => i = j
      BY DEF WaveInv, QueueInv
    <3>3. \A i \in 1 .. Len(queue') : /\ i + 1 \in 1 .. Len(queue) /\ queue[i + 1] # h
                                      /\ queue[i + 1] \in Hints
      BY <1>0, <3>1, <3>2
    <3>4. \A i \in 1 .. Len(queue') : pc'[queue'[i]] = "queued"
      BY <2>1, <3>1, <3>3 DEF WaveInv, QueueInv, Others
    <3>5. \A i, j \in 1 .. Len(queue') : queue'[i] = queue'[j] => i = j
      BY <3>1, <3>2, <3>3
    <3> QED BY <3>4, <3>5 DEF QueueInv
  <2>3. CASE GoesOn(h) \/ Ends(h)
    <3>1. queue' = queue /\ pc[h] # "queued"
      BY <2>3 DEF GoesOn, Ends, Resting
    <3> QED BY <2>1, <3>1, QueueFrame DEF Others
  <2> QED BY <2>1, <2>2, <2>3
<1>7. CASE KbFinishes \/ KbWorks
  BY <1>7, KbFrame, QueueFrame DEF task
<1> QED BY <1>1, <1>2, <1>3, <1>4, <1>5, <1>6, <1>7, StepKinds

\* When every task is idle or done, none waits in the queue.
LEMMA EmptyWhenDone ==
  ASSUME WaveInv, \A h \in live : pc[h] \in {"idle", "done"}
  PROVE  queue = <<>>
<1>1. queue \in Seq(Hints) /\ \A h \in Hints : pc[h] # "queued"
  BY DEF WaveInv, WaveTypeOK, PhaseInv
<1>2. SUFFICES ASSUME queue # <<>> PROVE FALSE
  OBVIOUS
<1>3. queue[1] \in Hints /\ 1 \in 1 .. Len(queue)
  BY <1>1, <1>2
<1> QED BY <1>1, <1>3 DEF WaveInv, QueueInv

\* Phases.
LEMMA PhaseStep ==
  ASSUME WaveInv, [Next]_vars
  PROVE  PhaseInv'
<1> USE DEF WaveInv, WaveTypeOK, PhaseInv, AllDone, Late, Closed
<1>1. CASE UNCHANGED vars
  BY <1>1 DEF vars, fixed, process, loop, task
<1>2. ASSUME LoopStep PROVE PhaseInv'
  <2>1. UNCHANGED <<fixed, process, task, older, lock>>
    BY <1>2, LoopFrame
  <2>2. CASE Poll
    BY <2>1, <2>2 DEF Poll, fixed, process, task
  <2>3. CASE Looked
    BY <2>1, <2>3 DEF Looked, fixed, process, task
  <2>4. CASE Collect
    BY <2>1, <2>4 DEF Collect, fixed, process, task
  <2>5. ASSUME Join \/ Leave \/ Measured PROVE PhaseInv'
    <3>1. queue = <<>>
      BY <2>5, EmptyWhenDone DEF Join, Leave, Measured
    <3> QED BY <2>1, <2>5, <3>1 DEF Join, Leave, Measured, fixed, process, task
  <2>6. CASE Return
    BY <2>1, <2>6 DEF Return, fixed, process, task
  <2>7. ASSUME NEW pace \in Paces, Finish(pace) PROVE PhaseInv'
    BY <2>1, <2>7 DEF Finish, fixed, process, task
  <2> QED BY <1>2, <2>2, <2>3, <2>4, <2>5, <2>6, <2>7 DEF LoopStep
<1>3. ASSUME Look PROVE PhaseInv'
  <2>1. First(todo) \in todo /\ todo \subseteq live
    BY <1>3, FirstTodo DEF Look
  <2> QED BY <1>3, <2>1 DEF Look, fixed, process
<1>4. ASSUME OnceMore PROVE PhaseInv'
  <2>1. First(todo) \in live
    BY <1>4, FirstTodo DEF OnceMore, CountInv, Again
  <2>2. pc' = [pc EXCEPT ![First(todo)] = FirstStep]
    BY <1>4 DEF OnceMore, Attempt
  <2> QED BY <1>4, <2>1, <2>2 DEF OnceMore, fixed, process
<1>5. ASSUME NEW l \in SUBSET Hints, Prepare(l) PROVE PhaseInv'
  <2>1. queue = <<>> /\ \A h \in Hints : pc[h] = "idle" /\ times[h] = None
    <3>1. \A h \in Hints : pc[h] = "idle" /\ times[h] = None
      BY <1>5 DEF Prepare
    <3> QED BY <3>1, EmptyWhenDone
  <2> QED BY <1>5, <2>1, WaveAssumption DEF Prepare, task
<1>6. ASSUME NEW h \in Hints, Task(h) PROVE PhaseInv'
  <2>1. /\ UNCHANGED <<fixed, process, loop>> /\ Others(h)
        /\ Starts(h) \/ GoesOn(h) \/ Ends(h)
    BY <1>6, TaskEffect
  <2>2. pc[h] \notin {"idle", "done"} /\ h \in live
    BY <2>1 DEF Starts, GoesOn, Ends, Resting
  <2>3. main \notin Closed
    BY <2>2
  <2>4. main = "again" => queue' = <<>>
    BY <2>1 DEF Starts, GoesOn, Ends
  <2>5. \A g \in Hints \ live : pc'[g] = "idle" /\ times'[g] = None
    BY <2>1, <2>2 DEF Others
  <2>6. main = "look" => \A g \in todo : g \in live /\ pc'[g] = "idle"
    BY <2>1, <2>2 DEF Others
  <2>7. UNCHANGED <<live, main, kb, kbOn, over, todo>>
    BY <2>1 DEF fixed, process, loop
  <2>8. main \in {"again"} \cup Closed => queue' = <<>>
    BY <2>3, <2>4
  <2> QED BY <2>3, <2>5, <2>6, <2>7, <2>8
<1>7. CASE KbFinishes \/ KbWorks
  <2>1. UNCHANGED <<fixed, loop, task>>
    BY <1>7, KbFrame
  <2>2. kb = "runs"
    BY <1>7 DEF KbFinishes, KbWorks, KbTimed, KbExits, KbTimes, KbResult
  <2>3. kb' = kb \/ (kbOn' = {} /\ kb' # "runs")
    BY <1>7, WaveAssumption DEF KbFinishes, KbWorks, KbTimed, KbExits, KbTimes, KbResult
  <2>4. main # "prepare"
    BY <2>2, WaveAssumption
  <2> QED BY <2>1, <2>2, <2>3, <2>4 DEF fixed, loop, task
<1> QED BY <1>1, <1>2, <1>3, <1>4, <1>5, <1>6, <1>7, StepKinds

\* What was read.
LEMMA FileStep ==
  ASSUME WaveInv, [Next]_vars
  PROVE  FileInv'
<1> USE DEF WaveInv, WaveTypeOK, PhaseInv, FileInv, Late
<1>1. CASE UNCHANGED vars
  BY <1>1 DEF vars, fixed, process, loop, task
<1>2. ASSUME LoopStep PROVE FileInv'
  <2>1. UNCHANGED <<fixed, process, task, older, lock>>
    BY <1>2, LoopFrame
  <2>2. CASE Poll
    BY <2>1, <2>2 DEF Poll, fixed, process, task
  <2>3. CASE Looked
    BY <2>1, <2>3 DEF Looked, fixed, process, task
  <2>4. CASE Collect
    <3>1. \A h \in Hints : pc[h] # "idle" => \A s \in Sides :
             IF file[h][s] = "none" THEN sides[h][s] = "infra" /\ kb # "runs" ELSE sides[h][s] = file[h][s]
      OBVIOUS
    <3>2. kb = "ok" => \A h \in live : \A s \in Sides :
             final'[h][s] = IF file[h][s] = "none" THEN "missing" ELSE file[h][s]
      BY <2>4 DEF Collect
    <3>3. \A h \in live : pc[h] # "idle"
      BY <2>4 DEF Collect
    <3> QED BY <2>1, <2>4, <3>1, <3>2, <3>3 DEF Collect, fixed, process, task
  <2>5. ASSUME Join \/ Leave \/ Measured \/ Return \/ \E pace \in Paces : Finish(pace) PROVE FileInv'
    <3>1. main \in Late \ {"collect"} /\ main' \in Late /\ sides' = sides /\ final' = final
      BY <2>5 DEF Join, Leave, Measured, Return, Finish
    <3> QED BY <2>1, <3>1 DEF fixed, process, task
  <2> QED BY <1>2, <2>2, <2>3, <2>4, <2>5 DEF LoopStep
<1>3. ASSUME Look PROVE FileInv'
  <2> DEFINE h == First(todo)
  <2>1. h \in todo /\ h \in live
    BY <1>3, FirstTodo DEF Look
  <2>2. UNCHANGED <<file, kb, over, final, live, main>> /\ todo' = todo \ {h}
    BY <1>3 DEF Look, fixed, process
  <2>3. CASE Written(h) \/ over
    <3>1. sides' = [sides EXCEPT ![h] = Read(h)] /\ pc' = [pc EXCEPT ![h] = "queued"]
      BY <1>3, <2>3 DEF Look
    <3>2. \A s \in Sides : IF file[h][s] = "none" THEN sides'[h][s] = "infra" /\ kb # "runs"
                                                  ELSE sides'[h][s] = file[h][s]
      <4>1. \A s \in Sides : sides'[h][s] = IF file[h][s] = "none" THEN "infra" ELSE file[h][s]
        BY <2>1, <3>1 DEF Read
      <4>2. \A s \in Sides : file[h][s] = "none" => kb # "runs"
        BY <2>3 DEF Written
      <4> QED BY <4>1, <4>2
    <3>3. pc'[h] # "idle" /\ \A g \in Hints \ {h} : pc'[g] = pc[g] /\ sides'[g] = sides[g]
      BY <2>1, <3>1
    <3>4. h \in Hints
      BY <2>1
    <3>5. \A g \in Hints : pc'[g] # "idle" => \A s \in Sides :
             IF file'[g][s] = "none" THEN sides'[g][s] = "infra" /\ kb' # "runs" ELSE sides'[g][s] = file'[g][s]
      <4> HIDE DEF h
      <4>1. SUFFICES ASSUME NEW g \in Hints, pc'[g] # "idle", NEW s \in Sides
                     PROVE  IF file[g][s] = "none" THEN sides'[g][s] = "infra" /\ kb # "runs" ELSE sides'[g][s] = file[g][s]
        BY <2>2
      <4>2. CASE g = h
        BY <3>2, <4>2
      <4>3. CASE g # h
        <5>1. pc[g] # "idle" /\ sides'[g] = sides[g]
          BY <3>3, <4>1, <4>3
        <5>2. IF file[g][s] = "none" THEN sides[g][s] = "infra" /\ kb # "runs" ELSE sides[g][s] = file[g][s]
          BY <5>1
        <5> QED BY <5>1, <5>2
      <4> QED BY <4>2, <4>3
    <3>6. over => \A g \in live \ todo' : pc'[g] # "idle"
      <4> HIDE DEF h
      <4> QED BY <1>3, <2>2, <3>3, <3>4 DEF Look
    <3> QED BY <1>3, <2>2, <3>5, <3>6 DEF Look
  <2>4. CASE ~ (Written(h) \/ over)
    <3>1. UNCHANGED <<sides, pc>> /\ ~ over
      BY <1>3, <2>4 DEF Look
    <3> HIDE DEF h
    <3> QED BY <1>3, <2>1, <2>2, <3>1 DEF Look
  <2> QED BY <2>3, <2>4
<1>4. ASSUME OnceMore PROVE FileInv'
  <2>1. First(todo) \in live
    BY <1>4, FirstTodo DEF OnceMore, CountInv, Again
  <2>2. pc' = [pc EXCEPT ![First(todo)] = FirstStep]
    BY <1>4 DEF OnceMore, Attempt
  <2>3. pc[First(todo)] # "idle" /\ \A g \in Hints : pc'[g] = "idle" <=> pc[g] = "idle"
    BY <1>4, <2>1, <2>2 DEF OnceMore, FirstStep
  <2> QED BY <1>4, <2>3 DEF OnceMore, fixed, process
<1>5. ASSUME NEW l \in SUBSET Hints, Prepare(l) PROVE FileInv'
  <2>1. \A h \in Hints : pc[h] = "idle"
    BY <1>5 DEF Prepare
  <2>2. /\ UNCHANGED <<pc, over>> /\ (main' \in Late => live' = {}) /\ main' # "look"
    BY <1>5 DEF Prepare, task
  <2> QED BY <2>1, <2>2
<1>6. ASSUME NEW h \in Hints, Task(h) PROVE FileInv'
  <2>1. /\ UNCHANGED <<fixed, process, loop>> /\ Others(h)
        /\ Starts(h) \/ GoesOn(h) \/ Ends(h)
    BY <1>6, TaskEffect
  <2>2. pc[h] # "idle" /\ pc'[h] # "idle"
    BY <2>1 DEF Starts, GoesOn, Ends, Resting
  <2>3. \A g \in Hints : pc'[g] = "idle" <=> pc[g] = "idle"
    BY <2>1, <2>2 DEF Others
  <2> QED BY <2>1, <2>3 DEF fixed, process, loop
<1>7. CASE KbFinishes \/ KbWorks
  <2>1. UNCHANGED <<fixed, loop, task>>
    BY <1>7, KbFrame
  <2>2. kb = "runs"
    BY <1>7 DEF KbFinishes, KbWorks, KbTimed, KbExits, KbTimes, KbResult
  <2>3. main \notin Late /\ ~ over
    BY <2>2
  <2>4. \A h \in Hints : \A s \in Sides : file'[h][s] = file[h][s] \/ file[h][s] = "none"
    <3>1. CASE file' = file
      BY <3>1
    <3>2. ASSUME NEW h \in Hints, NEW s \in Sides, NEW r \in {"ok", "bad", "infra"}, KbResult(h, s, r)
          PROVE  \A g \in Hints : \A t \in Sides : file'[g][t] = file[g][t] \/ file[g][t] = "none"
      BY <3>2 DEF KbResult
    <3> QED BY <1>7, <3>1, <3>2 DEF KbFinishes, KbWorks, KbTimed, KbExits, KbTimes
  <2>5. \A h \in Hints : pc[h] # "idle" => \A s \in Sides : file[h][s] # "none" /\ sides[h][s] = file[h][s]
    BY <2>2
  <2>6. \A h \in Hints : pc[h] # "idle" => \A s \in Sides : file'[h][s] # "none" /\ sides[h][s] = file'[h][s]
    BY <2>4, <2>5
  <2> QED BY <2>1, <2>3, <2>6 DEF fixed, loop, task
<1> QED BY <1>1, <1>2, <1>3, <1>4, <1>5, <1>6, <1>7, StepKinds

\* The counts do not depend on what the main thread and KernelBlaster do between
\* the phases.
LEMMA CountFrame ==
  ASSUME WaveInv, UNCHANGED <<pool, way, live, sides, task>>,
         main' = main \/ (main' \notin {"again"} \cup Closed /\ main \notin {"again"} \cup Closed),
         main \in {"again"} \cup Closed => kb' = kb, main = "again" => todo' = todo
  PROVE  CountInv'
<1>1. UNCHANGED <<Attempts, pc, left, tries, times>>
  BY DEF task, Attempts
<1>2. \A h \in Hints : (Counted(h)' <=> Counted(h)) /\ (Worthwhile(h)' <=> Worthwhile(h))
  BY <1>1 DEF Counted, Worthwhile
<1>3. CountInv
  BY DEF WaveInv
<1>4. Mismatched' = Mismatched
  BY <1>1 DEF Mismatched
<1>5. main = "again" => (\A h \in live : CountedAgain(h)' <=> CountedAgain(h)) /\ Again' = Again
  BY <1>1 DEF CountedAgain, Again
<1> QED BY <1>1, <1>2, <1>3, <1>4, <1>5 DEF CountInv, Closed

\* The count of a task's own hint.
LEMMA CountTask ==
  ASSUME WaveInv, NEW h \in Hints, Task(h)
  PROVE  CountInv'
<1>1. /\ UNCHANGED <<fixed, process, loop>> /\ Others(h)
      /\ Starts(h) \/ GoesOn(h) \/ Ends(h)
  BY TaskEffect
<1>2. UNCHANGED <<Attempts, way, live, main, kb, todo, sides>> /\ Attempts \in Nat /\ Attempts >= 1
  BY <1>1, PoolFacts DEF fixed, process, loop, Attempts
<1>3. pc[h] \notin {"idle", "done"} /\ h \in live
  BY <1>1 DEF Starts, GoesOn, Ends, Resting, WaveInv, PhaseInv
<1>4. main \notin Closed /\ (main = "again" => ~ Starts(h))
  BY <1>3 DEF Starts, WaveInv, PhaseInv, AllDone
<1>5. left[h] \in Nat /\ tries[h] \in Nat /\ CountInv
  BY DEF WaveInv, WaveTypeOK
<1>6. \A g \in Hints : Worthwhile(g)' <=> Worthwhile(g)
  BY <1>2 DEF Worthwhile
<1>7. None \notin {"faster", "slower", "own", "infra", "mismatch"}
  BY WaveAssumption
<1>8. \A g \in Hints : pc'[g] = "done" /\ Worthwhile(g)' => times'[g] # None
  <2>1. ASSUME NEW g \in Hints, g # h, pc'[g] = "done", Worthwhile(g)' PROVE times'[g] # None
    BY <1>1, <1>5, <1>6, <2>1 DEF Others, CountInv
  <2>2. ASSUME pc'[h] = "done", Worthwhile(h)' PROVE times'[h] # None
    BY <1>1, <1>6, <1>7, <2>2 DEF Starts, GoesOn, Ends, Resting
  <2> QED BY <2>1, <2>2
<1>9. pc'[h] \notin Resting => left'[h] >= 1
  BY <1>1, <1>2, <1>5 DEF Starts, GoesOn, Ends, CountInv, Resting
<1>10. ASSUME main # "again" PROVE Counted(h)'
  <2>1. Counted(h)
    BY <1>4, <1>5, <1>10 DEF CountInv
  <2>2. CASE Starts(h)
    BY <1>2, <1>7, <2>1, <2>2 DEF Starts, Counted, Resting
  <2>3. CASE GoesOn(h)
    BY <1>2, <1>5, <1>7, <2>1, <2>3 DEF GoesOn, Counted, Resting
  <2>4. CASE Ends(h)
    BY <1>2, <1>5, <2>1, <2>4 DEF Ends, Counted, Resting, CountInv
  <2> QED BY <1>1, <2>2, <2>3, <2>4
<1>11. \A g \in Hints \ {h} : Counted(g) => Counted(g)'
  BY <1>1, <1>2 DEF Others, Counted
<1>12. ASSUME main = "again" PROVE CountedAgain(h)' /\ h \notin Again' \cap todo
  <2>1. CountedAgain(h)
    BY <1>3, <1>5, <1>12 DEF CountInv
  <2>2. pc[h] \notin Resting /\ left[h] = 1 /\ tries[h] = Attempts /\ h \notin todo /\ kb = "ok"
    <3>1. pc[h] \notin Resting
      BY <1>1, <1>4, <1>12 DEF GoesOn, Ends
    <3> QED BY <2>1, <3>1 DEF CountedAgain, Resting
  <2>3. CASE GoesOn(h)
    BY <1>2, <2>2, <2>3 DEF GoesOn, CountedAgain, Resting
  <2>4. CASE Ends(h)
    BY <1>2, <2>2, <2>4 DEF Ends, CountedAgain, Resting
  <2> QED BY <1>1, <1>4, <1>12, <2>2, <2>3, <2>4
<1>13. \A g \in live \ {h} : g \in Hints /\ (CountedAgain(g) => CountedAgain(g)')
  BY <1>1, <1>2 DEF Others, CountedAgain, WaveInv, WaveTypeOK
<1>14. main = "again" => todo \subseteq Again'
  <2>1. ASSUME main = "again" PROVE h \notin todo
    BY <1>1, <1>3, <1>4, <1>5, <2>1 DEF CountedAgain, CountInv, GoesOn, Ends
  <2> QED BY <1>1, <1>2, <1>5, <2>1 DEF CountInv, Again, Others, WaveInv, WaveTypeOK
<1>15. \A g \in Hints : pc'[g] \notin Resting => left'[g] >= 1
  BY <1>1, <1>5, <1>9 DEF Others, CountInv
<1>16. main \notin {"again"} \cup Closed => \A g \in Hints : Counted(g)'
  BY <1>5, <1>10, <1>11 DEF CountInv
<1>17. main = "again" => \A g \in live : CountedAgain(g)'
  BY <1>5, <1>12, <1>13 DEF CountInv
<1> QED BY <1>2, <1>4, <1>8, <1>14, <1>15, <1>16, <1>17 DEF CountInv, Closed

\* Counts.
LEMMA CountStep ==
  ASSUME WaveInv, [Next]_vars
  PROVE  CountInv'
<1>0. CountInv /\ None # "infra" /\ None # "mismatch"
  BY WaveAssumption DEF WaveInv
<1>1. CASE UNCHANGED vars
  BY <1>1, CountFrame DEF vars, fixed, process, loop
<1>2. ASSUME LoopStep PROVE CountInv'
  <2>1. UNCHANGED <<fixed, process, task, older, lock>>
    BY <1>2, LoopFrame
  <2>2. UNCHANGED <<Attempts, pool, way, live, kb, pc, left, tries, times>>
    BY <2>1 DEF fixed, process, task, Attempts
  <2>3. CASE Poll
    BY <2>1, <2>2, <2>3, CountFrame DEF Poll, Closed
  <2>4. CASE Looked
    BY <2>1, <2>2, <2>4, CountFrame DEF Looked, Closed
  <2>5. CASE Collect
    BY <2>1, <2>2, <2>5, CountFrame DEF Collect, Closed
  <2>6. CASE Return
    BY <2>2, <2>6, <1>0 DEF Return, CountInv, Closed, Mismatched, Worthwhile
  <2>7. ASSUME NEW pace \in Paces, Finish(pace) PROVE CountInv'
    BY <2>1, <2>2, <2>7, CountFrame DEF Finish, Closed
  <2>8. CASE Leave
    BY <2>2, <2>8, <1>0 DEF Leave, CountInv, Closed, Worthwhile
  <2>9. CASE Join
    <3>1. /\ \A h \in Hints : pc[h] = "done" /\ Worthwhile(h)' => times[h] # None
          /\ \A h \in Hints : pc[h] \notin Resting => left[h] >= 1
      BY <1>0, <2>2, <2>9 DEF Join, CountInv, Worthwhile
    <3>2. \A h \in live : h \in Hints /\ pc[h] = "done" /\ Counted(h)
      BY <1>0, <2>9 DEF Join, AllDone, CountInv, Closed, WaveInv, WaveTypeOK, FileInv, Late
    <3>3. todo' = Again /\ Again' = Again
      BY <2>2, <2>9 DEF Join, Again
    <3>4. \A h \in live : CountedAgain(h)'
      BY <2>2, <3>2, <3>3 DEF CountedAgain, Counted, Again, Resting
    <3> QED BY <2>2, <2>9, <3>1, <3>3, <3>4 DEF Join, CountInv, Closed
  <2>10. CASE Measured
    <3>1. /\ \A h \in Hints : pc[h] = "done" /\ Worthwhile(h)' => times[h] # None
          /\ \A h \in Hints : pc[h] \notin Resting => left[h] >= 1
      BY <1>0, <2>2, <2>10 DEF Measured, CountInv, Worthwhile
    <3>2. \A h \in live : CountedAgain(h)
      BY <1>0, <2>10 DEF Measured, CountInv
    <3>3. main' \in {"raised", "finish"} /\ (main' = "finish" => ~ Mismatched /\ todo = {})
      BY <2>10 DEF Measured
    <3>4. \A h \in live : pc[h] = "done"
      BY <2>10, <3>2 DEF Measured, AllDone, CountedAgain, Resting
    <3>5. main' = "finish" /\ kb = "ok" => \A h \in live : times[h] = "infra" => tries[h] = Attempts + 1
      BY <3>2, <3>3, <3>4 DEF CountedAgain
    <3>6. Mismatched' = Mismatched
      BY <2>2 DEF Mismatched
    <3> QED BY <2>2, <3>1, <3>3, <3>5, <3>6 DEF CountInv, Closed
  <2> QED BY <1>2, <2>3, <2>4, <2>5, <2>6, <2>7, <2>8, <2>9, <2>10 DEF LoopStep
<1>3. ASSUME Look PROVE CountInv'
  <2> DEFINE h == First(todo)
  <2>1. h \in Hints /\ pc[h] = "idle"
    <3>1. h \in todo
      BY <1>3, FirstTodo DEF Look
    <3> QED BY <1>3, <3>1 DEF Look, WaveInv, WaveTypeOK, PhaseInv
  <2>2. UNCHANGED <<Attempts, way, left, tries, times>> /\ main = "look" /\ main' = main
    BY <1>3 DEF Look, fixed, Attempts
  <2>3. CASE UNCHANGED <<sides, pc>>
    BY <1>0, <2>2, <2>3 DEF CountInv, Closed, Counted, Worthwhile
  <2>4. CASE sides' = [sides EXCEPT ![h] = Read(h)] /\ pc' = [pc EXCEPT ![h] = "queued"]
    <3>1. pc'[h] = "queued" /\ \A g \in Hints \ {h} : pc'[g] = pc[g] /\ sides'[g] = sides[g]
      BY <2>1, <2>4 DEF WaveInv, WaveTypeOK
    <3> HIDE DEF h
    <3>2. \A g \in Hints : Counted(g) /\ Counted(g)'
      BY <1>0, <2>1, <2>2, <3>1 DEF CountInv, Closed, Counted, Resting
    <3>3. \A g \in Hints \ {h} : Worthwhile(g)' <=> Worthwhile(g)
      BY <2>2, <3>1 DEF Worthwhile
    <3> QED BY <1>0, <2>2, <3>1, <3>2, <3>3 DEF CountInv, Closed, Resting
  <2> QED BY <1>3, <2>3, <2>4 DEF Look
<1>4. ASSUME OnceMore PROVE CountInv'
  <2>0. PICK h \in todo : h = First(todo)
    BY <1>4, FirstTodo DEF OnceMore
  <2>1. h \in todo /\ h \in live /\ h \in Hints /\ CountedAgain(h) /\ kb = "ok" /\ times[h] = "infra"
    BY <1>0, <1>4 DEF OnceMore, CountInv, Again, WaveInv, WaveTypeOK
  <2>2. UNCHANGED <<Attempts, way, live, kb, sides, tries, times, main>> /\ todo' = todo \ {h} /\ main = "again"
    BY <1>4, <2>0 DEF OnceMore, fixed, process, Attempts
  <2>3. pc' = [pc EXCEPT ![h] = FirstStep] /\ left' = [left EXCEPT ![h] = 1] /\ pc[h] = "done"
    BY <1>4, <2>0, <2>1 DEF OnceMore, Attempt, Fresh, AllDone, CountedAgain, Resting
  <2>4. pc'[h] \in {"build", "lease"} /\ left'[h] = 1
    BY <2>1, <2>3 DEF FirstStep, WaveInv, WaveTypeOK
  <2>5. \A g \in Hints \ {h} : pc'[g] = pc[g] /\ left'[g] = left[g]
    BY <2>3 DEF WaveInv, WaveTypeOK
  <2>6. CountedAgain(h)'
    <3>1. tries[h] = Attempts
      BY <2>1, <2>3 DEF CountedAgain
    <3>2. pc'[h] # "done" /\ h \notin todo' /\ tries'[h] = Attempts' /\ kb' = "ok"
      BY <2>1, <2>2, <2>4, <3>1
    <3> QED BY <2>4, <3>2 DEF CountedAgain, Resting
  <2>7. \A g \in live \ {h} : g \in Hints /\ CountedAgain(g)'
    BY <1>0, <2>2, <2>5 DEF CountInv, CountedAgain, WaveInv, WaveTypeOK
  <2>8. Again' = Again /\ todo' \subseteq Again
    BY <1>0, <2>2 DEF Again, CountInv
  <2>9. \A g \in Hints : Worthwhile(g)' <=> Worthwhile(g)
    BY <2>2 DEF Worthwhile
  <2>10. \A g \in Hints : pc'[g] = "done" /\ Worthwhile(g)' => times'[g] # None
    BY <1>0, <2>2, <2>4, <2>5, <2>9 DEF CountInv
  <2>11. \A g \in Hints : pc'[g] \notin Resting => left'[g] >= 1
    BY <1>0, <2>4, <2>5 DEF CountInv
  <2>12. \A g \in live' : CountedAgain(g)'
    BY <2>2, <2>6, <2>7
  <2>13. main' = "again" /\ todo' \subseteq Again'
    BY <2>2, <2>8
  <2> QED BY <2>10, <2>11, <2>12, <2>13 DEF CountInv, Closed
<1>5. ASSUME NEW l \in SUBSET Hints, Prepare(l) PROVE CountInv'
  <2>1. UNCHANGED <<Attempts, way, sides, pc, left, tries, times>>
    BY <1>5 DEF Prepare, task, Attempts
  <2>2. \A h \in Hints : pc[h] = "idle" /\ times[h] = None
    BY <1>5 DEF Prepare, WaveInv, PhaseInv
  <2>3. main = "prepare" /\ main' \in {"poll", "finish"} /\ (main' = "finish" => live' = {})
    BY <1>5 DEF Prepare
  <2>4. ~ Mismatched'
    BY <1>0, <2>1, <2>2 DEF Mismatched
  <2>5. \A h \in Hints : Counted(h)'
    BY <1>0, <2>1, <2>3 DEF CountInv, Counted, Closed
  <2> QED BY <2>1, <2>2, <2>3, <2>4, <2>5 DEF CountInv, Closed, Resting
<1>6. ASSUME NEW h \in Hints, Task(h) PROVE CountInv'
  BY <1>6, CountTask
<1>7. CASE KbFinishes \/ KbWorks
  <2>1. kb = "runs"
    BY <1>7 DEF KbFinishes, KbWorks, KbTimed, KbExits, KbTimes, KbResult, WaveInv, PhaseInv
  <2>2. main \notin {"again"} \cup Closed
    BY <2>1 DEF WaveInv, PhaseInv, Late, Closed
  <2> QED BY <1>7, <2>2, KbFrame, CountFrame DEF fixed, loop
<1> QED BY <1>1, <1>2, <1>3, <1>4, <1>5, <1>6, <1>7, StepKinds

\* One verdict.
LEMMA VerdictGood ==
  ASSUME WaveInv, NEW h \in live, NEW pace \in Paces, main = "finish"
  PROVE  LET v == Verdict(h, pace) IN
         /\ v \in {"accepted", "rejected"} =>
              /\ kb = "ok"
              /\ \/ \E s \in Sides : final[h][s] \in {"bad", "missing"}
                 \/ Bad(h) = {} /\ (way = "off" \/ times[h] \in {"faster", "slower", "own"})
         /\ v = "undecided" /\ kb = "ok" /\ Bad(h) = {} => tries[h] = Attempts + 1
<1> DEFINE by == IF way = "off" THEN pace ELSE times[h]
<1>1. h \in Hints /\ pc[h] = "done" /\ ~ Mismatched
  BY DEF WaveInv, WaveTypeOK, PhaseInv, FileInv, CountInv, Closed, Late, AllDone
<1>2. ASSUME kb # "ok" PROVE Verdict(h, pace) = "undecided"
  BY <1>2 DEF Verdict
<1>3. ASSUME kb = "ok" PROVE \A s \in Sides : final[h][s] = IF file[h][s] = "none" THEN "missing" ELSE file[h][s]
  BY <1>3 DEF WaveInv, FileInv, Late
<1>4. ASSUME kb = "ok", Bad(h) # {} PROVE Verdict(h, pace) = IF \A s \in Bad(h) : final[h][s] = "infra" THEN "undecided" ELSE "rejected"
  BY <1>4 DEF Verdict
<1>5. ASSUME kb = "ok", Bad(h) # {}, \E s \in Bad(h) : final[h][s] # "infra"
      PROVE  \E s \in Sides : final[h][s] \in {"bad", "missing"}
  <2>1. PICK s \in Sides : final[h][s] \notin {"ok", "infra"}
    BY <1>5 DEF Bad
  <2>2. file[h][s] \in {"none", "ok", "bad", "infra"}
    BY <1>1 DEF WaveInv, WaveTypeOK, Files
  <2>3. final[h][s] \in {"bad", "missing"}
    BY <1>3, <1>5, <2>1, <2>2
  <2> QED BY <2>3
<1>6. ASSUME kb = "ok", Bad(h) = {}
      PROVE  Verdict(h, pace) = IF by = "infra" THEN "undecided" ELSE IF by = "faster" THEN "accepted" ELSE "rejected"
  BY <1>6 DEF Verdict
<1>7. ASSUME kb = "ok", Bad(h) = {}, way # "off" PROVE times[h] # None /\ times[h] # "mismatch"
  <2>1. \A s \in Sides : sides[h][s] = "ok"
    <3>1. \A s \in Sides : final[h][s] = "ok"
      BY <1>7 DEF Bad
    <3>2. \A s \in Sides : file[h][s] = "ok"
      BY <1>3, <1>7, <3>1
    <3> QED BY <1>1, <3>2 DEF WaveInv, FileInv
  <2>2. Worthwhile(h)
    BY <1>7, <2>1 DEF Worthwhile
  <2> QED BY <1>1, <2>2 DEF WaveInv, CountInv, Mismatched
<1>8. times[h] \in {None, "faster", "slower", "own", "infra", "mismatch"}
  BY <1>1 DEF WaveInv, WaveTypeOK
<1>9. kb = "ok" /\ times[h] = "infra" => tries[h] = Attempts + 1
  BY DEF WaveInv, CountInv
<1>10. ASSUME kb = "ok", Bad(h) = {}, Verdict(h, pace) = "undecided" PROVE times[h] = "infra"
  BY <1>6, <1>10 DEF Paces
<1>11. ASSUME kb = "ok", Bad(h) = {}, way # "off", Verdict(h, pace) \in {"accepted", "rejected"}
       PROVE  times[h] \in {"faster", "slower", "own"}
  BY <1>6, <1>7, <1>8, <1>11
<1> HIDE DEF by
<1> QED BY <1>2, <1>4, <1>5, <1>9, <1>10, <1>11

\* Verdicts.
LEMMA VerdictStep ==
  ASSUME WaveInv, [Next]_vars
  PROVE  VerdictInv'
<1>0. VerdictInv /\ None \notin {"accepted", "rejected", "undecided"}
  BY WaveAssumption DEF WaveInv
<1>1. ASSUME \A h \in Hints : verdict'[h] = None, live' \subseteq Hints PROVE VerdictInv'
  BY <1>0, <1>1 DEF VerdictInv, VerdictRestsOnKernels, LostOnlyAfterOnceMore
<1>2. live' \subseteq Hints
  BY TypeStep DEF WaveTypeOK
<1>3. CASE main \notin {"finish", "returned"}
  <2>1. verdict' = verdict
    BY <1>3, StepKinds, LoopFrame, KbFrame, TaskEffect
       DEF LoopStep, Poll, Look, Looked, Collect, Join, Leave, OnceMore, Measured, Return, Finish, Prepare, vars, loop
  <2> QED BY <1>1, <1>2, <1>3, <2>1 DEF WaveInv, VerdictInv
<1>4. CASE main \in {"finish", "returned"}
  <2>1. kb # "runs" /\ kbOn = {} /\ queue = <<>> /\ \A h \in live : pc[h] \in {"idle", "done"}
    BY <1>4 DEF WaveInv, PhaseInv, Late, Closed, AllDone
  <2>2. ~ (KbFinishes \/ KbWorks)
    BY <2>1 DEF KbFinishes, KbWorks, KbTimed, KbExits, KbTimes, KbResult
  <2>3. ASSUME NEW h \in Hints, Task(h) PROVE FALSE
    <3>1. pc[h] \notin {"idle", "done"}
      BY <2>3, TaskEffect DEF Starts, GoesOn, Ends, Resting
    <3> QED BY <2>1, <3>1 DEF WaveInv, PhaseInv
  <2>4. UNCHANGED vars \/ Return \/ \E pace \in Paces : Finish(pace)
    BY <1>4, <2>2, <2>3, StepKinds DEF LoopStep, Poll, Look, Looked, Collect, Join, Leave, OnceMore, Measured, Prepare
  <2>5. ASSUME UNCHANGED vars \/ Return PROVE VerdictInv'
    <3>1. UNCHANGED <<pool, way, live, kb, final, times, tries, verdict>>
      BY <2>5 DEF vars, fixed, process, loop, task, Return
    <3>2. main' \in {"finish", "returned"}
      BY <1>4, <2>5 DEF vars, loop, Return
    <3> QED BY <1>0, <3>1, <3>2 DEF VerdictInv, VerdictRestsOnKernels, LostOnlyAfterOnceMore, Bad, Attempts
  <2>6. ASSUME NEW pace \in Paces, Finish(pace) PROVE VerdictInv'
    <3>0. PICK g \in todo : g = First(todo)
      BY <2>6, FirstTodo DEF Finish
    <3>1. UNCHANGED <<pool, way, live, kb, final, times, tries, main>> /\ main = "finish"
      BY <2>6 DEF fixed, process, task, Finish
    <3>2. g \in Hints /\ verdict' = [verdict EXCEPT ![g] = Verdict(g, pace)]
      BY <2>6, <3>0 DEF Finish, WaveInv, WaveTypeOK
    <3>3. verdict'[g] = Verdict(g, pace) /\ \A h \in Hints \ {g} : verdict'[h] = verdict[h]
      BY <3>2 DEF WaveInv, WaveTypeOK
    <3>4. \A h \in live : h \in Hints /\ Bad(h)' = Bad(h)
      BY <3>1 DEF Bad, WaveInv, WaveTypeOK
    <3>5. VerdictRestsOnKernels'
      <4>1. SUFFICES ASSUME NEW h \in live, verdict'[h] \in {"accepted", "rejected"}
                     PROVE  /\ kb = "ok"
                            /\ \/ \E s \in Sides : final[h][s] \in {"bad", "missing"}
                               \/ Bad(h) = {} /\ (way = "off" \/ times[h] \in {"faster", "slower", "own"})
        BY <3>1, <3>4 DEF VerdictRestsOnKernels
      <4>2. CASE h = g
        BY <3>1, <3>3, <4>1, <4>2, VerdictGood
      <4>3. CASE h # g
        <5>1. verdict[h] \in {"accepted", "rejected"}
          BY <3>3, <3>4, <4>1, <4>3
        <5> QED BY <1>0, <5>1 DEF VerdictInv, VerdictRestsOnKernels
      <4> QED BY <4>2, <4>3
    <3>6. LostOnlyAfterOnceMore'
      <4>1. SUFFICES ASSUME NEW h \in live, verdict'[h] = "undecided", kb = "ok", Bad(h) = {}
                     PROVE  tries[h] = Attempts + 1
        BY <3>1, <3>4 DEF LostOnlyAfterOnceMore, Attempts
      <4>2. CASE h = g
        BY <3>1, <3>3, <4>1, <4>2, VerdictGood
      <4>3. CASE h # g
        <5>1. verdict[h] = "undecided"
          BY <3>3, <3>4, <4>1, <4>3
        <5> QED BY <1>0, <4>1, <5>1 DEF VerdictInv, LostOnlyAfterOnceMore
      <4> QED BY <4>2, <4>3
    <3> QED BY <3>1, <3>5, <3>6 DEF VerdictInv
  <2> QED BY <2>4, <2>5, <2>6
<1> QED BY <1>3, <1>4

\* The invariant holds in every reachable state.
THEOREM WaveInvariant == Spec => []WaveInv
<1>1. Init => WaveInv
  <2>1. SUFFICES ASSUME Init PROVE WaveInv
    OBVIOUS
  <2>2. WaveTypeOK
    <3>1. NoFile \in [Sides -> Files] /\ NoFile \in [Sides -> Files \cup {"missing"}] /\ NoFile \in [Sides -> Outcomes]
      BY DEF NoFile, Files, Outcomes
    <3>2. file \in [Hints -> [Sides -> Files]] /\ sides \in [Hints -> [Sides -> Files]]
          /\ final \in [Hints -> [Sides -> Files \cup {"missing"}]] /\ got \in [Hints -> [Sides -> Outcomes]]
      <4> HIDE DEF Files, Outcomes, NoFile
      <4> QED BY <2>1, <3>1 DEF Init
    <3>3. /\ pool \in Pools /\ way \in {"own", "eval", "off"} /\ main = "prepare" /\ over \in BOOLEAN
          /\ live = {} /\ todo = {} /\ kb = None /\ kbOn = {} /\ older = {}
      BY <2>1, WaveAssumption DEF Init
    <3>4. queue \in Seq(Hints)
      BY <2>1 DEF Init
    <3>5. /\ pc \in [Hints -> Resting \cup OnLease \cup {"build", "lease"}] /\ left \in [Hints -> Nat]
          /\ tries \in [Hints -> Nat] /\ dev \in [Hints -> Gpus \cup {None}] /\ runs \in [Hints -> SUBSET Sides]
          /\ lock \in [Gpus -> Hints \cup {KB, None}]
      BY <2>1 DEF Init, Resting, OnLease
    <3>6. /\ times \in [Hints -> {None, "faster", "slower", "own", "infra", "mismatch"}]
          /\ verdict \in [Hints -> {None, "accepted", "rejected", "undecided"}]
      BY <2>1 DEF Init
    <3> QED BY <3>2, <3>3, <3>4, <3>5, <3>6 DEF WaveTypeOK, Outcomes
  <2>3. LeaseInv
    BY <2>1 DEF Init, LeaseInv, OnLease
  <2>4. LockInv
    <3>1. \A d \in Gpus : lock[d] = None
      BY <2>1 DEF Init
    <3>2. \A h \in Hints : pc[h] = "idle" /\ times[h] = None
      BY <2>1 DEF Init
    <3> QED BY <2>1, <3>1, <3>2, WaveAssumption DEF Init, LockInv, Holds, Resting, Hints, Gpus, Unlocked
  <2>5. QueueInv
    BY <2>1 DEF Init, QueueInv
  <2>6. PhaseInv
    BY <2>1, WaveAssumption DEF Init, PhaseInv, Late, Closed
  <2>7. FileInv
    BY <2>1 DEF Init, FileInv, Late
  <2>8. CountInv
    BY <2>1, WaveAssumption DEF Init, CountInv, Counted, Resting, Closed
  <2>9. VerdictInv
    BY <2>1 DEF Init, VerdictInv, VerdictRestsOnKernels, LostOnlyAfterOnceMore
  <2> QED BY <2>2, <2>3, <2>4, <2>5, <2>6, <2>7, <2>8, <2>9 DEF WaveInv
<1>2. WaveInv /\ [Next]_vars => WaveInv'
  BY TypeStep, LeaseStep, LockStep, QueueStep, PhaseStep, FileStep, CountStep, VerdictStep DEF WaveInv
<1> QED BY <1>1, <1>2, PTL DEF Spec

\* Every variable of a wave keeps its type.
THEOREM WaveTypes == Spec => []WaveTypeOK
<1>1. WaveInv => WaveTypeOK
  BY DEF WaveInv
<1> QED BY <1>1, WaveInvariant, PTL

\* Of the runs on a GPU with a lock file one is timed at a time: what is timing
\* there holds the lock file, and the lock file has one holder.
THEOREM TimedAlone == Spec => []OneTimedRunPerGpu
<1>1. WaveInv => OneTimedRunPerGpu
  <2>1. SUFFICES ASSUME WaveInv, NEW d \in Gpus \ Unlocked, NEW x \in OnGpu(d), NEW y \in OnGpu(d)
                 PROVE  x = y
    BY DEF OneTimedRunPerGpu
  <2>2. \A z \in OnGpu(d) : lock[d] = z
    BY <2>1 DEF OnGpu, WaveInv, LockInv, Holds
  <2> QED BY <2>1, <2>2
<1> QED BY <1>1, WaveInvariant, PTL

\* A pair is timed with no other program on its GPU: the lease is kept between its
\* runs, and so is the lock when ModelBlaster makes them.
THEOREM PairAlone == Spec => []PairUndisturbed
<1>1. WaveInv => PairUndisturbed
  <2>1. SUFFICES ASSUME WaveInv, NEW h \in Hints, pc[h] \in {"timing", "run"}
                 PROVE  /\ OnGpu(dev[h]) \ {h, KB} = {}
                        /\ way = "own" /\ dev[h] \notin Unlocked => dev[h] \notin kbOn
    BY DEF PairUndisturbed
  <2>2. dev[h] # None /\ dev[h] \in Gpus
    BY <2>1 DEF WaveInv, WaveTypeOK, LeaseInv, OnLease
  <2>3. \A g \in Hints : dev[g] = dev[h] => g = h
    BY <2>1, <2>2 DEF WaveInv, LeaseInv
  <2>4. ASSUME way = "own", dev[h] \notin Unlocked PROVE lock[dev[h]] = h
    BY <2>1, <2>2, <2>4 DEF WaveInv, LockInv, Holds
  <2>5. h # KB
    BY WaveAssumption DEF Hints
  <2>6. way = "own" /\ dev[h] \notin Unlocked => dev[h] \notin kbOn
    BY <2>1, <2>2, <2>4, <2>5 DEF WaveInv, LockInv
  <2> QED BY <2>3, <2>6 DEF OnGpu
<1> QED BY <1>1, WaveInvariant, PTL

\* A verdict rests on the kernels: nothing infrastructure did to the wave, to a
\* result file or to a re-measurement accepts or rejects a hint.
THEOREM VerdictOnKernels == Spec => []VerdictRestsOnKernels
<1>1. WaveInv => VerdictRestsOnKernels
  BY DEF WaveInv, VerdictInv
<1> QED BY <1>1, WaveInvariant, PTL

\* A re-measurement is given up after the configured attempts and one more.
THEOREM LostAfterOnceMore == Spec => []LostOnlyAfterOnceMore
<1>1. WaveInv => LostOnlyAfterOnceMore
  BY DEF WaveInv, VerdictInv
<1> QED BY <1>1, WaveInvariant, PTL

\* However the wave ends, no lease, lock, task or process is left.
THEOREM LeavesNothing == Spec => []NothingLeftBehind
<1>1. WaveInv => NothingLeftBehind
  <2>1. SUFFICES ASSUME WaveInv, main \in {"returned", "raised"}
                 PROVE  /\ Leased = {} /\ Working = {} /\ queue = <<>> /\ kb # "runs"
                        /\ \A d \in Gpus : lock[d] = None
    BY DEF NothingLeftBehind
  <2>2. queue = <<>> /\ kb # "runs" /\ kbOn = {} /\ \A h \in Hints : pc[h] \in {"idle", "done"}
    BY <2>1 DEF WaveInv, PhaseInv, AllDone, Closed, Late
  <2>3. Leased = {}
    BY <2>1, <2>2 DEF Leased, WaveInv, LeaseInv, OnLease
  <2>4. Working = {}
    BY <2>1, <2>2 DEF Working, WaveInv, WaveTypeOK
  <2>5. ASSUME NEW d \in Gpus PROVE lock[d] = None
    <3>1. lock[d] \in Hints \cup {KB, None}
      BY <2>1 DEF WaveInv, WaveTypeOK
    <3> QED BY <2>1, <2>2, <3>1 DEF WaveInv, LockInv, Holds
  <2> QED BY <2>2, <2>3, <2>4, <2>5
<1> QED BY <1>1, WaveInvariant, PTL

=============================================================================
