---------------------------- MODULE XpurtWalker ----------------------------
(***************************************************************************)
(* The generated multi-worker runner of pipeline/generate_xpurt_main.py:   *)
(* main() finds the workers a dispatch table needs, audits their claims,   *)
(* builds the composite-hart pools and spawns one thread per worker; each  *)
(* worker walks the table, and for every entry it claims waits for the     *)
(* dependencies and the start gate, locks the harts, runs the kernel,      *)
(* unlocks, counts the dispatch and gives its completion semaphore.        *)
(* A step is one semaphore or mutex operation, one atomic increment, one   *)
(* end of the schedule's time or one pass of main() over the table.        *)
(***************************************************************************)
EXTENDS XpurtTable

CONSTANTS
  Tables,       \* the dispatch tables tried
  Kinds,        \* core kinds the binary was generated for (kinds[])
  Nets,         \* networks it was generated for
  OpCount,      \* MODEL_<net>_OP_COUNT
  MaxWorkers,   \* XPURT_MAX_WORKERS
  MaxHarts,     \* XPURT_MAX_HARTS
  MaxWidth,     \* XPURT_MAX_POOL_WIDTH, MODELBLASTER_POOL_MAX_WORKERS
  MaxPools,     \* XPURT_MAX_POOLS
  SemLimit,     \* limit the completion semaphores are initialised with
  OsMayFail,    \* may a mutex, a pool or a thread fail to be created?
  Horizon       \* the latest start in a table: the bound of the clock

ASSUME WalkerAssumption ==
  /\ SemLimit \in Nat \ { 0 } /\ MaxHarts \in Nat
  /\ Horizon \in Nat
  /\ OpCount \in [Nets -> Nat]
  /\ \A t \in Tables : IsTable(t) /\ \A e \in Entries(t) : t[e].start <= Horizon

VARIABLES
  table,        \* the table of this run
  phase, why,   \* where main() is; the reason it gave up
  workers,      \* g_workers[]: the (kind, hart) pairs found in the table
  unbound,      \* those that also claim their kind's unbound entries
  pools,        \* g_entry_pools[]: the hart lists that have a pool
  pc,           \* where each worker is
  at,           \* the entry it is at (i_)
  i,            \* takes, then gives, it has made for that entry
  sem,          \* completion_sems[]
  owner,        \* g_hart_locks[]: the worker that holds each, or NoOne
  now,          \* the cycle counter, in the units of `start`
  completed,    \* completed_dispatches_<net>[instance]
  captured,     \* verify_*_<net>: the instances whose kernels had begun to
                \* write out_<net> when it was compared; {}: not yet
  ended         \* history: entries whose kernel has returned, or had none

vars == << table, phase, why, workers, unbound, pools, pc, at, i, sem, owner,
           now, completed, captured, ended >>

mainVars == << table, phase, why, workers, unbound, pools >>
\* What a worker's step changes least often.
rest == << now, completed, captured >>

Hart0 == 0 .. MaxHarts - 1
NoOne == << >>
Instances == UNION { { t[e].inst : e \in Entries(t) } : t \in Tables }

Least(S)    == CHOOSE x \in S : \A y \in S : x <= y
Greatest(S) == CHOOSE x \in S : \A y \in S : y <= x

Init ==
  /\ table \in Tables
  /\ phase = "discover" /\ why = "none"
  /\ workers = {} /\ unbound = {} /\ pools = {}
  /\ pc = << >> /\ at = << >> /\ i = << >>
  /\ sem = << >>
  /\ owner = [h \in Hart0 |-> NoOne]
  /\ now = 0
  /\ completed = [m \in Nets \X Instances |-> 0]
  /\ captured = [m \in Nets |-> {}]
  /\ ended = {}

(***************************************************************************)
(* main(): which workers, and who claims what                              *)
(***************************************************************************)
BoundHarts(t, k) ==
  { Hart(t, e) : e \in { f \in Entries(t) : t[f].kind = k /\ Hart(t, f) >= 0 } }

HasUnbound(t, k) == \E e \in Entries(t) : t[e].kind = k /\ Hart(t, e) < 0

\* A kind with nothing but unbound entries gets one unpinned worker.
HartsOf(t, k) ==
  IF BoundHarts(t, k) = {} /\ HasUnbound(t, k) THEN { -1 } ELSE BoundHarts(t, k)

WorkersOf(t) == UNION { { k } \X HartsOf(t, k) : k \in Kinds }

UnboundOf(t) ==
  { << k, Least(HartsOf(t, k)) >> : k \in { l \in Kinds : HasUnbound(t, l) } }

\* Does worker v, with the set u of unbound claimants, claim entry e?
Claims(t, u, v, e) ==
  /\ t[e].kind = v[1]
  /\ IF Hart(t, e) >= 0 THEN Hart(t, e) = v[2] ELSE v \in u

Claimed(v) == { e \in Entries(table) : Claims(table, unbound, v, e) }

Fail(reason) ==
  /\ phase' = "fatal" /\ why' = reason

Discover ==
  /\ phase = "discover"
  /\ IF Cardinality(WorkersOf(table)) > MaxWorkers
       THEN Fail("workers") /\ UNCHANGED << workers, unbound >>
       ELSE /\ phase' = "audit"
            /\ workers' = WorkersOf(table)
            /\ unbound' = UnboundOf(table)
            /\ UNCHANGED why
  /\ UNCHANGED << table, pools, pc, at, i, sem, owner, rest, ended >>

Audited == \A e \in Entries(table) : \E v \in workers :
  { u \in workers : Claims(table, unbound, u, e) } = { v }

Audit ==
  /\ phase = "audit"
  /\ IF Audited THEN phase' = "runtime" /\ UNCHANGED why ELSE Fail("claims")
  /\ UNCHANGED << table, workers, unbound, pools, pc, at, i, sem, owner, rest,
                  ended >>

(***************************************************************************)
(* init_entry_runtime()                                                    *)
(***************************************************************************)
Composite(t) == { e \in Entries(t) : Len(t[e].harts) > 1 }

\* The pools the entries up to and including e need.
PoolsUpTo(t, e) == { t[f].harts : f \in { g \in Composite(t) : g <= e } }

\* What the loop returns at entry e, "ok" when it goes on.
EntryFault(t, e) ==
  LET h == t[e].harts
  IN  IF Len(h) < 1 \/ Len(h) > MaxWidth THEN "width"
      ELSE IF \E j \in 1 .. Len(h) : h[j] \notin Hart0 THEN "harts"
      ELSE IF Cardinality(PoolsUpTo(t, e)) > MaxPools THEN "pools"
      ELSE IF Len(h) > 1 /\ ~IsInjective(h) THEN "pool"  \* create: NULL
      ELSE "ok"

Faulty(t) == { e \in Entries(t) : EntryFault(t, e) # "ok" }

InitEntryRuntime ==
  /\ phase = "runtime"
  /\ \/ Faulty(table) = {} /\ phase' = "sems"
        /\ pools' = { table[e].harts : e \in Composite(table) }
        /\ UNCHANGED why
     \/ Faulty(table) # {} /\ Fail(EntryFault(table, Least(Faulty(table))))
        /\ UNCHANGED pools
     \/ OsMayFail /\ Fail("os") /\ UNCHANGED pools
  /\ UNCHANGED << table, workers, unbound, pc, at, i, sem, owner, rest, ended >>

InitSems ==
  /\ phase = "sems"
  /\ phase' = "spawn"
  /\ sem' = [e \in Entries(table) |-> 0]
  /\ pc' = [v \in workers |-> "unborn"]
  /\ at' = [v \in workers |-> 0] /\ i' = [v \in workers |-> 0]
  /\ UNCHANGED << table, why, workers, unbound, pools, owner, rest, ended >>

(***************************************************************************)
(* main() spawns the workers.  A worker walks the table from entry 0:      *)
(* MoveTo takes it to the next entry it claims, out of those in S.         *)
(***************************************************************************)
MoveTo(v, S) ==
  /\ i' = [i EXCEPT ![v] = 0]
  /\ IF S = {}
       THEN pc' = [pc EXCEPT ![v] = "exited"] /\ UNCHANGED at
       ELSE pc' = [pc EXCEPT ![v] = "deps"] /\ at' = [at EXCEPT ![v] = Least(S)]

Spawn(v) ==
  /\ phase = "spawn" /\ v \in workers /\ pc[v] = "unborn"
  /\ \/ MoveTo(v, Claimed(v))
        /\ phase' = (IF \A u \in workers \ { v } : pc[u] # "unborn"
                       THEN "join" ELSE "spawn")
        /\ UNCHANGED why
     \/ OsMayFail /\ Fail("os") /\ UNCHANGED << pc, at, i >>
  /\ UNCHANGED << table, workers, unbound, pools, sem, owner, rest, ended >>

\* A table without entries has no workers.
SpawnNone ==
  /\ phase = "spawn" /\ workers = {}
  /\ phase' = "join"
  /\ UNCHANGED << table, why, workers, unbound, pools, pc, at, i, sem, owner,
                  rest, ended >>

\* Every worker is joined, the pools and the locks are destroyed.
Join ==
  /\ phase = "join"
  /\ \A v \in workers : pc[v] = "exited"
  /\ phase' = "done"
  /\ pools' = {}
  /\ UNCHANGED << table, why, workers, unbound, pc, at, i, sem, owner, rest,
                  ended >>

(***************************************************************************)
(* xpurt_worker: the steps of worker v at entry at[v]                      *)
(***************************************************************************)
Up(v, step) ==
  /\ phase \in { "spawn", "join" } /\ v \in workers /\ pc[v] = step

\* k_sem_take of the next dependency.
TakeDep(v) ==
  LET deps == TakeSeq(table, at[v])
  IN  /\ Up(v, "deps")
      /\ i[v] < Len(deps)
      /\ sem[deps[i[v] + 1]] > 0
      /\ sem' = [sem EXCEPT ![deps[i[v] + 1]] = @ - 1]
      /\ i' = [i EXCEPT ![v] = @ + 1]
      /\ UNCHANGED << mainVars, pc, at, owner, rest, ended >>

HasKernel(e) == table[e].net \in Nets /\ table[e].disp >= 0

\* The start gate, then the dispatch branch: an unknown network and a
\* zero-cost op go straight to giving the semaphore.
PassGate(v) ==
  /\ Up(v, "deps")
  /\ i[v] = Len(TakeSeq(table, at[v]))
  /\ table[at[v]].start <= now
  /\ IF HasKernel(at[v])
       THEN pc' = [pc EXCEPT ![v] = "lock"] /\ UNCHANGED ended
       ELSE pc' = [pc EXCEPT ![v] = "give"] /\ ended' = ended \cup { at[v] }
  /\ i' = [i EXCEPT ![v] = 0]
  /\ UNCHANGED << mainVars, at, sem, owner, rest >>

Held(v) == { h \in Hart0 : owner[h] = v }

\* The mutexes lock_entry_harts takes and unlock_entry_harts releases.
LockSet(t, e) == HartSet(t, e)

\* Without the insertion sort: in the order the table lists them.
NextLock_TableOrder(v) ==
  LET h == table[at[v]].harts
  IN  h[Least({ j \in DOMAIN h : h[j] \notin Held(v) })]

\* The mutexes are taken in ascending order ...
NextLock(v) == Least(LockSet(table, at[v]) \ Held(v))

\* ... and released in descending order.
NextUnlock(v) == Greatest(Held(v))

LockHart(v) ==
  /\ Up(v, "lock")
  /\ ~ LockSet(table, at[v]) \subseteq Held(v)
  /\ owner[NextLock(v)] = NoOne
  /\ owner' = [owner EXCEPT ![NextLock(v)] = v]
  /\ UNCHANGED << mainVars, pc, at, i, sem, rest, ended >>

\* The implementation is looked up and called; an unknown one is fatal.
BeginKernel(v) ==
  /\ Up(v, "lock")
  /\ LockSet(table, at[v]) \subseteq Held(v)
  /\ IF table[at[v]].impl \in Kinds
       THEN pc' = [pc EXCEPT ![v] = "kernel"] /\ UNCHANGED << phase, why >>
       ELSE Fail("impl") /\ UNCHANGED pc
  /\ UNCHANGED << table, workers, unbound, pools, at, i, sem, owner, rest,
                  ended >>

EndKernel(v) ==
  /\ Up(v, "kernel")
  /\ pc' = [pc EXCEPT ![v] = "unlock"]
  /\ ended' = ended \cup { at[v] }
  /\ UNCHANGED << mainVars, at, i, sem, owner, rest >>

UnlockHart(v) ==
  /\ Up(v, "unlock")
  /\ owner' = [owner EXCEPT ![NextUnlock(v)] = NoOne]
  /\ pc' = [pc EXCEPT ![v] = IF Held(v) = { NextUnlock(v) } THEN "count" ELSE @]
  /\ UNCHANGED << mainVars, at, i, sem, rest, ended >>

\* The dispatch with the numerically last id.
IsLast_ByDispatchId(e, n) == table[e].disp = OpCount[table[e].net] - 1

\* The dispatch of its instance that completes the model, and in instance 0:
\* the one after which the output is compared.
IsLast(e, n) == n = OpCount[table[e].net]

\* completed_dispatches_<net>[instance], atomically incremented.
CountDispatch(v) ==
  LET e == at[v]
      m == << table[e].net, table[e].inst >>
  IN  /\ Up(v, "count")
      /\ completed' = [completed EXCEPT ![m] = @ + 1]
      /\ pc' = [pc EXCEPT ![v] =
                  IF IsLast(e, completed'[m]) /\ table[e].inst = 0
                    THEN "capture" ELSE "give"]
      /\ UNCHANGED << mainVars, at, i, sem, owner, now, captured, ended >>

\* Entries whose kernel has begun.
Running == { at[v] : v \in { u \in DOMAIN pc : pc[u] = "kernel" } }
Begun   == ended \cup Running

Capture(v) ==
  LET m == table[at[v]].net
  IN  /\ Up(v, "capture")
      /\ captured' = [captured EXCEPT ![m] =
           { table[e].inst : e \in { f \in Begun : table[f].net = m
                                                  /\ table[f].disp >= 0 } }]
      /\ pc' = [pc EXCEPT ![v] = "give"]
      /\ UNCHANGED << mainVars, at, i, sem, owner, now, completed, ended >>

\* One k_sem_give of the fan-out; a semaphore at its limit drops it.
Give(v) ==
  /\ Up(v, "give")
  /\ i[v] < table[at[v]].fanout
  /\ sem' = [sem EXCEPT ![at[v]] = IF @ < SemLimit THEN @ + 1 ELSE @]
  /\ i' = [i EXCEPT ![v] = @ + 1]
  /\ UNCHANGED << mainVars, pc, at, owner, rest, ended >>

\* Gives once, whatever the fan-out.
NextEntry_OneGive(v) ==
  /\ Up(v, "give")
  /\ i[v] = (IF table[at[v]].fanout = 0 THEN 0 ELSE 1)
  /\ MoveTo(v, { e \in Claimed(v) : e > at[v] })
  /\ UNCHANGED << mainVars, sem, owner, rest, ended >>

NextEntry(v) ==
  /\ Up(v, "give")
  /\ i[v] = table[at[v]].fanout
  /\ MoveTo(v, { e \in Claimed(v) : e > at[v] })
  /\ UNCHANGED << mainVars, sem, owner, rest, ended >>

Tick ==
  /\ phase \in { "spawn", "join" }
  /\ now < Horizon
  /\ now' = now + 1
  /\ UNCHANGED << mainVars, pc, at, i, sem, owner, completed, captured, ended >>

Main == \/ Discover \/ Audit \/ InitEntryRuntime \/ InitSems
        \/ SpawnNone \/ Join
        \/ \E v \in workers : Spawn(v)

Work(v) == \/ TakeDep(v) \/ PassGate(v) \/ LockHart(v) \/ BeginKernel(v)
           \/ EndKernel(v) \/ UnlockHart(v) \/ CountDispatch(v) \/ Capture(v)
           \/ Give(v) \/ NextEntry(v)

Next == Main \/ (\E v \in workers : Work(v)) \/ Tick

Spec == Init /\ [][Next]_vars

(***************************************************************************)
(* main() and the workers are threads of a preemptive scheduler, and the   *)
(* start gate yields: each of them runs on, and time passes.  A worker     *)
(* locks a bounded number of times, so that no mutex can starve another.   *)
(***************************************************************************)
WorkerIds == UNION { WorkersOf(t) : t \in Tables }

Fairness ==
  /\ WF_vars(Main)
  /\ WF_vars(Tick)
  /\ \A v \in WorkerIds : WF_vars(Work(v))

FairSpec == Spec /\ Fairness

-----------------------------------------------------------------------------
Steps == { "unborn", "deps", "lock", "kernel", "unlock", "count", "capture",
           "give", "exited" }

\* Types.  The workers' state exists once main() has initialised it.
TypeOK ==
  /\ table \in Tables
  /\ phase \in { "discover", "audit", "runtime", "sems", "spawn", "join",
                 "done", "fatal" }
  /\ why \in { "none", "workers", "claims", "width", "harts", "pools", "pool",
               "os", "impl" }
  /\ DOMAIN pc \subseteq workers
  /\ pc \in [DOMAIN pc -> Steps]
  /\ at \in [DOMAIN pc -> Nat] /\ i \in [DOMAIN pc -> Nat]
  /\ sem \in [DOMAIN sem -> Nat] /\ DOMAIN sem \subseteq Entries(table)
  /\ owner \in [Hart0 -> workers \cup { NoOne }]
  /\ now \in 0 .. Horizon
  /\ completed \in [Nets \X Instances -> Nat]
  /\ captured \in [Nets -> SUBSET Instances]
  /\ ended \subseteq Entries(table)

\* "Wait for all data deps + the time_dep edge": an entry whose kernel has
\* begun comes after every entry it depends on has ended, whichever workers
\* and anonymous semaphore tokens carried the news.
DependencyOrder == \A e \in Begun : Preds(table, e) \subseteq ended

\* Overlapping blocks serialise: no two kernels run on a common hart, and
\* hence no two masters drive one pool at the same time.
ExclusiveHarts ==
  \A u, v \in DOMAIN pc :
    u # v /\ pc[u] = "kernel" /\ pc[v] = "kernel"
      => /\ HartSet(table, at[u]) \cap HartSet(table, at[v]) = {}
         /\ table[at[u]].harts # table[at[v]].harts

\* A worker holds hart locks only between the start gate and the end of its
\* kernel, and only its entry's: none while it waits for a semaphore, for
\* its start time, or once it has exited.
LocksOnlyAroundKernel ==
  \A h \in Hart0 : owner[h] # NoOne =>
    /\ pc[owner[h]] \in { "lock", "kernel", "unlock" }
    /\ h \in HartSet(table, at[owner[h]])

\* Discovery and the audit scan the table on their own: they disagree only
\* on an entry of a core kind the binary was not built for.
AuditAgreesWithDiscovery ==
  why = "claims" => \E e \in Entries(table) : table[e].kind \notin Kinds

\* "gives once per unique consumer, takes once per unique dep: the counts
\* balance".  At any moment a semaphore holds what was given less what was
\* taken: nothing is lost at its limit, nothing taken twice.
Passed(v, e) == pc[v] = "exited" \/ (pc[v] # "unborn" /\ at[v] > e)

Given(v, e) ==
  IF Passed(v, e) THEN table[e].fanout
  ELSE IF pc[v] = "give" /\ at[v] = e THEN i[v] ELSE 0

Took(v, c, e) ==
  \/ Passed(v, c)
  \/ /\ at[v] = c
     /\ \/ pc[v] \notin { "unborn", "deps" }
        \/ pc[v] = "deps" /\ \E j \in 1 .. i[v] : TakeSeq(table, c)[j] = e

TokensBalance ==
  DOMAIN sem = Entries(table) /\ WellFormed(table, SemLimit) =>
    \A e \in Entries(table), v \in workers :
      e \in Claimed(v) =>
        sem[e] = Given(v, e) - Cardinality({ c \in Consumers(table, e) :
                   \E u \in workers : c \in Claimed(u) /\ Took(u, c, e) })

\* Edges that point backward and mutexes taken in ascending order leave no
\* cycle of waiting: while a worker has not exited, a worker can move or
\* time has still to pass.
Blocked(v) ==
  \/ /\ pc[v] = "deps" /\ i[v] < Len(TakeSeq(table, at[v]))
     /\ sem[TakeSeq(table, at[v])[i[v] + 1]] = 0
  \/ /\ pc[v] = "deps" /\ i[v] = Len(TakeSeq(table, at[v]))
     /\ table[at[v]].start > now
  \/ /\ pc[v] = "lock" /\ ~ LockSet(table, at[v]) \subseteq Held(v)
     /\ owner[NextLock(v)] # NoOne

NeverStuck ==
  phase = "join" /\ WellFormed(table, SemLimit) =>
    \/ \A v \in workers : pc[v] = "exited"
    \/ now < Horizon
    \/ \E v \in workers : pc[v] # "exited" /\ ~Blocked(v)

\* "Numeric verification belongs to the LAST completed dispatch": the output
\* is compared only after every kernel of instance 0 has returned.
KernelsOf(m, n) ==
  { e \in Entries(table) : table[e].net = m /\ table[e].inst = n
                            /\ table[e].disp >= 0 }

CaptureAfterInstance0 ==
  \A m \in Nets : captured[m] # {} /\ Cardinality(KernelsOf(m, 0)) = OpCount[m]
    => KernelsOf(m, 0) \subseteq ended

\* "Capture instance 0 before a stateful model's later invocations advance
\* its state": no kernel of a later instance has begun by then.
CaptureOnlyInstance0 == \A m \in Nets : captured[m] \subseteq { 0 }

\* A run of a well-formed table comes to its end, or is refused.
Terminates ==
  WellFormed(table, SemLimit) => <>(phase \in { "done", "fatal" })

(***************************************************************************)
(* The inductive invariant behind the safety properties.                   *)
(***************************************************************************)
IsUp == phase \in { "spawn", "join", "done" } \/ DOMAIN pc # {}

\* What main() has established by the time it spawns workers.
UpInv ==
  /\ phase \in { "discover", "audit", "runtime", "sems" } =>
       DOMAIN pc = {} /\ DOMAIN sem = {}
  /\ DOMAIN pc = {} => ended = {}
  /\ phase \in { "audit", "runtime", "sems" } \/ IsUp \/ why = "claims"
       => workers = WorkersOf(table) /\ unbound = UnboundOf(table)
  /\ phase # "fatal" => why = "none"
  /\ why = "claims" => ~Audited
  /\ phase \in { "runtime", "sems" } \/ IsUp => Audited
  /\ phase = "sems" \/ IsUp => Faulty(table) = {}
  /\ IsUp => DOMAIN pc = workers /\ DOMAIN sem = Entries(table)
  /\ phase = "join" => \A v \in workers : pc[v] # "unborn"

\* Where each worker is in its walk, and which of its entries have ended.
HasEnded(v, e) ==
  Passed(v, e) \/ (at[v] = e /\ pc[v] \in { "unlock", "count", "capture", "give" })

WalkOf(v) ==
  /\ pc[v] \notin { "unborn", "exited" } => at[v] \in Claimed(v)
  /\ pc[v] \in { "lock", "kernel", "unlock", "count", "capture" } =>
       HasKernel(at[v]) /\ i[v] = 0
  /\ pc[v] = "deps" => i[v] <= Len(TakeSeq(table, at[v]))
  /\ pc[v] = "give" => i[v] <= table[at[v]].fanout
  /\ \A e \in Claimed(v) : e \in ended <=> HasEnded(v, e)

\* A token tells that its producer has ended.
DepsOf(v) ==
  /\ pc[v] = "deps" => \A j \in 1 .. i[v] : TakeSeq(table, at[v])[j] \in ended
  /\ pc[v] \in { "lock", "kernel" } => Preds(table, at[v]) \subseteq ended

TokenInv ==
  /\ \A p \in DOMAIN sem : sem[p] > 0 => p \in ended
  /\ \A e \in ended : Preds(table, e) \subseteq ended

\* Which mutexes a worker holds at each step, and that it takes them in
\* ascending order.
LocksOf(v) ==
  /\ pc[v] = "lock" => \A h \in Held(v) :
                         \A g \in LockSet(table, at[v]) \ Held(v) : h < g
  /\ pc[v] = "kernel" => LockSet(table, at[v]) \subseteq Held(v)
  /\ pc[v] = "unlock" => Held(v) # {}

OwnerInv == \A h \in Hart0 : owner[h] # NoOne =>
  /\ owner[h] \in DOMAIN pc
  /\ pc[owner[h]] \in { "lock", "kernel", "unlock" }
  /\ h \in HartSet(table, at[owner[h]])

WalkerInv ==
  /\ TypeOK /\ UpInv /\ TokenInv /\ OwnerInv
  /\ \A v \in DOMAIN pc : WalkOf(v) /\ DepsOf(v) /\ LocksOf(v)

\* The run is a run of the dependency graph.
Dag == INSTANCE DagExecution
         WITH running <- Running, finished <- ended, over <- phase = "done"

ImplementsDag == Dag!Spec
=============================================================================
