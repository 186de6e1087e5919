------------------------- MODULE XpurtWalkerProofs -------------------------
(***************************************************************************)
(* WalkerInv is inductive, and what follows from it: for every set of      *)
(* tables, any number of workers, harts and instances, dependencies are    *)
(* respected, harts are exclusive, locks are held around kernels only, and *)
(* a run is a run of the dependency graph.  Then what the walker counts:   *)
(* the tokens of its semaphores balance, so that the workers never wait in *)
(* a circle, and the dispatches counted at a capture have all ended.       *)
(***************************************************************************)
EXTENDS XpurtWalker, FiniteSetTheorems, WellFoundedInduction, TLAPS

(***************************************************************************)
(* Least and greatest elements.                                            *)
(***************************************************************************)
\* A non-empty set of naturals has a least element.
LEMMA NatHasLeast ==
  ASSUME NEW S, S \subseteq Nat, S # {}
  PROVE  \E x \in S : \A y \in S : x <= y
<1> DEFINE R == OpToRel(<, Nat)
<1>1. \A x, y \in Nat : (<< x, y >> \in R) <=> x < y
  BY DEF OpToRel
<1>2. IsWellFoundedOn(R, Nat)
  BY NatLessThanWellFounded, Zenon
<1> HIDE DEF R
<1>3. PICK x \in S : \A y \in S : ~ (<< y, x >> \in R)
  BY <1>2, WFMin, Zenon
<1>4. \A y \in S : ~ (y < x) /\ y \in Nat /\ x \in Nat
  BY <1>1, <1>3
<1> QED BY <1>3, <1>4

\* What Least picks, of integers with a lower bound.
LEMMA LeastIs ==
  ASSUME NEW S, S \subseteq Int, S # {}, NEW b \in Int, \A x \in S : b <= x
  PROVE  Least(S) \in S /\ \A y \in S : Least(S) <= y
<1> DEFINE T == { x - b : x \in S }
<1>1. T \subseteq Nat /\ T # {}
  <2>1. PICK s \in S : TRUE
    OBVIOUS
  <2>2. \A x \in S : x - b \in Nat
    OBVIOUS
  <2> QED BY <2>1, <2>2
<1>2. PICK m \in T : \A y \in T : m <= y
  <2> HIDE DEF T
  <2> QED BY <1>1, NatHasLeast
<1>3. PICK x \in S : m = x - b
  BY <1>2
<1>4. \A y \in S : x <= y
  <2> TAKE y \in S
  <2>1. y - b \in T
    OBVIOUS
  <2>2. x \in Int /\ y \in Int
    BY <1>3
  <2>3. m <= y - b
    BY <1>2, <2>1
  <2> HIDE DEF T
  <2> QED BY <1>3, <2>2, <2>3
<1> QED BY <1>4 DEF Least

\* What Greatest picks, of integers with an upper bound.
LEMMA GreatestIs ==
  ASSUME NEW S, S \subseteq Int, S # {}, NEW b \in Int, \A x \in S : x <= b
  PROVE  Greatest(S) \in S /\ \A y \in S : y <= Greatest(S)
<1> DEFINE T == { b - x : x \in S }
<1>1. T \subseteq Nat /\ T # {}
  <2>1. PICK s \in S : TRUE
    OBVIOUS
  <2>2. \A x \in S : b - x \in Nat
    OBVIOUS
  <2> QED BY <2>1, <2>2
<1>2. PICK m \in T : \A y \in T : m <= y
  <2> HIDE DEF T
  <2> QED BY <1>1, NatHasLeast
<1>3. PICK x \in S : m = b - x
  BY <1>2
<1>4. \A y \in S : y <= x
  <2> TAKE y \in S
  <2>1. b - y \in T
    OBVIOUS
  <2>2. x \in Int /\ y \in Int
    BY <1>3
  <2>3. m <= b - y
    BY <1>2, <2>1
  <2> HIDE DEF T
  <2> QED BY <1>3, <2>2, <2>3
<1> QED BY <1>4 DEF Greatest

-----------------------------------------------------------------------------
(***************************************************************************)
(* The table.                                                              *)
(***************************************************************************)
\* An entry takes the semaphore of each entry it waits for, and of no other;
\* each only once if its data dependencies are distinct.
LEMMA TakesAreDependencies ==
  ASSUME NEW t, IsTable(t), NEW e \in Entries(t)
  PROVE  /\ TakeSeq(t, e) \in Seq(Entries(t))
         /\ \A p : p \in Preds(t, e) <=>
                     \E j \in 1 .. Len(TakeSeq(t, e)) : TakeSeq(t, e)[j] = p
         /\ IsInjective(t[e].deps) =>
              \A j, k \in 1 .. Len(TakeSeq(t, e)) :
                TakeSeq(t, e)[j] = TakeSeq(t, e)[k] => j = k
<1> DEFINE d == t[e].deps
           n == Len(d)
<1>1. /\ d \in Seq(Entries(t)) /\ n \in Nat /\ DOMAIN d = 1 .. n
      /\ t[e].tdep \in Entries(t) \cup { -1 } /\ Entries(t) \subseteq Nat
      /\ \A j \in 1 .. n : d[j] \in Entries(t)
  BY DEF IsTable
<1>2. \A p : p \in Range(d) <=> \E j \in 1 .. n : d[j] = p
  BY <1>1 DEF Range
<1>3. IsInjective(d) => \A j, k \in 1 .. n : d[j] = d[k] => j = k
  BY <1>1 DEF IsInjective
<1> HIDE DEF d, n
<1>4. CASE t[e].tdep >= 0 /\ t[e].tdep \notin Range(d)
  <2> DEFINE s == Append(d, t[e].tdep)
  <2>1. TakeSeq(t, e) = s
    BY <1>4 DEF TakeSeq, d
  <2>2. t[e].tdep \in Entries(t)
    BY <1>1, <1>4
  <2>3. /\ s \in Seq(Entries(t)) /\ Len(s) = n + 1
        /\ \A j \in 1 .. n : s[j] = d[j]
        /\ s[n + 1] = t[e].tdep
    BY <1>1, <2>2 DEF n
  <2> HIDE DEF s
  <2>4. \A p : p \in Preds(t, e) <=> p \in Range(d) \/ p = t[e].tdep
    BY <1>1, <2>2 DEF Preds, d
  <2>5. \A p : p \in Preds(t, e) <=> \E j \in 1 .. n + 1 : s[j] = p
    BY <1>1, <1>2, <2>3, <2>4
  <2>6. IsInjective(d) => \A j, k \in 1 .. n + 1 : s[j] = s[k] => j = k
    BY <1>1, <1>2, <1>3, <1>4, <2>3
  <2> QED BY <2>1, <2>3, <2>5, <2>6 DEF d
<1>5. CASE ~ (t[e].tdep >= 0 /\ t[e].tdep \notin Range(d))
  <2>1. TakeSeq(t, e) = d
    BY <1>5 DEF TakeSeq, d
  <2>2. \A p : p \in Preds(t, e) <=> p \in Range(d)
    BY <1>1, <1>5 DEF Preds, d
  <2> QED BY <1>1, <1>2, <1>3, <2>1, <2>2 DEF n, d
<1> QED BY <1>4, <1>5

-----------------------------------------------------------------------------
(***************************************************************************)
(* Facts about a run that is up.                                           *)
(***************************************************************************)
\* A worker is a pair, and so never the absent owner of a free mutex.
LEMMA WorkersArePairs ==
  ASSUME NEW t, NEW v \in WorkersOf(t)
  PROVE  v # NoOne
<1>1. PICK k \in Kinds : v \in { k } \X HartsOf(t, k)
  BY DEF WorkersOf
<1>2. PICK h \in HartsOf(t, k) : v = << k, h >>
  BY <1>1
<1> QED BY <1>2 DEF NoOne

\* What every worker finds: its own state, a table that main() has accepted,
\* and no other worker on the entries it claims.
LEMMA UpFacts ==
  ASSUME WalkerInv, IsUp
  PROVE  /\ table \in Tables /\ IsTable(table)
         /\ pc \in [workers -> Steps] /\ at \in [workers -> Nat]
         /\ i \in [workers -> Nat] /\ sem \in [Entries(table) -> Nat]
         /\ owner \in [Hart0 -> workers \cup { NoOne }]
         /\ \A v \in workers : v # NoOne
         /\ \A v \in workers : Claimed(v) \subseteq Entries(table)
         /\ \A e \in Entries(table) : \E v \in workers : e \in Claimed(v)
         /\ \A u, v \in workers : \A e \in Claimed(v) : e \in Claimed(u) => u = v
         /\ \A e \in Entries(table) :
              HartSet(table, e) \subseteq Hart0 /\ HartSet(table, e) # {}
<1>0. TypeOK /\ UpInv
  BY DEF WalkerInv
<1>1. table \in Tables /\ IsTable(table)
  BY <1>0, WalkerAssumption DEF TypeOK
<1>2. DOMAIN pc = workers /\ DOMAIN sem = Entries(table)
  BY <1>0 DEF UpInv
<1>3. /\ pc \in [workers -> Steps] /\ at \in [workers -> Nat]
      /\ i \in [workers -> Nat] /\ sem \in [Entries(table) -> Nat]
      /\ owner \in [Hart0 -> workers \cup { NoOne }]
  BY <1>0, <1>2 DEF TypeOK
<1>4. \A v \in workers : v # NoOne
  BY <1>0, WorkersArePairs DEF UpInv
<1>5. \A v : Claimed(v) \subseteq Entries(table)
  BY DEF Claimed
<1>6. Audited
  BY <1>0 DEF UpInv
<1>7. \A e \in Entries(table) : \E v \in workers : e \in Claimed(v)
  BY <1>6 DEF Audited, Claimed
<1>8. \A u, v \in workers : \A e \in Claimed(v) : e \in Claimed(u) => u = v
  BY <1>6 DEF Audited, Claimed
<1>9. ASSUME NEW e \in Entries(table)
      PROVE  HartSet(table, e) \subseteq Hart0 /\ HartSet(table, e) # {}
  <2> DEFINE h == table[e].harts
  <2>1. h \in Seq(Int) /\ h # << >>
    BY <1>1 DEF IsTable
  <2>2. DOMAIN h = 1 .. Len(h) /\ Len(h) \in Nat /\ Len(h) >= 1
    BY <2>1
  <2>3. EntryFault(table, e) = "ok"
    BY <1>0 DEF UpInv, Faulty
  <2>4. \A j \in 1 .. Len(h) : h[j] \in Hart0
    BY <2>3 DEF EntryFault
  <2>5. HartSet(table, e) = { h[j] : j \in DOMAIN h }
    BY DEF HartSet, Range
  <2> HIDE DEF h
  <2>6. HartSet(table, e) \subseteq Hart0
    BY <2>2, <2>4, <2>5
  <2>7. h[1] \in HartSet(table, e)
    BY <2>2, <2>5
  <2> QED BY <2>6, <2>7
<1> QED BY <1>1, <1>3, <1>4, <1>5, <1>7, <1>8, <1>9

\* Who claims what depends on the table and on main()'s discovery only.
LEMMA ClaimsStay ==
  ASSUME UNCHANGED << table, workers, unbound >>
  PROVE  /\ \A v : Claimed(v)' = Claimed(v)
         /\ Audited' <=> Audited
  BY DEF Claimed, Audited

\* Who holds what depends on the owners only.
LEMMA HeldStays ==
  ASSUME owner' = owner
  PROVE  \A v : Held(v)' = Held(v)
  BY DEF Held

-----------------------------------------------------------------------------
(***************************************************************************)
(* WalkerInv is inductive: main() before the workers start.                *)
(***************************************************************************)
\* Nothing is up in an initial state.
LEMMA WalkerInvInit == Init => WalkerInv
<1> SUFFICES ASSUME Init PROVE WalkerInv
  OBVIOUS
<1>1. DOMAIN pc = {} /\ DOMAIN at = {} /\ DOMAIN i = {} /\ DOMAIN sem = {} /\ ended = {}
  BY DEF Init
<1>2. \A h \in Hart0 : owner[h] = NoOne
  BY DEF Init
<1>3. TypeOK
  <2>1. /\ pc \in [DOMAIN pc -> Steps] /\ at \in [DOMAIN pc -> Nat]
        /\ i \in [DOMAIN pc -> Nat] /\ sem \in [DOMAIN sem -> Nat]
    BY <1>1 DEF Init
  <2>2. /\ owner \in [Hart0 -> workers \cup { NoOne }] /\ now \in 0 .. Horizon
        /\ completed \in [Nets \X Instances -> Nat]
        /\ captured \in [Nets -> SUBSET Instances]
    BY WalkerAssumption DEF Init
  <2>3. /\ table \in Tables /\ phase = "discover" /\ why = "none"
    BY DEF Init
  <2> QED BY <1>1, <2>1, <2>2, <2>3 DEF TypeOK
<1>4. UpInv
  BY <1>1 DEF Init, UpInv, IsUp
<1> QED BY <1>1, <1>2, <1>3, <1>4 DEF WalkerInv, TokenInv, OwnerInv

\* main() scans the table, audits the claims and prepares the entries.
LEMMA MainKeeps ==
  ASSUME WalkerInv, Discover \/ Audit \/ InitEntryRuntime
  PROVE  WalkerInv'
<1>0. /\ TypeOK /\ UpInv /\ TokenInv /\ OwnerInv
      /\ phase \in { "discover", "audit", "runtime" }
  BY DEF WalkerInv, Discover, Audit, InitEntryRuntime
<1>1. DOMAIN pc = {} /\ DOMAIN sem = {} /\ ended = {}
  BY <1>0 DEF UpInv
<1>2. \A h \in Hart0 : owner[h] = NoOne
  BY <1>0, <1>1 DEF OwnerInv
<1>3. UNCHANGED << table, pc, at, i, sem, owner, now, completed, captured, ended >>
  BY DEF Discover, Audit, InitEntryRuntime, rest
<1>4. phase' \in { "audit", "runtime", "sems", "fatal" }
  BY DEF Discover, Audit, InitEntryRuntime, Fail
<1>8. ASSUME InitEntryRuntime
      PROVE  why' \in { why, "width", "harts", "pools", "pool", "os" }
  <2>1. ASSUME Faulty(table) # {}
        PROVE  EntryFault(table, Least(Faulty(table))) \in
                 { "width", "harts", "pools", "pool" }
    <3>1. Faulty(table) \subseteq Nat
      BY <1>0, WalkerAssumption DEF Faulty, TypeOK, IsTable
    <3>2. Least(Faulty(table)) \in Faulty(table)
      BY <2>1, <3>1, LeastIs
    <3>3. EntryFault(table, Least(Faulty(table))) # "ok"
      BY <3>2 DEF Faulty
    <3> QED BY <3>3 DEF EntryFault
  <2> QED BY <1>8, <2>1 DEF InitEntryRuntime, Fail
<1>5. TypeOK'
  <2>1. owner' \in [Hart0 -> workers' \cup { NoOne }]
    BY <1>0, <1>2, <1>3 DEF TypeOK
  <2>2. why' \in { "none", "workers", "claims", "width", "harts", "pools", "pool",
                   "os", "impl" }
    BY <1>0, <1>8 DEF TypeOK, Discover, Audit, Fail
  <2> QED BY <1>0, <1>1, <1>3, <1>4, <2>1, <2>2 DEF TypeOK
<1>6. UpInv'
  <2>1. DOMAIN pc' = {} /\ DOMAIN sem' = {} /\ ended' = {} /\ table' = table
    BY <1>1, <1>3
  <2>2. CASE Discover
    BY <1>0, <2>1, <2>2 DEF UpInv, IsUp, Discover, Fail, TypeOK
  <2>3. CASE Audit
    <3>1. UNCHANGED << table, workers, unbound >>
      BY <2>3 DEF Audit
    <3>2. Audited' <=> Audited
      BY <3>1, ClaimsStay
    <3> QED BY <1>0, <2>1, <2>3, <3>1, <3>2 DEF UpInv, IsUp, Audit, Fail, TypeOK
  <2>4. CASE InitEntryRuntime
    <3>1. UNCHANGED << table, workers, unbound >>
      BY <2>4 DEF InitEntryRuntime
    <3>2. Audited' <=> Audited
      BY <3>1, ClaimsStay
    <3>3. why' = "claims" => phase' = "fatal" /\ why = "claims"
      BY <1>0, <1>8, <2>4 DEF InitEntryRuntime, Fail, UpInv
    <3>4. workers = WorkersOf(table) /\ unbound = UnboundOf(table) /\ Audited
      BY <1>0, <2>4 DEF UpInv, InitEntryRuntime
    <3>5. phase' = "sems" => Faulty(table) = {} /\ why' = "none"
      BY <1>0, <2>4 DEF InitEntryRuntime, UpInv, Fail
    <3>6. phase' \in { "sems", "fatal" } /\ Faulty(table') = Faulty(table)
      BY <2>1, <2>4 DEF InitEntryRuntime, Fail
    <3>7. why # "claims"
      BY <1>0, <2>4 DEF UpInv, InitEntryRuntime
    <3> QED BY <2>1, <3>1, <3>2, <3>3, <3>4, <3>5, <3>6, <3>7 DEF UpInv, IsUp
  <2> QED BY <2>2, <2>3, <2>4
<1>7. TokenInv' /\ OwnerInv'
  BY <1>0, <1>1, <1>2, <1>3 DEF TokenInv, OwnerInv
<1> QED BY <1>1, <1>3, <1>5, <1>6, <1>7 DEF WalkerInv

\* The semaphores are initialised, and the workers' records with them.
LEMMA InitSemsKeeps ==
  ASSUME WalkerInv, InitSems
  PROVE  WalkerInv'
<1>0. TypeOK /\ UpInv /\ TokenInv /\ OwnerInv /\ phase = "sems"
  BY DEF WalkerInv, InitSems
<1>1. DOMAIN pc = {} /\ ended = {}
  BY <1>0 DEF UpInv
<1>2. \A h \in Hart0 : owner[h] = NoOne
  BY <1>0, <1>1 DEF OwnerInv
<1>3. /\ UNCHANGED << table, why, workers, unbound, owner, now, completed, captured, ended >>
      /\ phase' = "spawn" /\ sem' = [e \in Entries(table) |-> 0]
      /\ pc' = [v \in workers |-> "unborn"]
      /\ at' = [v \in workers |-> 0] /\ i' = [v \in workers |-> 0]
  BY DEF InitSems, rest
<1>4. DOMAIN pc' = workers /\ DOMAIN sem' = Entries(table)
  BY <1>3
<1>5. TypeOK'
  <2>1. /\ pc' \in [DOMAIN pc' -> Steps] /\ at' \in [DOMAIN pc' -> Nat]
        /\ i' \in [DOMAIN pc' -> Nat] /\ sem' \in [DOMAIN sem' -> Nat]
    BY <1>3 DEF Steps
  <2>2. phase' = "spawn" /\ table' = table /\ why' = why /\ workers' = workers
    BY <1>3
  <2>3. /\ owner' \in [Hart0 -> workers' \cup { NoOne }] /\ now' \in 0 .. Horizon
        /\ completed' \in [Nets \X Instances -> Nat]
        /\ captured' \in [Nets -> SUBSET Instances]
        /\ ended' \subseteq Entries(table') /\ table' \in Tables
    BY <1>0, <1>3 DEF TypeOK
  <2> QED BY <1>0, <1>4, <2>1, <2>2, <2>3 DEF TypeOK
<1>6. UpInv'
  <2>1. Audited' <=> Audited
    BY <1>3, ClaimsStay
  <2>2. Audited /\ Faulty(table) = {} /\ why = "none"
    BY <1>0 DEF UpInv
  <2>3. workers = WorkersOf(table) /\ unbound = UnboundOf(table)
    BY <1>0 DEF UpInv
  <2> QED BY <1>1, <1>3, <1>4, <2>1, <2>2, <2>3 DEF UpInv, IsUp
<1>7. TokenInv' /\ OwnerInv'
  BY <1>0, <1>1, <1>2, <1>3 DEF TokenInv, OwnerInv
<1>8. ASSUME NEW v \in workers PROVE (WalkOf(v) /\ DepsOf(v) /\ LocksOf(v))'
  <2>1. pc'[v] = "unborn" /\ ended' = {}
    BY <1>1, <1>3
  <2>2. \A e : ~ HasEnded(v, e)'
    BY <2>1 DEF HasEnded, Passed
  <2> QED BY <2>1, <2>2 DEF WalkOf, DepsOf, LocksOf
<1> QED BY <1>4, <1>5, <1>6, <1>7, <1>8 DEF WalkerInv

\* Time passes, main() joins or has nobody to spawn, or nothing happens: no
\* worker's state changes.
LEMMA OutsideKeeps ==
  ASSUME WalkerInv, SpawnNone \/ Join \/ Tick \/ UNCHANGED vars
  PROVE  WalkerInv'
<1>0. TypeOK /\ UpInv /\ TokenInv /\ OwnerInv
  BY DEF WalkerInv
<1>1. /\ UNCHANGED << table, why, workers, unbound, pc, at, i, sem, owner, completed,
                      captured, ended >>
  BY DEF SpawnNone, Join, Tick, vars, mainVars, rest
<1>2. /\ now' \in 0 .. Horizon
      /\ \/ phase' = phase
         \/ phase = "spawn" /\ phase' = "join" /\ workers = {}
         \/ phase = "join" /\ phase' = "done"
  BY <1>0, WalkerAssumption DEF SpawnNone, Join, Tick, vars, mainVars, rest, TypeOK
<1>3. TypeOK'
  BY <1>0, <1>1, <1>2 DEF TypeOK
<1>4. UpInv'
  <2>1. Audited' <=> Audited
    BY <1>1, ClaimsStay
  <2> QED BY <1>0, <1>1, <1>2, <2>1 DEF UpInv, IsUp
<1>5. TokenInv' /\ OwnerInv'
  BY <1>0, <1>1 DEF TokenInv, OwnerInv
<1>6. ASSUME NEW v \in DOMAIN pc PROVE (WalkOf(v) /\ DepsOf(v) /\ LocksOf(v))'
  <2>1. WalkOf(v) /\ DepsOf(v) /\ LocksOf(v)
    BY DEF WalkerInv
  <2>2. Claimed(v)' = Claimed(v) /\ Held(v)' = Held(v)
    BY <1>1, ClaimsStay, HeldStays
  <2>3. \A e : HasEnded(v, e)' <=> HasEnded(v, e)
    BY <1>1 DEF HasEnded, Passed
  <2>4. \A e : HasKernel(e)' <=> HasKernel(e)
    BY <1>1 DEF HasKernel
  <2>5. WalkOf(v)'
    BY <1>1, <2>1, <2>2, <2>3, <2>4 DEF WalkOf
  <2> QED BY <1>1, <2>1, <2>2, <2>5 DEF DepsOf, LocksOf
<1> QED BY <1>1, <1>3, <1>4, <1>5, <1>6 DEF WalkerInv

-----------------------------------------------------------------------------
(***************************************************************************)
(* WalkerInv is inductive: the steps of a worker.                          *)
(***************************************************************************)
\* A worker's step leaves what main() has established.
LEMMA UpStays ==
  ASSUME WalkerInv, NEW v \in workers, phase \in { "spawn", "join" },
         UNCHANGED << table, workers, unbound >>,
         \/ phase' \in { "spawn", "join" } /\ why' = why
         \/ phase' = "fatal" /\ why' \in { "os", "impl" },
         DOMAIN pc' = DOMAIN pc, DOMAIN sem' = DOMAIN sem,
         phase' = "join" => \A u \in workers : pc'[u] # "unborn"
  PROVE  UpInv'
<1>1. UpInv /\ IsUp
  BY DEF WalkerInv, IsUp
<1>2. Audited' <=> Audited
  BY ClaimsStay
<1>3. DOMAIN pc = workers /\ DOMAIN pc # {} /\ why = "none"
  BY <1>1 DEF UpInv
<1> QED BY <1>1, <1>2, <1>3 DEF UpInv, IsUp

\* It leaves the other workers where they are, with the locks they hold.
LEMMA OthersKeep ==
  ASSUME WalkerInv, IsUp, NEW v \in workers, NEW u \in workers \ { v },
         UNCHANGED << table, workers, unbound >>,
         pc'[u] = pc[u], at'[u] = at[u], i'[u] = i[u], Held(u)' = Held(u),
         \/ ended' = ended
         \/ ended' = ended \cup { at[v] } /\ at[v] \in Claimed(v)
  PROVE  (WalkOf(u) /\ DepsOf(u) /\ LocksOf(u))'
<1>0. WalkOf(u) /\ DepsOf(u) /\ LocksOf(u)
  BY UpFacts DEF WalkerInv
<1>1. (Claimed(u)' = Claimed(u) /\ at[v] \notin Claimed(u)) \/ ended' = ended
  BY ClaimsStay, UpFacts
<1>2. Claimed(u)' = Claimed(u) /\ ended \subseteq ended'
  BY ClaimsStay
<1>3. \A e : HasEnded(u, e)' <=> HasEnded(u, e)
  BY DEF HasEnded, Passed
<1>4. \A e \in Claimed(u) : e \in ended' <=> e \in ended
  BY <1>1
<1>5. \A e : HasKernel(e)' <=> HasKernel(e)
  BY DEF HasKernel
<1>6. WalkOf(u)'
  BY <1>0, <1>2, <1>3, <1>4, <1>5 DEF WalkOf
<1> QED BY <1>0, <1>2, <1>6 DEF DepsOf, LocksOf

\* What is left to show of a step of worker v.
LEMMA WorkerStep ==
  ASSUME WalkerInv, NEW v \in workers, phase \in { "spawn", "join" },
         UNCHANGED << table, workers, unbound, now >>,
         \/ phase' \in { "spawn", "join" } /\ why' = why
         \/ phase' = "fatal" /\ why' \in { "os", "impl" },
         phase' = "join" => \A u \in workers : pc'[u] # "unborn",
         pc' \in [workers -> Steps], at' \in [workers -> Nat],
         i' \in [workers -> Nat], sem' \in [Entries(table) -> Nat],
         owner' \in [Hart0 -> workers \cup { NoOne }],
         completed' \in [Nets \X Instances -> Nat],
         captured' \in [Nets -> SUBSET Instances],
         \/ ended' = ended
         \/ ended' = ended \cup { at[v] } /\ at[v] \in Claimed(v),
         \A u \in workers \ { v } :
           pc'[u] = pc[u] /\ at'[u] = at[u] /\ i'[u] = i[u] /\ Held(u)' = Held(u),
         (WalkOf(v) /\ DepsOf(v) /\ LocksOf(v))',
         TokenInv', OwnerInv'
  PROVE  WalkerInv'
<1>0. IsUp /\ TypeOK
  BY DEF IsUp, WalkerInv
<1>1. /\ DOMAIN pc' = workers /\ DOMAIN at' = workers /\ DOMAIN i' = workers
      /\ DOMAIN sem' = Entries(table) /\ DOMAIN pc = workers
      /\ DOMAIN sem = Entries(table)
  BY <1>0, UpFacts
<1>2. ended' \subseteq Entries(table)
  BY <1>0 DEF TypeOK, Claimed
<1>3. TypeOK'
  BY <1>0, <1>1, <1>2 DEF TypeOK
<1>4. UpInv'
  BY <1>1, UpStays
<1>5. \A u \in workers : (WalkOf(u) /\ DepsOf(u) /\ LocksOf(u))'
  BY <1>0, OthersKeep
<1> QED BY <1>1, <1>3, <1>4, <1>5 DEF WalkerInv

\* Where a worker goes next.
LEMMA Moved ==
  ASSUME WalkerInv, IsUp, NEW v \in workers,
         NEW S, S \subseteq Claimed(v), MoveTo(v, S)
  PROVE  /\ pc' \in [workers -> Steps] /\ at' \in [workers -> Nat]
         /\ i' \in [workers -> Nat] /\ i'[v] = 0
         /\ \A u \in workers \ { v } : pc'[u] = pc[u] /\ at'[u] = at[u] /\ i'[u] = i[u]
         /\ \/ S = {} /\ pc'[v] = "exited" /\ at' = at
            \/ pc'[v] = "deps" /\ at'[v] \in S /\ \A e \in S : at'[v] <= e
<1>0. /\ pc \in [workers -> Steps] /\ at \in [workers -> Nat] /\ i \in [workers -> Nat]
      /\ IsTable(table) /\ Claimed(v) \subseteq Entries(table)
  BY UpFacts
<1>1. i' \in [workers -> Nat] /\ i'[v] = 0 /\ \A u \in workers \ { v } : i'[u] = i[u]
  BY <1>0 DEF MoveTo
<1>2. CASE S = {}
  <2>1. pc' = [pc EXCEPT ![v] = "exited"] /\ at' = at
    BY <1>2 DEF MoveTo
  <2> QED BY <1>0, <1>1, <1>2, <2>1 DEF Steps
<1>3. CASE S # {}
  <2>1. pc' = [pc EXCEPT ![v] = "deps"] /\ at' = [at EXCEPT ![v] = Least(S)]
    BY <1>3 DEF MoveTo
  <2>2. S \subseteq Nat
    BY <1>0 DEF IsTable
  <2>3. Least(S) \in S /\ \A e \in S : Least(S) <= e
    BY <1>3, <2>2, NatHasLeast DEF Least
  <2> QED BY <1>0, <1>1, <2>1, <2>2, <2>3 DEF Steps
<1> QED BY <1>2, <1>3

\* A worker that is spawned, or that goes on, waits for the dependencies of
\* the next entry it claims, and holds no lock.
LEMMA MoveKeeps ==
  ASSUME WalkerInv, IsUp, NEW v \in workers, pc[v] \in { "unborn", "give" },
         UNCHANGED << table, workers, unbound, owner, sem, ended >>,
         MoveTo(v, IF pc[v] = "give" THEN { e \in Claimed(v) : e > at[v] }
                                     ELSE Claimed(v))
  PROVE  /\ (WalkOf(v) /\ DepsOf(v) /\ LocksOf(v))'
         /\ TokenInv' /\ OwnerInv'
<1> DEFINE S == IF pc[v] = "give" THEN { e \in Claimed(v) : e > at[v] } ELSE Claimed(v)
<1>0. /\ WalkOf(v) /\ TokenInv /\ OwnerInv
      /\ pc \in [workers -> Steps] /\ at \in [workers -> Nat] /\ v # NoOne
      /\ IsTable(table) /\ Claimed(v) \subseteq Entries(table)
  BY UpFacts DEF WalkerInv
<1>1. /\ pc' \in [workers -> Steps] /\ at' \in [workers -> Nat]
      /\ i'[v] = 0
      /\ \A u \in workers \ { v } : pc'[u] = pc[u] /\ at'[u] = at[u] /\ i'[u] = i[u]
      /\ \/ S = {} /\ pc'[v] = "exited" /\ at' = at
         \/ pc'[v] = "deps" /\ at'[v] \in S /\ \A e \in S : at'[v] <= e
  <2>1. S \subseteq Claimed(v) /\ MoveTo(v, S)
    OBVIOUS
  <2> HIDE DEF S
  <2> QED BY <2>1, Moved
<1>2. \A e \in Claimed(v) : e \in Nat
  BY <1>0 DEF IsTable
<1>3. \A e \in Claimed(v) : HasEnded(v, e)' <=> HasEnded(v, e)
  BY <1>0, <1>1, <1>2 DEF HasEnded, Passed
<1>4. Claimed(v)' = Claimed(v)
  BY ClaimsStay
<1>5. WalkOf(v)'
  <2>1. pc'[v] = "deps" => 0 <= Len(TakeSeq(table, at'[v]))
    BY <1>0, <1>1, TakesAreDependencies
  <2>2. \A e \in Claimed(v) : e \in ended' <=> HasEnded(v, e)'
    BY <1>0, <1>3 DEF WalkOf
  <2> QED BY <1>1, <1>4, <2>1, <2>2 DEF WalkOf
<1>6. DepsOf(v)' /\ LocksOf(v)'
  BY <1>1 DEF DepsOf, LocksOf
<1>7. TokenInv'
  BY <1>0 DEF TokenInv
<1>8. OwnerInv'
  <2>1. \A h \in Hart0 : owner[h] # v
    BY <1>0 DEF OwnerInv
  <2>2. DOMAIN pc = workers /\ DOMAIN pc' = workers
    BY <1>0, <1>1
  <2> QED BY <1>0, <1>1, <2>1, <2>2 DEF OwnerInv
<1> QED BY <1>5, <1>6, <1>7, <1>8

\* main() spawns a worker.
LEMMA SpawnKeeps ==
  ASSUME WalkerInv, NEW v \in workers, Spawn(v)
  PROVE  WalkerInv'
<1>0. /\ TypeOK /\ IsUp /\ phase = "spawn" /\ pc[v] = "unborn"
      /\ pc \in [workers -> Steps] /\ at \in [workers -> Nat]
      /\ i \in [workers -> Nat] /\ sem \in [Entries(table) -> Nat]
      /\ owner \in [Hart0 -> workers \cup { NoOne }]
      /\ WalkOf(v) /\ DepsOf(v) /\ LocksOf(v) /\ TokenInv /\ OwnerInv
  BY UpFacts DEF WalkerInv, IsUp, Spawn
<1>1. UNCHANGED << table, workers, unbound, sem, owner, now, completed, captured, ended >>
  BY DEF Spawn, rest
<1>2. \A u : Held(u)' = Held(u)
  BY <1>1, HeldStays
<1>3. /\ completed' \in [Nets \X Instances -> Nat]
      /\ captured' \in [Nets -> SUBSET Instances]
  BY <1>0, <1>1 DEF TypeOK
<1>4. CASE MoveTo(v, Claimed(v)) /\ why' = why
           /\ phase' = IF \A u \in workers \ { v } : pc[u] # "unborn"
                         THEN "join" ELSE "spawn"
  <2>1. /\ pc' \in [workers -> Steps] /\ at' \in [workers -> Nat]
        /\ i' \in [workers -> Nat]
        /\ \A u \in workers \ { v } : pc'[u] = pc[u] /\ at'[u] = at[u] /\ i'[u] = i[u]
        /\ pc'[v] \in { "exited", "deps" }
    BY <1>0, <1>4, Moved
  <2>2. (WalkOf(v) /\ DepsOf(v) /\ LocksOf(v))' /\ TokenInv' /\ OwnerInv'
    BY <1>0, <1>1, <1>4, MoveKeeps
  <2>3. phase' \in { "spawn", "join" }
        /\ (phase' = "join" => \A u \in workers : pc'[u] # "unborn")
    BY <1>4, <2>1
  <2> QED BY <1>0, <1>1, <1>2, <1>3, <1>4, <2>1, <2>2, <2>3, WorkerStep
<1>5. CASE Fail("os") /\ UNCHANGED << pc, at, i >>
  <2>1. phase' = "fatal" /\ why' = "os" /\ pc' = pc /\ at' = at /\ i' = i
    BY <1>5 DEF Fail
  <2>2. Claimed(v)' = Claimed(v)
    BY <1>1, ClaimsStay
  <2>3. (WalkOf(v) /\ DepsOf(v) /\ LocksOf(v))' /\ TokenInv' /\ OwnerInv'
    BY <1>0, <1>1, <1>2, <2>1, <2>2
       DEF WalkOf, DepsOf, LocksOf, TokenInv, OwnerInv, HasEnded, Passed, HasKernel
  <2> QED BY <1>0, <1>1, <1>2, <1>3, <2>1, <2>3, WorkerStep
<1> QED BY <1>4, <1>5 DEF Spawn

\* A token is taken: its producer has ended.
LEMMA TakeDepKeeps ==
  ASSUME WalkerInv, NEW v \in workers, TakeDep(v)
  PROVE  WalkerInv'
<1> DEFINE deps == TakeSeq(table, at[v])
           p == deps[i[v] + 1]
<1>0. /\ TypeOK /\ IsUp /\ phase \in { "spawn", "join" } /\ pc[v] = "deps"
      /\ UpInv /\ IsTable(table) /\ Claimed(v) \subseteq Entries(table)
      /\ pc \in [workers -> Steps] /\ at \in [workers -> Nat]
      /\ i \in [workers -> Nat] /\ sem \in [Entries(table) -> Nat]
      /\ owner \in [Hart0 -> workers \cup { NoOne }]
      /\ WalkOf(v) /\ DepsOf(v) /\ LocksOf(v) /\ TokenInv /\ OwnerInv
  BY UpFacts DEF WalkerInv, IsUp, TakeDep, Up
<1>1. /\ UNCHANGED << table, workers, unbound, phase, why, pc, at, owner, now, completed,
                      captured, ended >>
      /\ i' = [i EXCEPT ![v] = @ + 1] /\ sem' = [sem EXCEPT ![p] = @ - 1]
      /\ i[v] < Len(deps) /\ sem[p] > 0
  BY DEF TakeDep, mainVars, rest
<1>2. /\ at[v] \in Entries(table) /\ deps \in Seq(Entries(table)) /\ p \in Entries(table)
      /\ Len(deps) \in Nat
  <2>1. at[v] \in Entries(table)
    BY <1>0 DEF WalkOf
  <2>2. deps \in Seq(Entries(table))
    BY <1>0, <2>1, TakesAreDependencies
  <2> HIDE DEF deps
  <2> QED BY <1>0, <1>1, <2>1, <2>2
<1>3. p \in ended
  BY <1>0, <1>1, <1>2 DEF TokenInv
<1> HIDE DEF p
<1>4. /\ i' \in [workers -> Nat] /\ i'[v] = i[v] + 1
      /\ \A u \in workers \ { v } : i'[u] = i[u]
      /\ sem' \in [Entries(table) -> Nat]
      /\ \A q \in Entries(table) : sem'[q] > 0 => sem[q] > 0
  BY <1>0, <1>1, <1>2
<1>5. Claimed(v)' = Claimed(v) /\ \A u : Held(u)' = Held(u)
  BY <1>1, ClaimsStay, HeldStays
<1>6. WalkOf(v)'
  <2>1. i'[v] <= Len(deps)
    BY <1>0, <1>1, <1>2, <1>4
  <2> QED BY <1>0, <1>1, <1>5, <2>1 DEF WalkOf, HasEnded, Passed
<1>7. DepsOf(v)'
  <2>1. \A j \in 1 .. i[v] + 1 : deps[j] \in ended
    BY <1>0, <1>3 DEF DepsOf, p
  <2> QED BY <1>0, <1>1, <1>4, <2>1 DEF DepsOf
<1>8. LocksOf(v)' /\ OwnerInv'
  BY <1>0, <1>1, <1>5 DEF LocksOf, OwnerInv
<1>9. TokenInv'
  <2>1. DOMAIN sem' = Entries(table) /\ DOMAIN sem = Entries(table)
    BY <1>0, <1>4
  <2> QED BY <1>0, <1>1, <1>4, <2>1 DEF TokenInv
<1>10. /\ completed' \in [Nets \X Instances -> Nat]
       /\ captured' \in [Nets -> SUBSET Instances]
  BY <1>0, <1>1 DEF TypeOK
<1>11. phase' = "join" => \A u \in workers : pc'[u] # "unborn"
  BY <1>0, <1>1 DEF UpInv
<1> QED BY <1>0, <1>1, <1>4, <1>5, <1>6, <1>7, <1>8, <1>9, <1>10, <1>11, WorkerStep

\* What a worker that is at an entry starts a step from.
LEMMA AtEntry ==
  ASSUME WalkerInv, NEW v \in workers, phase \in { "spawn", "join" },
         pc[v] \notin { "unborn", "exited" }
  PROVE  /\ TypeOK /\ UpInv /\ IsUp /\ IsTable(table)
         /\ at[v] \in Claimed(v) /\ at[v] \in Entries(table)
         /\ Claimed(v) \subseteq Nat /\ v # NoOne
         /\ pc \in [workers -> Steps] /\ at \in [workers -> Nat]
         /\ i \in [workers -> Nat] /\ sem \in [Entries(table) -> Nat]
         /\ owner \in [Hart0 -> workers \cup { NoOne }]
         /\ completed \in [Nets \X Instances -> Nat]
         /\ captured \in [Nets -> SUBSET Instances]
         /\ WalkOf(v) /\ DepsOf(v) /\ LocksOf(v) /\ TokenInv /\ OwnerInv
         /\ phase = "join" => \A u \in workers : pc[u] # "unborn"
<1>1. IsUp
  BY DEF IsUp
<1>2. /\ IsTable(table) /\ Claimed(v) \subseteq Entries(table) /\ v # NoOne
      /\ pc \in [workers -> Steps] /\ at \in [workers -> Nat]
      /\ i \in [workers -> Nat] /\ sem \in [Entries(table) -> Nat]
      /\ owner \in [Hart0 -> workers \cup { NoOne }]
  BY <1>1, UpFacts
<1>3. /\ TypeOK /\ UpInv /\ TokenInv /\ OwnerInv
      /\ WalkOf(v) /\ DepsOf(v) /\ LocksOf(v)
  BY <1>2 DEF WalkerInv
<1>4. at[v] \in Claimed(v) /\ Claimed(v) \subseteq Nat
  BY <1>2, <1>3 DEF WalkOf, IsTable
<1> QED BY <1>1, <1>2, <1>3, <1>4 DEF TypeOK, UpInv

\* The start gate is passed: the dependencies have all ended.
LEMMA PassGateKeeps ==
  ASSUME WalkerInv, NEW v \in workers, PassGate(v)
  PROVE  WalkerInv'
<1>1. phase \in { "spawn", "join" } /\ pc[v] = "deps"
  BY DEF PassGate, Up
<1>0. /\ IsTable(table) /\ at[v] \in Claimed(v) /\ at[v] \in Entries(table)
      /\ Claimed(v) \subseteq Nat /\ v # NoOne
      /\ pc \in [workers -> Steps] /\ at \in [workers -> Nat]
      /\ i \in [workers -> Nat] /\ sem \in [Entries(table) -> Nat]
      /\ owner \in [Hart0 -> workers \cup { NoOne }]
      /\ completed \in [Nets \X Instances -> Nat]
      /\ captured \in [Nets -> SUBSET Instances]
      /\ WalkOf(v) /\ DepsOf(v) /\ TokenInv /\ OwnerInv
      /\ phase = "join" => \A u \in workers : pc[u] # "unborn"
  BY <1>1, AtEntry
<1>2. /\ UNCHANGED << table, workers, unbound, phase, why, at, sem, owner, now,
                      completed, captured >>
      /\ i' = [i EXCEPT ![v] = 0] /\ i[v] = Len(TakeSeq(table, at[v]))
      /\ \/ HasKernel(at[v]) /\ pc' = [pc EXCEPT ![v] = "lock"] /\ ended' = ended
         \/ pc' = [pc EXCEPT ![v] = "give"] /\ ended' = ended \cup { at[v] }
  BY DEF PassGate, mainVars, rest
<1>3. /\ i' \in [workers -> Nat] /\ i'[v] = 0
      /\ pc' \in [workers -> Steps]
      /\ \A u \in workers \ { v } : i'[u] = i[u] /\ pc'[u] = pc[u]
      /\ \/ HasKernel(at[v]) /\ pc'[v] = "lock" /\ ended' = ended
         \/ pc'[v] = "give" /\ ended' = ended \cup { at[v] }
  BY <1>0, <1>2 DEF Steps
<1>4. Claimed(v)' = Claimed(v) /\ \A u : Held(u)' = Held(u)
  BY <1>2, ClaimsStay, HeldStays
<1>5. Preds(table, at[v]) \subseteq ended
  <2>1. \A j \in 1 .. Len(TakeSeq(table, at[v])) : TakeSeq(table, at[v])[j] \in ended
    BY <1>0, <1>1, <1>2 DEF DepsOf
  <2>2. \A p : p \in Preds(table, at[v]) =>
          \E j \in 1 .. Len(TakeSeq(table, at[v])) : TakeSeq(table, at[v])[j] = p
    BY <1>0, TakesAreDependencies
  <2> QED BY <2>1, <2>2
<1>6. WalkOf(v)'
  <2>1. \A e \in Claimed(v) : e \in ended' <=> HasEnded(v, e)'
    BY <1>0, <1>1, <1>2, <1>3 DEF WalkOf, HasEnded, Passed
  <2>2. 0 <= table[at[v]].fanout
    BY <1>0 DEF IsTable
  <2> QED BY <1>0, <1>2, <1>3, <1>4, <2>1, <2>2 DEF WalkOf, HasKernel
<1>7. Held(v) = {}
  BY <1>0, <1>1 DEF OwnerInv, Held
<1>8. DepsOf(v)' /\ LocksOf(v)'
  BY <1>2, <1>3, <1>4, <1>5, <1>7 DEF DepsOf, LocksOf
<1>9. OwnerInv'
  <2>1. \A h \in Hart0 : owner[h] # v
    BY <1>7 DEF Held
  <2>2. DOMAIN pc' = DOMAIN pc
    BY <1>0, <1>3
  <2> QED BY <1>0, <1>2, <1>3, <2>1, <2>2 DEF OwnerInv
<1>10. TokenInv'
  BY <1>0, <1>2, <1>3, <1>5 DEF TokenInv
<1>11. phase' = "join" => \A u \in workers : pc'[u] # "unborn"
  BY <1>0, <1>2, <1>3
<1> QED BY <1>0, <1>1, <1>2, <1>3, <1>4, <1>6, <1>8, <1>9, <1>10, <1>11, WorkerStep

\* A worker's steps other than those that wait, lock or unlock: it stays at
\* its entry with the locks it holds.
LEMMA StayKeeps ==
  ASSUME WalkerInv, NEW v \in workers, phase \in { "spawn", "join" },
         pc[v] \in { "kernel", "count", "capture", "give" },
         UNCHANGED << table, workers, unbound, phase, why, at, owner, now >>,
         pc' \in [workers -> Steps], i' \in [workers -> Nat],
         \A u \in workers \ { v } : pc'[u] = pc[u] /\ i'[u] = i[u],
         \/ /\ pc[v] = "kernel" /\ pc'[v] = "unlock" /\ i' = i
            /\ ended' = ended \cup { at[v] }
         \/ /\ pc[v] # "kernel" /\ ended' = ended
            /\ \/ pc[v] = "count" /\ pc'[v] = "capture" /\ i' = i
               \/ pc'[v] = "give" /\ i'[v] <= table[at[v]].fanout,
         completed' \in [Nets \X Instances -> Nat],
         captured' \in [Nets -> SUBSET Instances],
         sem' \in [Entries(table) -> Nat],
         \A p \in Entries(table) : sem'[p] > 0 => sem[p] > 0 \/ p \in ended
  PROVE  WalkerInv'
<1>0. /\ IsTable(table) /\ at[v] \in Claimed(v) /\ at[v] \in Entries(table)
      /\ Claimed(v) \subseteq Nat /\ v # NoOne
      /\ pc \in [workers -> Steps] /\ at \in [workers -> Nat]
      /\ i \in [workers -> Nat] /\ sem \in [Entries(table) -> Nat]
      /\ owner \in [Hart0 -> workers \cup { NoOne }]
      /\ WalkOf(v) /\ DepsOf(v) /\ LocksOf(v) /\ TokenInv /\ OwnerInv
      /\ phase = "join" => \A u \in workers : pc[u] # "unborn"
  BY AtEntry
<1>1. Claimed(v)' = Claimed(v) /\ \A u : Held(u)' = Held(u)
  BY ClaimsStay, HeldStays
<1>2. \A e \in Claimed(v) : e \in ended' <=> HasEnded(v, e)'
  BY <1>0 DEF WalkOf, HasEnded, Passed
<1>3. \/ HasKernel(at[v]) /\ i'[v] = 0 /\ pc'[v] \in { "unlock", "capture" }
      \/ pc'[v] = "give"
  BY <1>0 DEF WalkOf
<1>4. WalkOf(v)'
  BY <1>0, <1>1, <1>2, <1>3 DEF WalkOf, HasKernel
<1>5. DepsOf(v)'
  BY <1>3 DEF DepsOf
<1>6. LocksOf(v)'
  <2>1. ASSUME pc[v] = "kernel" PROVE Held(v) # {}
    BY <1>0, <2>1, UpFacts, AtEntry DEF LocksOf, LockSet
  <2> QED BY <1>1, <1>3, <2>1 DEF LocksOf
<1>7. OwnerInv'
  <2>1. pc[v] # "kernel" => \A h \in Hart0 : owner[h] # v
    BY <1>0 DEF OwnerInv
  <2>2. DOMAIN pc' = DOMAIN pc
    BY <1>0
  <2>3. ASSUME NEW h \in Hart0, owner[h] # NoOne
        PROVE  /\ owner[h] \in DOMAIN pc'
               /\ pc'[owner[h]] \in { "lock", "kernel", "unlock" }
               /\ h \in HartSet(table, at[owner[h]])
    <3>1. /\ owner[h] \in DOMAIN pc /\ pc[owner[h]] \in { "lock", "kernel", "unlock" }
          /\ h \in HartSet(table, at[owner[h]])
      BY <1>0, <2>3 DEF OwnerInv
    <3>2. CASE owner[h] = v
      BY <2>1, <2>2, <3>1, <3>2
    <3>3. CASE owner[h] # v
      BY <1>0, <2>2, <3>1, <3>3
    <3> QED BY <3>2, <3>3
  <2> QED BY <2>3 DEF OwnerInv
<1>8. TokenInv'
  <2>1. DOMAIN sem = Entries(table) /\ DOMAIN sem' = Entries(table)
    BY <1>0
  <2>2. pc[v] = "kernel" => Preds(table, at[v]) \subseteq ended
    BY <1>0 DEF DepsOf
  <2> QED BY <1>0, <2>1, <2>2 DEF TokenInv
<1>9. phase' = "join" => \A u \in workers : pc'[u] # "unborn"
  BY <1>0, <1>3
<1> QED BY <1>0, <1>1, <1>4, <1>5, <1>6, <1>7, <1>8, <1>9, WorkerStep

\* The kernel returns.
LEMMA EndKernelKeeps ==
  ASSUME WalkerInv, NEW v \in workers, EndKernel(v)
  PROVE  WalkerInv'
<1>1. phase \in { "spawn", "join" } /\ pc[v] = "kernel"
  BY DEF EndKernel, Up
<1>2. /\ UNCHANGED << table, workers, unbound, phase, why, at, i, sem, owner, now,
                      completed, captured >>
      /\ pc' = [pc EXCEPT ![v] = "unlock"] /\ ended' = ended \cup { at[v] }
  BY DEF EndKernel, mainVars, rest
<1> QED BY <1>1, <1>2, AtEntry, StayKeeps DEF Steps

\* A counter that goes up.
LEMMA CountUp ==
  ASSUME NEW D, NEW f \in [D -> Nat], NEW x
  PROVE  [f EXCEPT ![x] = f[x] + 1] \in [D -> Nat]
<1>1. CASE x \in D
  BY <1>1
<1>2. CASE x \notin D
  BY <1>2
<1> QED BY <1>1, <1>2

\* The dispatch is counted.
LEMMA CountDispatchKeeps ==
  ASSUME WalkerInv, NEW v \in workers, CountDispatch(v)
  PROVE  WalkerInv'
<1> DEFINE m == << table[at[v]].net, table[at[v]].inst >>
<1>1. phase \in { "spawn", "join" } /\ pc[v] = "count"
  BY DEF CountDispatch, Up
<1>2. /\ UNCHANGED << table, workers, unbound, phase, why, at, i, sem, owner, now,
                      captured, ended >>
      /\ completed' = [completed EXCEPT ![m] = @ + 1]
      /\ \/ pc' = [pc EXCEPT ![v] = "capture"]
         \/ pc' = [pc EXCEPT ![v] = "give"]
  BY DEF CountDispatch, mainVars
<1>3. /\ HasKernel(at[v]) /\ IsTable(table) /\ at[v] \in Entries(table)
      /\ completed \in [Nets \X Instances -> Nat]
      /\ pc \in [workers -> Steps] /\ i \in [workers -> Nat]
  BY <1>1, AtEntry DEF WalkOf
<1>4. completed' \in [Nets \X Instances -> Nat]
  BY <1>2, <1>3, CountUp
<1>5. i[v] = 0 /\ i[v] <= table[at[v]].fanout
  <2>1. i[v] = 0
    BY <1>1, AtEntry DEF WalkOf
  <2> QED BY <1>3, <2>1 DEF IsTable
<1>6. pc' \in [workers -> Steps] /\ \A u \in workers \ { v } : pc'[u] = pc[u]
  BY <1>2, <1>3 DEF Steps
<1>7. pc'[v] \in { "capture", "give" }
  BY <1>2, <1>3
<1>8. sem \in [Entries(table) -> Nat] /\ captured \in [Nets -> SUBSET Instances]
  BY <1>1, AtEntry
<1> QED BY <1>1, <1>2, <1>3, <1>4, <1>5, <1>6, <1>7, <1>8, StayKeeps

\* The output is captured.
LEMMA CaptureKeeps ==
  ASSUME WalkerInv, NEW v \in workers, Capture(v)
  PROVE  WalkerInv'
<1> DEFINE m == table[at[v]].net
           seen == { table[e].inst : e \in { f \in Begun : table[f].net = m
                                                          /\ table[f].disp >= 0 } }
<1>1. phase \in { "spawn", "join" } /\ pc[v] = "capture"
  BY DEF Capture, Up
<1>2. /\ UNCHANGED << table, workers, unbound, phase, why, at, i, sem, owner, now,
                      completed, ended >>
      /\ captured' = [captured EXCEPT ![m] = seen]
      /\ pc' = [pc EXCEPT ![v] = "give"]
  BY DEF Capture, mainVars
<1>3. /\ IsTable(table) /\ at[v] \in Entries(table) /\ TypeOK /\ i[v] = 0
      /\ captured \in [Nets -> SUBSET Instances]
      /\ pc \in [workers -> Steps] /\ i \in [workers -> Nat]
      /\ sem \in [Entries(table) -> Nat]
      /\ completed \in [Nets \X Instances -> Nat]
  BY <1>1, AtEntry DEF WalkOf
<1>4. Begun \subseteq Entries(table)
  <2>1. ASSUME NEW u \in workers, pc[u] = "kernel" PROVE at[u] \in Entries(table)
    BY <1>1, <2>1, AtEntry
  <2> QED BY <1>3, <2>1 DEF Begun, Running, TypeOK
<1>5. seen \subseteq Instances
  BY <1>3, <1>4 DEF Instances, TypeOK
<1>6. captured' \in [Nets -> SUBSET Instances]
  <2> HIDE DEF seen, m
  <2> QED BY <1>2, <1>3, <1>5
<1>7. i[v] <= table[at[v]].fanout
  BY <1>3 DEF IsTable
<1>8. /\ pc' \in [workers -> Steps] /\ \A u \in workers \ { v } : pc'[u] = pc[u]
      /\ pc'[v] = "give"
  BY <1>2, <1>3 DEF Steps
<1> HIDE DEF seen, m
<1> QED BY <1>1, <1>2, <1>3, <1>6, <1>7, <1>8, StayKeeps

\* A token is given: the entry has ended.
LEMMA GiveKeeps ==
  ASSUME WalkerInv, NEW v \in workers, Give(v)
  PROVE  WalkerInv'
<1>1. phase \in { "spawn", "join" } /\ pc[v] = "give"
  BY DEF Give, Up
<1>2. /\ UNCHANGED << table, workers, unbound, phase, why, pc, at, owner, now,
                      completed, captured, ended >>
      /\ sem' = [sem EXCEPT ![at[v]] = IF @ < SemLimit THEN @ + 1 ELSE @]
      /\ i' = [i EXCEPT ![v] = @ + 1] /\ i[v] < table[at[v]].fanout
  BY DEF Give, mainVars, rest
<1>3. /\ IsTable(table) /\ at[v] \in Entries(table) /\ at[v] \in Claimed(v)
      /\ captured \in [Nets -> SUBSET Instances]
      /\ pc \in [workers -> Steps] /\ i \in [workers -> Nat]
      /\ sem \in [Entries(table) -> Nat]
      /\ completed \in [Nets \X Instances -> Nat]
  BY <1>1, AtEntry
<1>4. at[v] \in ended
  BY <1>1, <1>3, AtEntry DEF WalkOf, HasEnded
<1>5. /\ i' \in [workers -> Nat] /\ i'[v] = i[v] + 1
      /\ \A u \in workers \ { v } : i'[u] = i[u]
  BY <1>2, <1>3
<1>6. i'[v] <= table[at[v]].fanout
  BY <1>2, <1>3, <1>5 DEF IsTable
<1>7. /\ sem' \in [Entries(table) -> Nat]
      /\ \A p \in Entries(table) : sem'[p] > 0 => sem[p] > 0 \/ p \in ended
  BY <1>2, <1>3, <1>4, WalkerAssumption
<1> QED BY <1>1, <1>2, <1>3, <1>5, <1>6, <1>7, StayKeeps

\* The worker goes on to the next entry it claims.
LEMMA NextEntryKeeps ==
  ASSUME WalkerInv, NEW v \in workers, NextEntry(v)
  PROVE  WalkerInv'
<1>1. phase \in { "spawn", "join" } /\ pc[v] = "give"
  BY DEF NextEntry, Up
<1>2. /\ UNCHANGED << table, workers, unbound, phase, why, sem, owner, now, completed,
                      captured, ended >>
      /\ MoveTo(v, { e \in Claimed(v) : e > at[v] })
  BY DEF NextEntry, mainVars, rest
<1>3. /\ IsUp /\ sem \in [Entries(table) -> Nat]
      /\ pc \in [workers -> Steps]
      /\ owner \in [Hart0 -> workers \cup { NoOne }]
      /\ completed \in [Nets \X Instances -> Nat]
      /\ captured \in [Nets -> SUBSET Instances]
      /\ phase = "join" => \A u \in workers : pc[u] # "unborn"
  BY <1>1, AtEntry
<1>4. /\ pc' \in [workers -> Steps] /\ at' \in [workers -> Nat]
      /\ i' \in [workers -> Nat]
      /\ \A u \in workers \ { v } : pc'[u] = pc[u] /\ at'[u] = at[u] /\ i'[u] = i[u]
      /\ pc'[v] # "unborn"
  BY <1>2, <1>3, Moved
<1>5. (WalkOf(v) /\ DepsOf(v) /\ LocksOf(v))' /\ TokenInv' /\ OwnerInv'
  BY <1>1, <1>2, <1>3, MoveKeeps
<1>6. \A u : Held(u)' = Held(u)
  BY <1>2, HeldStays
<1>7. phase' = "join" => \A u \in workers : pc'[u] # "unborn"
  BY <1>2, <1>3, <1>4
<1> QED BY <1>1, <1>2, <1>3, <1>4, <1>5, <1>6, <1>7, WorkerStep

\* A lock is taken or released by worker v: what becomes of the holdings.
LEMMA LockMoves ==
  ASSUME WalkerInv, IsUp, NEW v \in workers, NEW n \in Hart0, NEW w,
         \/ owner[n] = NoOne /\ w = v
         \/ owner[n] = v /\ w = NoOne,
         owner' = [owner EXCEPT ![n] = w]
  PROVE  /\ owner' \in [Hart0 -> workers \cup { NoOne }]
         /\ Held(v)' = IF w = v THEN Held(v) \cup { n } ELSE Held(v) \ { n }
         /\ \A u \in workers \ { v } : Held(u)' = Held(u)
<1>1. /\ owner \in [Hart0 -> workers \cup { NoOne }]
      /\ \A u \in workers : u # NoOne
  BY UpFacts
<1>2. \A h \in Hart0 : owner'[h] = IF h = n THEN w ELSE owner[h]
  BY <1>1
<1> QED BY <1>1, <1>2 DEF Held

\* The next mutex is the least of those still to be taken.
LEMMA LockHartKeeps ==
  ASSUME WalkerInv, NEW v \in workers, LockHart(v)
  PROVE  WalkerInv'
<1> DEFINE locks == LockSet(table, at[v])
           n == NextLock(v)
<1>1. phase \in { "spawn", "join" } /\ pc[v] = "lock"
  BY DEF LockHart, Up
<1>2. /\ UNCHANGED << table, workers, unbound, phase, why, pc, at, i, sem, now,
                      completed, captured, ended >>
      /\ owner' = [owner EXCEPT ![n] = v]
      /\ owner[n] = NoOne /\ ~ locks \subseteq Held(v)
  BY DEF LockHart, mainVars, rest
<1>3. /\ IsUp /\ IsTable(table) /\ at[v] \in Entries(table) /\ v # NoOne
      /\ pc \in [workers -> Steps] /\ at \in [workers -> Nat]
      /\ i \in [workers -> Nat] /\ sem \in [Entries(table) -> Nat]
      /\ completed \in [Nets \X Instances -> Nat]
      /\ captured \in [Nets -> SUBSET Instances]
      /\ WalkOf(v) /\ DepsOf(v) /\ LocksOf(v) /\ TokenInv /\ OwnerInv
      /\ phase = "join" => \A u \in workers : pc[u] # "unborn"
  BY <1>1, AtEntry
<1>4. locks \subseteq Hart0 /\ Hart0 \subseteq Nat
  BY <1>3, UpFacts DEF LockSet, Hart0
<1>5. n \in locks \ Held(v) /\ \A g \in locks \ Held(v) : n <= g
  <2> DEFINE S == locks \ Held(v)
  <2>1. S \subseteq Nat /\ S # {}
    BY <1>2, <1>4
  <2>2. n = Least(S)
    BY DEF NextLock
  <2> HIDE DEF S, n
  <2>3. n \in S /\ \A g \in S : n <= g
    BY <2>1, <2>2, NatHasLeast DEF Least
  <2> QED BY <2>3 DEF S
<1> HIDE DEF n, locks
<1>6. n \in Hart0
  BY <1>4, <1>5
<1>7. /\ owner' \in [Hart0 -> workers \cup { NoOne }]
      /\ Held(v)' = Held(v) \cup { n }
      /\ \A u \in workers \ { v } : Held(u)' = Held(u)
  BY <1>2, <1>3, <1>6, LockMoves
<1>8. Claimed(v)' = Claimed(v)
  BY <1>2, ClaimsStay
<1>9. WalkOf(v)' /\ DepsOf(v)'
  BY <1>2, <1>3, <1>8 DEF WalkOf, DepsOf, HasEnded, Passed, HasKernel
<1>10. LocksOf(v)'
  <2>1. \A h \in Held(v) : \A g \in locks \ Held(v) : h < g
    BY <1>1, <1>3 DEF LocksOf, locks
  <2>2. \A h \in Held(v) \cup { n } : \A g \in locks \ (Held(v) \cup { n }) : h < g
    BY <1>4, <1>5, <2>1
  <2> QED BY <1>1, <1>2, <1>7, <2>2 DEF LocksOf, locks
<1>11. OwnerInv'
  <2>1. n \in HartSet(table, at[v]) /\ v \in DOMAIN pc
    BY <1>3, <1>5 DEF locks, LockSet
  <2>2. \A h \in Hart0 : owner'[h] = IF h = n THEN v ELSE owner[h]
    BY <1>2, <1>3, UpFacts
  <2> QED BY <1>1, <1>2, <1>3, <2>1, <2>2 DEF OwnerInv
<1>12. TokenInv'
  BY <1>2, <1>3 DEF TokenInv
<1> QED BY <1>1, <1>2, <1>3, <1>7, <1>9, <1>10, <1>11, <1>12, WorkerStep

\* All the mutexes are held: the kernel begins, unless there is none.
LEMMA BeginKernelKeeps ==
  ASSUME WalkerInv, NEW v \in workers, BeginKernel(v)
  PROVE  WalkerInv'
<1>1. phase \in { "spawn", "join" } /\ pc[v] = "lock"
  BY DEF BeginKernel, Up
<1>2. /\ UNCHANGED << table, workers, unbound, at, i, sem, owner, now, completed,
                      captured, ended >>
      /\ LockSet(table, at[v]) \subseteq Held(v)
      /\ \/ pc' = [pc EXCEPT ![v] = "kernel"] /\ UNCHANGED << phase, why >>
         \/ phase' = "fatal" /\ why' = "impl" /\ UNCHANGED pc
  BY DEF BeginKernel, Fail, rest
<1>3. /\ at[v] \in Claimed(v)
      /\ pc \in [workers -> Steps] /\ at \in [workers -> Nat]
      /\ i \in [workers -> Nat] /\ sem \in [Entries(table) -> Nat]
      /\ owner \in [Hart0 -> workers \cup { NoOne }]
      /\ completed \in [Nets \X Instances -> Nat]
      /\ captured \in [Nets -> SUBSET Instances]
      /\ WalkOf(v) /\ DepsOf(v) /\ LocksOf(v) /\ TokenInv /\ OwnerInv
      /\ phase = "join" => \A u \in workers : pc[u] # "unborn"
  BY <1>1, AtEntry
<1>4. Claimed(v)' = Claimed(v) /\ \A u : Held(u)' = Held(u)
  BY <1>2, ClaimsStay, HeldStays
<1>5. /\ pc' \in [workers -> Steps] /\ pc'[v] \in { "lock", "kernel" }
      /\ \A u \in workers \ { v } : pc'[u] = pc[u]
  BY <1>1, <1>2, <1>3 DEF Steps
<1>6. \A e : HasEnded(v, e)' <=> HasEnded(v, e)
  BY <1>1, <1>2, <1>5 DEF HasEnded, Passed
<1>7. WalkOf(v)' /\ DepsOf(v)'
  BY <1>1, <1>2, <1>3, <1>4, <1>5, <1>6 DEF WalkOf, DepsOf, HasKernel
<1>8. LocksOf(v)' /\ TokenInv'
  BY <1>2, <1>3, <1>4, <1>5 DEF LocksOf, TokenInv
<1>9. OwnerInv'
  <2>1. DOMAIN pc' = DOMAIN pc /\ v \in DOMAIN pc
    BY <1>3, <1>5
  <2>2. \A u \in DOMAIN pc : pc[u] \in { "lock", "kernel", "unlock" } =>
                               pc'[u] \in { "lock", "kernel", "unlock" }
    BY <1>3, <1>5
  <2> QED BY <1>2, <1>3, <2>1, <2>2 DEF OwnerInv
<1>10. \/ phase' \in { "spawn", "join" } /\ why' = why
       \/ phase' = "fatal" /\ why' = "impl"
  BY <1>1, <1>2
<1>11. phase' = "join" => \A u \in workers : pc'[u] # "unborn"
  BY <1>2, <1>3, <1>5
<1> QED BY <1>1, <1>2, <1>3, <1>4, <1>5, <1>7, <1>8, <1>9, <1>10, <1>11, WorkerStep

\* A mutex is released, the last of them with the step.
LEMMA UnlockHartKeeps ==
  ASSUME WalkerInv, NEW v \in workers, UnlockHart(v)
  PROVE  WalkerInv'
<1> DEFINE n == NextUnlock(v)
<1>1. phase \in { "spawn", "join" } /\ pc[v] = "unlock"
  BY DEF UnlockHart, Up
<1>2. /\ UNCHANGED << table, workers, unbound, phase, why, at, i, sem, now,
                      completed, captured, ended >>
      /\ owner' = [owner EXCEPT ![n] = NoOne]
      /\ pc' = [pc EXCEPT ![v] = IF Held(v) = { n } THEN "count" ELSE @]
  BY DEF UnlockHart, mainVars, rest
<1>3. /\ IsUp /\ at[v] \in Claimed(v) /\ v # NoOne
      /\ pc \in [workers -> Steps] /\ at \in [workers -> Nat]
      /\ i \in [workers -> Nat] /\ sem \in [Entries(table) -> Nat]
      /\ owner \in [Hart0 -> workers \cup { NoOne }]
      /\ completed \in [Nets \X Instances -> Nat]
      /\ captured \in [Nets -> SUBSET Instances]
      /\ WalkOf(v) /\ LocksOf(v) /\ TokenInv /\ OwnerInv
      /\ phase = "join" => \A u \in workers : pc[u] # "unborn"
  BY <1>1, AtEntry
<1>4. n \in Held(v)
  <2>1. Held(v) # {} /\ Held(v) \subseteq 0 .. MaxHarts - 1
    BY <1>1, <1>3 DEF LocksOf, Held, Hart0
  <2>2. Held(v) \subseteq Int /\ \A h \in Held(v) : h <= MaxHarts
    BY <2>1, WalkerAssumption
  <2> QED BY <2>1, <2>2, GreatestIs, WalkerAssumption DEF NextUnlock
<1> HIDE DEF n
<1>5. n \in Hart0 /\ owner[n] = v
  BY <1>4 DEF Held
<1>6. /\ owner' \in [Hart0 -> workers \cup { NoOne }]
      /\ Held(v)' = Held(v) \ { n }
      /\ \A u \in workers \ { v } : Held(u)' = Held(u)
  BY <1>2, <1>3, <1>5, LockMoves
<1>7. /\ pc' \in [workers -> Steps]
      /\ \A u \in workers \ { v } : pc'[u] = pc[u]
      /\ \/ pc'[v] = "count" /\ Held(v) = { n }
         \/ pc'[v] = "unlock" /\ Held(v) # { n }
  BY <1>1, <1>2, <1>3 DEF Steps
<1>8. Claimed(v)' = Claimed(v)
  BY <1>2, ClaimsStay
<1>9. \A e : HasEnded(v, e)' <=> HasEnded(v, e)
  BY <1>1, <1>2, <1>7 DEF HasEnded, Passed
<1>10. WalkOf(v)' /\ DepsOf(v)' /\ TokenInv'
  BY <1>1, <1>2, <1>3, <1>7, <1>8, <1>9 DEF WalkOf, DepsOf, HasKernel, TokenInv
<1>11. LocksOf(v)'
  BY <1>4, <1>6, <1>7 DEF LocksOf
<1>12. OwnerInv'
  <2>1. \A h \in Hart0 : owner'[h] = IF h = n THEN NoOne ELSE owner[h]
    BY <1>2, <1>3
  <2>2. \A h \in Hart0 : owner[h] = v /\ h # n => pc'[v] = "unlock"
    BY <1>7 DEF Held
  <2>3. DOMAIN pc' = DOMAIN pc
    BY <1>3, <1>7
  <2>4. ASSUME NEW h \in Hart0, owner'[h] # NoOne
        PROVE  /\ owner[h] \in DOMAIN pc /\ h \in HartSet(table, at[owner[h]])
               /\ pc'[owner[h]] \in { "lock", "kernel", "unlock" }
    <3>1. /\ owner[h] \in DOMAIN pc /\ h \in HartSet(table, at[owner[h]]) /\ h # n
          /\ pc[owner[h]] \in { "lock", "kernel", "unlock" }
      BY <1>3, <2>1, <2>4 DEF OwnerInv
    <3>2. CASE owner[h] = v
      BY <2>2, <3>1, <3>2
    <3>3. CASE owner[h] # v
      BY <1>3, <1>7, <3>1, <3>3
    <3> QED BY <3>1, <3>2, <3>3
  <2> QED BY <1>2, <2>1, <2>3, <2>4 DEF OwnerInv
<1>13. phase' = "join" => \A u \in workers : pc'[u] # "unborn"
  BY <1>2, <1>3, <1>7
<1> QED BY <1>1, <1>2, <1>3, <1>6, <1>7, <1>10, <1>11, <1>12, <1>13, WorkerStep

-----------------------------------------------------------------------------
(***************************************************************************)
(* The theorems.                                                           *)
(***************************************************************************)
\* WalkerInv holds in every state of every run: main() has accepted the table,
\* every worker is where its walk, the tokens it took and the mutexes it holds
\* say it is.
THEOREM WalkerInvariant == Spec => []WalkerInv
<1>1. Init => WalkerInv
  BY WalkerInvInit
<1>2. WalkerInv /\ [Next]_vars => WalkerInv'
  <2> SUFFICES ASSUME WalkerInv, [Next]_vars PROVE WalkerInv'
    OBVIOUS
  <2>1. CASE Main
    <3>1. CASE Discover \/ Audit \/ InitEntryRuntime
      BY <3>1, MainKeeps
    <3>2. CASE InitSems
      BY <3>2, InitSemsKeeps
    <3>3. CASE SpawnNone \/ Join
      BY <3>3, OutsideKeeps
    <3>4. CASE \E v \in workers : Spawn(v)
      BY <3>4, SpawnKeeps
    <3> QED BY <2>1, <3>1, <3>2, <3>3, <3>4 DEF Main
  <2>2. ASSUME NEW v \in workers, Work(v) PROVE WalkerInv'
    BY <2>2, TakeDepKeeps, PassGateKeeps, LockHartKeeps, BeginKernelKeeps,
       EndKernelKeeps, UnlockHartKeeps, CountDispatchKeeps, CaptureKeeps,
       GiveKeeps, NextEntryKeeps DEF Work
  <2>3. CASE Tick \/ UNCHANGED vars
    BY <2>3, OutsideKeeps
  <2> QED BY <2>1, <2>2, <2>3 DEF Next
<1> QED BY <1>1, <1>2, PTL DEF Spec

\* Every variable keeps its type, for any tables with well-typed columns.
THEOREM TypeCorrect == Spec => []TypeOK
<1>1. WalkerInv => TypeOK
  BY DEF WalkerInv
<1> QED BY <1>1, WalkerInvariant, PTL

\* A kernel begins only after every entry it depends on has ended, whatever
\* the table, and whether or not its tokens balance.
THEOREM DependenciesRespected == Spec => []DependencyOrder
<1>1. WalkerInv => DependencyOrder
  BY DEF WalkerInv, DependencyOrder, Begun, Running, TokenInv, DepsOf
<1> QED BY <1>1, WalkerInvariant, PTL

\* Two kernels never run on a common hart: each holds the mutexes of its
\* harts, and a mutex has one owner.
THEOREM HartsExclusive == Spec => []ExclusiveHarts
<1>1. WalkerInv => ExclusiveHarts
  <2> SUFFICES ASSUME WalkerInv, NEW u \in DOMAIN pc, NEW v \in DOMAIN pc, u # v,
                      pc[u] = "kernel", pc[v] = "kernel"
               PROVE  /\ HartSet(table, at[u]) \cap HartSet(table, at[v]) = {}
                      /\ table[at[u]].harts # table[at[v]].harts
    BY DEF ExclusiveHarts
  <2>1. IsUp /\ DOMAIN pc = workers
    BY DEF WalkerInv, UpInv, IsUp
  <2>2. HartSet(table, at[u]) \subseteq Held(u) /\ HartSet(table, at[v]) \subseteq Held(v)
    BY DEF WalkerInv, LocksOf, LockSet
  <2>3. Held(u) \cap Held(v) = {}
    BY DEF Held
  <2>4. HartSet(table, at[u]) # {}
    BY <2>1, UpFacts DEF WalkerInv, WalkOf
  <2>5. HartSet(table, at[u]) \cap HartSet(table, at[v]) = {}
    BY <2>2, <2>3
  <2>6. HartSet(table, at[u]) # HartSet(table, at[v])
    BY <2>4, <2>5
  <2> QED BY <2>5, <2>6 DEF HartSet
<1> QED BY <1>1, WalkerInvariant, PTL

\* No worker waits for a semaphore, or for its start time, with a hart locked.
THEOREM LocksAroundKernels == Spec => []LocksOnlyAroundKernel
<1>1. WalkerInv => LocksOnlyAroundKernel
  BY DEF WalkerInv, OwnerInv, LocksOnlyAroundKernel
<1> QED BY <1>1, WalkerInvariant, PTL

\* main()'s audit never refuses what its discovery has found, but for an
\* entry of an unknown kind.
THEOREM AuditAgrees == Spec => []AuditAgreesWithDiscovery
<1>1. WalkerInv => AuditAgreesWithDiscovery
  <2> SUFFICES ASSUME WalkerInv, why = "claims",
                      \A e \in Entries(table) : table[e].kind \in Kinds
               PROVE  FALSE
    BY DEF AuditAgreesWithDiscovery
  <2>1. /\ workers = WorkersOf(table) /\ unbound = UnboundOf(table) /\ ~Audited
        /\ IsTable(table)
    BY WalkerAssumption DEF WalkerInv, UpInv, TypeOK
  <2>2. PICK e \in Entries(table) : \A v \in workers :
               { u \in workers : Claims(table, unbound, u, e) } # { v }
    BY <2>1 DEF Audited
  <2> DEFINE k == table[e].kind
  <2>3. k \in Kinds /\ Hart(table, e) \in Int
    BY <2>1 DEF IsTable, Hart
  <2>4. CASE Hart(table, e) >= 0
    <3> DEFINE v == << k, Hart(table, e) >>
    <3>1. Hart(table, e) \in BoundHarts(table, k)
      BY <2>4 DEF BoundHarts
    <3>2. v \in workers
      BY <2>1, <2>3, <3>1 DEF WorkersOf, HartsOf
    <3>3. ASSUME NEW u \in workers PROVE Claims(table, unbound, u, e) <=> u = v
      <4>1. \E l, h : u = << l, h >>
        BY <2>1 DEF WorkersOf
      <4> QED BY <2>4, <4>1 DEF Claims
    <3> HIDE DEF v
    <3> QED BY <2>2, <3>2, <3>3
  <2>5. CASE ~ (Hart(table, e) >= 0)
    <3> DEFINE v == << k, Least(HartsOf(table, k)) >>
    <3>1. HasUnbound(table, k)
      BY <2>3, <2>5 DEF HasUnbound
    <3>2. /\ HartsOf(table, k) \subseteq Int /\ HartsOf(table, k) # {}
          /\ \A h \in HartsOf(table, k) : -1 <= h
      <4>1. \A f \in Entries(table) : Hart(table, f) \in Int
        BY <2>1 DEF IsTable, Hart
      <4> QED BY <3>1, <4>1 DEF HartsOf, BoundHarts
    <3>3. Least(HartsOf(table, k)) \in HartsOf(table, k)
      BY <3>2, LeastIs
    <3>4. v \in workers /\ v \in unbound
      BY <2>1, <2>3, <3>1, <3>3 DEF WorkersOf, UnboundOf
    <3>5. ASSUME NEW u \in workers PROVE Claims(table, unbound, u, e) <=> u = v
      <4>1. u \in unbound <=> \E l \in Kinds : HasUnbound(table, l)
                                  /\ u = << l, Least(HartsOf(table, l)) >>
        BY <2>1 DEF UnboundOf
      <4>2. Claims(table, unbound, u, e) <=> k = u[1] /\ u \in unbound
        BY <2>5 DEF Claims
      <4> QED BY <3>4, <4>1, <4>2
    <3> HIDE DEF v
    <3> QED BY <2>2, <3>4, <3>5
  <2> QED BY <2>4, <2>5
<1> QED BY <1>1, WalkerInvariant, PTL

-----------------------------------------------------------------------------
(***************************************************************************)
(* A run is a run of the dependency graph.                                 *)
(***************************************************************************)
\* The kernels that run change only when a worker begins or ends one.
LEMMA RunningStays ==
  ASSUME DOMAIN pc' = DOMAIN pc,
         \A u \in DOMAIN pc : /\ pc'[u] = "kernel" <=> pc[u] = "kernel"
                              /\ pc[u] = "kernel" => at'[u] = at[u]
  PROVE  Running' = Running
  BY DEF Running

\* An entry that is claimed by a worker about to run it is not running, and
\* has not ended.
LEMMA NotBegun ==
  ASSUME WalkerInv, NEW v \in workers, phase \in { "spawn", "join" },
         pc[v] \in { "deps", "lock" }
  PROVE  at[v] \in Entries(table) \ (Running \cup ended)
<1>1. /\ at[v] \in Claimed(v) /\ at[v] \in Entries(table) /\ IsUp
      /\ WalkOf(v) /\ Claimed(v) \subseteq Nat /\ pc \in [workers -> Steps]
  BY AtEntry
<1>2. ~HasEnded(v, at[v])
  BY <1>1 DEF HasEnded, Passed
<1>3. at[v] \notin ended
  BY <1>1, <1>2 DEF WalkOf
<1>4. ASSUME NEW u \in workers, pc[u] = "kernel" PROVE at[u] # at[v]
  <2>1. at[u] \in Claimed(u)
    BY <1>4, AtEntry
  <2> QED BY <1>1, <1>4, <2>1, UpFacts
<1> QED BY <1>1, <1>3, <1>4 DEF Running

\* No worker's step is the regular end of the run.
LEMMA StepIsNotTheEnd ==
  ASSUME NEW v \in workers, Work(v)
  PROVE  phase # "done" /\ phase' # "done"
<1>1. phase \in { "spawn", "join" } /\ phase' \in { phase, "fatal" }
  BY DEF Work, TakeDep, PassGate, LockHart, BeginKernel, EndKernel, UnlockHart,
         CountDispatch, Capture, Give, NextEntry, Up, mainVars, Fail
<1> QED BY <1>1

\* When main() has joined the workers every entry has been executed: each is
\* claimed by a worker, which has passed it.
LEMMA JoinReturns ==
  ASSUME WalkerInv, Join
  PROVE  Dag!Return
<1>1. /\ phase = "join" /\ phase' = "done" /\ IsUp
      /\ \A v \in workers : pc[v] = "exited"
      /\ UNCHANGED << table, pc, at, ended >>
  BY DEF Join, IsUp
<1>2. Audited /\ DOMAIN pc = workers /\ ended \subseteq Entries(table)
  BY <1>1 DEF WalkerInv, UpInv, TypeOK
<1>3. Running = {}
  BY <1>1, <1>2 DEF Running
<1>4. ASSUME NEW e \in Entries(table) PROVE e \in ended
  <2>1. PICK v \in workers : { u \in workers : Claims(table, unbound, u, e) } = { v }
    BY <1>2, <1>4 DEF Audited
  <2>2. e \in Claimed(v) /\ HasEnded(v, e)
    BY <1>1, <1>4, <2>1 DEF Claimed, HasEnded, Passed
  <2> QED BY <1>2, <2>1, <2>2 DEF WalkerInv, WalkOf
<1>5. Running' = Running
  BY <1>1, RunningStays
<1> QED BY <1>1, <1>2, <1>3, <1>4, <1>5 DEF Dag!Return, Dag!Entries, Entries

\* BeginKernel starts its entry, or is fatal.
LEMMA BeginKernelStarts ==
  ASSUME WalkerInv, NEW v \in workers, BeginKernel(v)
  PROVE  [Dag!Next]_(Dag!dagVars)
<1>0. phase # "done" /\ phase' # "done"
  BY StepIsNotTheEnd DEF Work
<1>1. /\ phase \in { "spawn", "join" } /\ pc[v] = "lock"
      /\ UNCHANGED << table, at, ended, owner >>
      /\ LockSet(table, at[v]) \subseteq Held(v)
      /\ \/ pc' = [pc EXCEPT ![v] = "kernel"]
         \/ pc' = pc
  BY DEF BeginKernel, Up
<1>2. /\ at[v] \in Entries(table) \ (Running \cup ended)
      /\ pc \in [workers -> Steps] /\ DepsOf(v)
  BY <1>1, AtEntry, NotBegun
<1>3. CASE pc' = pc
  BY <1>0, <1>1, <1>3, RunningStays DEF Dag!dagVars
<1>4. CASE pc' = [pc EXCEPT ![v] = "kernel"]
  <2>1. Running' = Running \cup { at[v] }
    BY <1>1, <1>2, <1>4 DEF Running
  <2>2. Preds(table, at[v]) \subseteq ended
    BY <1>1, <1>2 DEF DepsOf
  <2>3. ASSUME NEW f \in Running
        PROVE  HartSet(table, at[v]) \cap HartSet(table, f) = {}
    <3>1. PICK u \in workers : pc[u] = "kernel" /\ f = at[u]
      BY <1>2 DEF Running
    <3>2. HartSet(table, f) \subseteq Held(u)
      BY <1>2, <3>1 DEF WalkerInv, LocksOf, LockSet
    <3>3. HartSet(table, at[v]) \subseteq Held(v) /\ u # v
      BY <1>1, <3>1 DEF LockSet
    <3> QED BY <3>2, <3>3 DEF Held
  <2>4. Dag!Start(at[v])
    BY <1>0, <1>1, <1>2, <2>1, <2>2, <2>3
       DEF Dag!Start, Dag!Ready, Dag!Preds, Preds, Dag!HartSet, HartSet,
           Dag!Range, Range, Dag!Entries, Entries
  <2> QED BY <1>2, <2>4 DEF Dag!Next, Dag!Entries, Entries
<1> QED BY <1>1, <1>3, <1>4

\* EndKernel finishes its entry.
LEMMA EndKernelFinishes ==
  ASSUME WalkerInv, NEW v \in workers, EndKernel(v)
  PROVE  [Dag!Next]_(Dag!dagVars)
<1>0. phase # "done" /\ phase' # "done"
  BY StepIsNotTheEnd DEF Work
<1>1. /\ phase \in { "spawn", "join" } /\ pc[v] = "kernel"
      /\ UNCHANGED << table, at >> /\ ended' = ended \cup { at[v] }
      /\ pc' = [pc EXCEPT ![v] = "unlock"]
  BY DEF EndKernel, Up, mainVars
<1>2. /\ at[v] \in Claimed(v) /\ at[v] \in Entries(table) /\ IsUp
      /\ pc \in [workers -> Steps]
  BY <1>1, AtEntry
<1>3. at[v] \in Running
  BY <1>1, <1>2 DEF Running
<1>4. ASSUME NEW u \in workers \ { v }, pc[u] = "kernel" PROVE at[u] # at[v]
  <2>1. at[u] \in Claimed(u)
    BY <1>1, <1>4, AtEntry
  <2> QED BY <1>2, <1>4, <2>1, UpFacts
<1>5. Running' = Running \ { at[v] }
  <2>1. \A u \in workers : pc'[u] = IF u = v THEN "unlock" ELSE pc[u]
    BY <1>1, <1>2
  <2>2. DOMAIN pc = workers /\ DOMAIN pc' = workers
    BY <1>1, <1>2
  <2> QED BY <1>1, <1>4, <2>1, <2>2 DEF Running
<1>6. Dag!Finish(at[v])
  BY <1>0, <1>1, <1>3, <1>5 DEF Dag!Finish
<1> QED BY <1>2, <1>6 DEF Dag!Next, Dag!Entries, Entries

\* PassGate skips an entry without a kernel.
LEMMA PassGateSkips ==
  ASSUME WalkerInv, NEW v \in workers, PassGate(v)
  PROVE  [Dag!Next]_(Dag!dagVars)
<1>0. phase # "done" /\ phase' # "done"
  BY StepIsNotTheEnd DEF Work
<1>1. /\ phase \in { "spawn", "join" } /\ pc[v] = "deps"
      /\ UNCHANGED << table, at >> /\ i[v] = Len(TakeSeq(table, at[v]))
      /\ \/ pc' = [pc EXCEPT ![v] = "lock"] /\ ended' = ended
         \/ pc' = [pc EXCEPT ![v] = "give"] /\ ended' = ended \cup { at[v] }
  BY DEF PassGate, Up, mainVars
<1>2. /\ at[v] \in Entries(table) \ (Running \cup ended) /\ IsTable(table)
      /\ pc \in [workers -> Steps] /\ DepsOf(v)
  BY <1>1, AtEntry, NotBegun
<1>3. Running' = Running
  <2>1. /\ DOMAIN pc' = DOMAIN pc
        /\ \A u \in DOMAIN pc : pc'[u] = "kernel" <=> pc[u] = "kernel"
    BY <1>1, <1>2
  <2> QED BY <1>1, <2>1, RunningStays
<1>4. Preds(table, at[v]) \subseteq ended
  <2>1. \A j \in 1 .. Len(TakeSeq(table, at[v])) : TakeSeq(table, at[v])[j] \in ended
    BY <1>1, <1>2 DEF DepsOf
  <2>2. \A p : p \in Preds(table, at[v]) =>
          \E j \in 1 .. Len(TakeSeq(table, at[v])) : TakeSeq(table, at[v])[j] = p
    BY <1>2, TakesAreDependencies
  <2> QED BY <2>1, <2>2
<1>5. CASE ended' = ended
  BY <1>0, <1>1, <1>3, <1>5 DEF Dag!dagVars
<1>6. CASE ended' = ended \cup { at[v] }
  <2>1. Dag!Skip(at[v])
    BY <1>0, <1>1, <1>2, <1>3, <1>4, <1>6
       DEF Dag!Skip, Dag!Ready, Dag!Preds, Preds, Dag!Range, Range,
           Dag!Entries, Entries
  <2> QED BY <1>2, <2>1 DEF Dag!Next, Dag!Entries, Entries
<1> QED BY <1>1, <1>5, <1>6

\* No other step begins or ends an entry, or the run.
LEMMA OthersStutter ==
  ASSUME WalkerInv,
         \/ (Main /\ ~Join) \/ Tick \/ UNCHANGED vars
         \/ \E v \in workers :
              \/ TakeDep(v) \/ LockHart(v) \/ UnlockHart(v) \/ CountDispatch(v)
              \/ Capture(v) \/ Give(v) \/ NextEntry(v)
  PROVE  UNCHANGED Dag!dagVars
<1>1. CASE Discover \/ Audit \/ InitEntryRuntime \/ SpawnNone \/ Tick
             \/ UNCHANGED vars
  <2>1. UNCHANGED << table, pc, at, ended >>
    BY <1>1 DEF Discover, Audit, InitEntryRuntime, SpawnNone, Tick, vars, mainVars
  <2>2. phase = "done" <=> phase' = "done"
    BY <1>1 DEF Discover, Audit, InitEntryRuntime, SpawnNone, Tick, vars, mainVars, Fail
  <2> QED BY <2>1, <2>2, RunningStays DEF Dag!dagVars
<1>2. CASE InitSems
  <2>1. DOMAIN pc = {}
    BY <1>2 DEF WalkerInv, UpInv, InitSems
  <2>2. /\ UNCHANGED << table, ended >> /\ \A v \in DOMAIN pc' : pc'[v] # "kernel"
        /\ phase # "done" /\ phase' # "done"
    BY <1>2 DEF InitSems, Fail
  <2> QED BY <2>1, <2>2 DEF Dag!dagVars, Running
<1>3. ASSUME NEW v \in workers, Spawn(v) \/ NextEntry(v)
      PROVE  UNCHANGED Dag!dagVars
  <2>1. /\ IsUp /\ pc[v] # "kernel" /\ UNCHANGED << table, ended >>
        /\ \/ \E S \in SUBSET Claimed(v) : MoveTo(v, S)
           \/ UNCHANGED << pc, at >>
    BY <1>3 DEF Spawn, NextEntry, IsUp, Up, mainVars
  <2>0. phase # "done" /\ phase' # "done"
    BY <1>3 DEF Spawn, NextEntry, Up, mainVars, Fail
  <2>2. pc \in [workers -> Steps]
    BY <2>1, UpFacts
  <2>3. CASE UNCHANGED << pc, at >>
    BY <2>0, <2>1, <2>3, RunningStays DEF Dag!dagVars
  <2>4. ASSUME NEW S \in SUBSET Claimed(v), MoveTo(v, S)
        PROVE  UNCHANGED Dag!dagVars
    <3>1. /\ pc' \in [workers -> Steps] /\ pc'[v] \in { "exited", "deps" }
          /\ \A u \in workers \ { v } : pc'[u] = pc[u] /\ at'[u] = at[u]
      BY <2>1, <2>4, Moved
    <3>2. Running' = Running
      BY <2>1, <2>2, <3>1, RunningStays
    <3> QED BY <2>0, <2>1, <3>2 DEF Dag!dagVars
  <2> QED BY <2>1, <2>3, <2>4
<1>4. ASSUME NEW v \in workers,
             \/ TakeDep(v) \/ LockHart(v) \/ UnlockHart(v) \/ CountDispatch(v)
             \/ Capture(v) \/ Give(v)
      PROVE  UNCHANGED Dag!dagVars
  <2>1. /\ phase \in { "spawn", "join" } /\ UNCHANGED << table, at, ended >>
        /\ pc[v] # "kernel"
        /\ \/ pc' = pc
           \/ \E s \in { "count", "capture", "give", "unlock" } : pc' = [pc EXCEPT ![v] = s]
    BY <1>4 DEF TakeDep, LockHart, UnlockHart, CountDispatch, Capture, Give, Up, mainVars
  <2>2. pc \in [workers -> Steps]
    BY <2>1, UpFacts DEF IsUp
  <2>3. Running' = Running
    BY <2>1, <2>2, RunningStays
  <2>4. phase # "done" /\ phase' # "done"
    BY <1>4, StepIsNotTheEnd DEF Work
  <2> QED BY <2>1, <2>3, <2>4 DEF Dag!dagVars
<1> QED BY <1>1, <1>2, <1>3, <1>4 DEF Main

\* Every run executes the dependency graph of its table: entries begin at
\* most once, after all they wait for, on harts that are free, and when the
\* run ends regularly none has been left out.
THEOREM WalkerImplementsDag == Spec => ImplementsDag
<1>1. Init => Dag!Init
  BY DEF Init, Dag!Init, Running
<1>2. WalkerInv /\ [Next]_vars => [Dag!Next]_(Dag!dagVars)
  <2> SUFFICES ASSUME WalkerInv, [Next]_vars PROVE [Dag!Next]_(Dag!dagVars)
    OBVIOUS
  <2>1. CASE (Main /\ ~Join) \/ Tick \/ UNCHANGED vars
    BY <2>1, OthersStutter
  <2>3. CASE Join
    BY <2>3, JoinReturns DEF Dag!Next
  <2>2. ASSUME NEW v \in workers, Work(v) PROVE [Dag!Next]_(Dag!dagVars)
    <3>1. CASE BeginKernel(v) \/ EndKernel(v) \/ PassGate(v)
      BY <3>1, BeginKernelStarts, EndKernelFinishes, PassGateSkips
    <3>2. CASE \/ TakeDep(v) \/ LockHart(v) \/ UnlockHart(v) \/ CountDispatch(v)
               \/ Capture(v) \/ Give(v) \/ NextEntry(v)
      BY <3>2, OthersStutter
    <3> QED BY <2>2, <3>1, <3>2 DEF Work
  <2> QED BY <2>1, <2>2, <2>3 DEF Next
<1> QED BY <1>1, <1>2, WalkerInvariant, PTL DEF Spec, ImplementsDag, Dag!Spec

(***************************************************************************)
(* The tokens balance.                                                     *)
(***************************************************************************)
\* The consumers of an entry that have taken its semaphore.
Taken(e) == { c \in Consumers(table, e) :
                \E u \in workers : c \in Claimed(u) /\ Took(u, c, e) }

\* There are finitely many.
LEMMA TakenFinite ==
  ASSUME WalkerInv, NEW e
  PROVE  IsFiniteSet(Taken(e)) /\ Cardinality(Taken(e)) \in Nat
<1>1. IsFiniteSet(Entries(table))
  BY WalkerAssumption DEF WalkerInv, TypeOK, IsTable
<1>2. Taken(e) \subseteq Entries(table)
  BY DEF Taken, Consumers
<1> QED BY <1>1, <1>2, FS_Subset, FS_CardinalityType

\* A step that gives no token and takes none keeps the balance.
LEMMA BalanceFrame ==
  ASSUME WalkerInv, IsUp, TokensBalance, UNCHANGED << table, workers, unbound, sem >>,
         \A u \in workers : \A e \in Claimed(u) :
           /\ Given(u, e)' = Given(u, e)
           /\ \A p \in Preds(table, e) : Took(u, e, p)' <=> Took(u, e, p)
  PROVE  TokensBalance'
<1>1. \A u : Claimed(u)' = Claimed(u)
  BY ClaimsStay
<1>2. ASSUME NEW p \in Entries(table) PROVE Taken(p)' = Taken(p)
  BY <1>1 DEF Taken, Consumers
<1> QED BY <1>1, <1>2 DEF TokensBalance, Taken

\* A worker that moves among the steps at its entry gives and takes nothing.
LEMMA BalanceStays ==
  ASSUME WalkerInv, TokensBalance, NEW v \in workers, phase \in { "spawn", "join" },
         UNCHANGED << table, workers, unbound, sem, at >>,
         NEW s \in Steps,
         \/ UNCHANGED << pc, i >>
         \/ pc' = [pc EXCEPT ![v] = s] /\ s \notin { "unborn", "deps", "exited" }
            /\ \/ pc[v] \in { "lock", "kernel", "unlock", "count", "capture" } /\ i' = i
               \/ pc[v] = "deps" /\ i' = [i EXCEPT ![v] = 0]
                  /\ i[v] = Len(TakeSeq(table, at[v]))
  PROVE  TokensBalance'
<1>0. IsUp
  BY DEF IsUp
<1>1. CASE UNCHANGED << pc, i >>
  BY <1>0, <1>1, BalanceFrame DEF Given, Took, Passed
<1>2. CASE /\ pc' = [pc EXCEPT ![v] = s] /\ s \notin { "unborn", "deps", "exited" }
           /\ pc[v] \notin { "unborn", "exited", "give" }
           /\ \/ pc[v] \in { "lock", "kernel", "unlock", "count", "capture" } /\ i' = i
              \/ pc[v] = "deps" /\ i' = [i EXCEPT ![v] = 0]
                 /\ i[v] = Len(TakeSeq(table, at[v]))
  <2>1. /\ pc \in [workers -> Steps] /\ at[v] \in Claimed(v) /\ at[v] \in Entries(table)
        /\ IsTable(table) /\ i \in [workers -> Nat] /\ WalkOf(v)
    BY <1>2, AtEntry
  <2>2. i'[v] = 0
    BY <1>2, <2>1 DEF WalkOf
  <2>3. \A u \in workers \ { v } : pc'[u] = pc[u] /\ i'[u] = i[u]
    BY <1>2, <2>1
  <2>4. pc'[v] = s
    BY <1>2, <2>1
  <2>5. \A e : Passed(v, e)' <=> Passed(v, e)
    BY <1>2, <2>4 DEF Passed
  <2>6. ASSUME NEW e \in Claimed(v) PROVE Given(v, e)' = Given(v, e)
    BY <1>2, <2>2, <2>4, <2>5 DEF Given
  <2>7. ASSUME NEW e \in Claimed(v), NEW p \in Preds(table, e)
        PROVE  Took(v, e, p)' <=> Took(v, e, p)
    <3>1. ASSUME pc[v] = "deps", at[v] = e
          PROVE  \E j \in 1 .. i[v] : TakeSeq(table, e)[j] = p
      <4>1. i[v] = Len(TakeSeq(table, e))
        BY <1>2, <3>1
      <4> QED BY <2>1, <2>7, <3>1, <4>1, TakesAreDependencies
    <3> QED BY <1>2, <2>4, <2>5, <3>1 DEF Took
  <2>8. ASSUME NEW u \in workers \ { v }, NEW e
        PROVE  /\ Given(u, e)' = Given(u, e)
               /\ \A p : Took(u, e, p)' <=> Took(u, e, p)
    BY <2>3 DEF Given, Took, Passed
  <2> QED BY <1>0, <2>6, <2>7, <2>8, BalanceFrame
<1> QED BY <1>1, <1>2

\* A worker that goes on has given all its tokens, and has taken none for the
\* entry it comes to.
LEMMA BalanceMoves ==
  ASSUME WalkerInv, IsUp, TokensBalance, NEW v \in workers,
         UNCHANGED << table, workers, unbound, sem >>,
         \/ pc[v] = "unborn" /\ MoveTo(v, Claimed(v))
         \/ /\ pc[v] = "give" /\ i[v] = table[at[v]].fanout
            /\ MoveTo(v, { e \in Claimed(v) : e > at[v] })
  PROVE  TokensBalance'
<1> DEFINE S == IF pc[v] = "give" THEN { e \in Claimed(v) : e > at[v] } ELSE Claimed(v)
<1>0. /\ WalkOf(v) /\ pc \in [workers -> Steps] /\ at \in [workers -> Nat]
      /\ Claimed(v) \subseteq Nat
  BY UpFacts DEF WalkerInv, IsTable
<1>1. /\ i'[v] = 0
      /\ \A u \in workers \ { v } : pc'[u] = pc[u] /\ at'[u] = at[u] /\ i'[u] = i[u]
      /\ \/ S = {} /\ pc'[v] = "exited" /\ at' = at
         \/ pc'[v] = "deps" /\ at'[v] \in S /\ \A e \in S : at'[v] <= e
  <2>1. S \subseteq Claimed(v) /\ MoveTo(v, S)
    OBVIOUS
  <2> HIDE DEF S
  <2> QED BY <2>1, Moved
<1>2. ASSUME NEW e \in Claimed(v)
      PROVE  /\ Passed(v, e)' <=> pc[v] = "give" /\ e <= at[v]
             /\ Passed(v, e) <=> pc[v] = "give" /\ e < at[v]
  BY <1>0, <1>1 DEF Passed
<1>3. ASSUME NEW e \in Claimed(v) PROVE Given(v, e)' = Given(v, e)
  BY <1>0, <1>1, <1>2 DEF Given
<1>4. ASSUME NEW e \in Claimed(v), NEW p PROVE Took(v, e, p)' <=> Took(v, e, p)
  BY <1>0, <1>1, <1>2 DEF Took
<1>5. ASSUME NEW u \in workers \ { v }, NEW e
      PROVE  /\ Given(u, e)' = Given(u, e)
             /\ \A p : Took(u, e, p)' <=> Took(u, e, p)
  BY <1>1 DEF Given, Took, Passed
<1> QED BY <1>3, <1>4, <1>5, BalanceFrame

\* The token an entry waits for is one that it has not taken.
LEMMA NotTaken ==
  ASSUME WalkerInv, NEW v \in workers, phase \in { "spawn", "join" }, pc[v] = "deps",
         NEW c, c = at[v], IsInjective(table[c].deps), i[v] < Len(TakeSeq(table, c)),
         NEW p, p = TakeSeq(table, c)[i[v] + 1]
  PROVE  p \in Preds(table, c) /\ c \in Consumers(table, p) /\ c \notin Taken(p)
<1> DEFINE deps == TakeSeq(table, c)
<1>1. /\ pc \in [workers -> Steps] /\ c \in Claimed(v) /\ c \in Entries(table)
      /\ IsTable(table) /\ i \in [workers -> Nat] /\ IsUp /\ Claimed(v) \subseteq Nat
  BY AtEntry
<1>2. /\ deps \in Seq(Entries(table))
      /\ \A j, k \in 1 .. Len(deps) : deps[j] = deps[k] => j = k
      /\ \A q : (\E j \in 1 .. Len(deps) : deps[j] = q) => q \in Preds(table, c)
  BY <1>1, TakesAreDependencies
<1>3. i[v] < Len(deps) /\ p = deps[i[v] + 1]
  OBVIOUS
<1> HIDE DEF deps
<1>4. i[v] + 1 \in 1 .. Len(deps) /\ Len(deps) \in Nat
  BY <1>1, <1>2, <1>3
<1>5. p \in Preds(table, c) /\ c \in Consumers(table, p)
  BY <1>1, <1>2, <1>3, <1>4 DEF Consumers
<1>6. ASSUME NEW u \in workers, c \in Claimed(u) PROVE ~Took(u, c, p)
  <2>1. u = v
    BY <1>1, <1>6, UpFacts
  <2>2. ~Passed(v, c)
    BY <1>1 DEF Passed
  <2>3. \A j \in 1 .. i[v] : deps[j] # p
    BY <1>1, <1>2, <1>3, <1>4
  <2> QED BY <2>1, <2>2, <2>3 DEF Took, deps
<1> QED BY <1>5, <1>6 DEF Taken

\* A token that is taken is one that its entry had not taken before.
LEMMA BalanceTakes ==
  ASSUME WalkerInv, TokensBalance, NEW v \in workers, TakeDep(v),
         NEW c, c = at[v], NEW p, p = TakeSeq(table, c)[i[v] + 1]
  PROVE  TokensBalance'
<1> DEFINE deps == TakeSeq(table, c)
<1>1. /\ phase \in { "spawn", "join" } /\ pc[v] = "deps"
      /\ UNCHANGED << table, workers, unbound, pc, at >>
      /\ i' = [i EXCEPT ![v] = @ + 1] /\ sem' = [sem EXCEPT ![p] = @ - 1]
      /\ i[v] < Len(deps)
  BY DEF TakeDep, Up, mainVars
<1>2. /\ pc \in [workers -> Steps] /\ c \in Claimed(v) /\ c \in Entries(table)
      /\ IsTable(table) /\ i \in [workers -> Nat] /\ sem \in [Entries(table) -> Nat]
      /\ IsUp /\ Claimed(v) \subseteq Nat
  BY <1>1, AtEntry
<1>3. SUFFICES ASSUME WellFormed(table, SemLimit)
               PROVE  TokensBalance'
  BY <1>1 DEF TokensBalance
<1>4. /\ deps \in Seq(Entries(table)) /\ i[v] + 1 \in 1 .. Len(deps)
      /\ \A j, k \in 1 .. Len(deps) : deps[j] = deps[k] => j = k
      /\ p \in Preds(table, c) /\ p \in Entries(table)
  <2>1. IsInjective(table[c].deps)
    BY <1>2, <1>3 DEF WellFormed, BalancedEdges
  <2>2. /\ deps \in Seq(Entries(table))
        /\ \A j, k \in 1 .. Len(deps) : deps[j] = deps[k] => j = k
        /\ \A q : (\E j \in 1 .. Len(deps) : deps[j] = q) => q \in Preds(table, c)
    BY <1>2, <2>1, TakesAreDependencies
  <2>3. p = deps[i[v] + 1]
    OBVIOUS
  <2> HIDE DEF deps
  <2>4. i[v] + 1 \in 1 .. Len(deps)
    BY <1>1, <1>2, <2>2
  <2> QED BY <2>2, <2>3, <2>4
<1>5. /\ i'[v] = i[v] + 1 /\ \A u \in workers \ { v } : i'[u] = i[u]
      /\ \A q \in Entries(table) : sem'[q] = IF q = p THEN sem[q] - 1 ELSE sem[q]
  BY <1>1, <1>2
<1>6. Claimed(v)' = Claimed(v) /\ \A u : Claimed(u)' = Claimed(u)
  BY <1>1, ClaimsStay
<1> HIDE DEF deps
<1>7. ASSUME NEW u \in workers, NEW e \in Claimed(u) PROVE Given(u, e)' = Given(u, e)
  BY <1>1, <1>5 DEF Given, Passed
<1>8. ASSUME NEW u \in workers, NEW d \in Claimed(u), NEW q
      PROVE  Took(u, d, q)' <=> Took(u, d, q) \/ (d = c /\ q = p /\ u = v)
  <2>1. CASE u # v
    BY <1>1, <1>5, <2>1 DEF Took, Passed
  <2>2. CASE u = v
    <3>1. \A e : Passed(v, e)' <=> Passed(v, e)
      BY <1>1 DEF Passed
    <3>2. (\E j \in 1 .. i[v] + 1 : deps[j] = q) <=> (\E j \in 1 .. i[v] : deps[j] = q) \/ q = p
      BY <1>2, <1>4 DEF deps
    <3> QED BY <1>1, <1>5, <2>2, <3>1, <3>2 DEF Took, deps
  <2> QED BY <2>1, <2>2
<1>9. IsInjective(table[c].deps)
  BY <1>2, <1>3 DEF WellFormed, BalancedEdges
<1>10. c \in Consumers(table, p) /\ c \notin Taken(p)
  BY <1>1, <1>9, NotTaken DEF deps
<1>11. Taken(p)' = Taken(p) \cup { c }
  BY <1>1, <1>2, <1>6, <1>8, <1>10 DEF Taken, Consumers
<1>12. ASSUME NEW q \in Entries(table), q # p PROVE Taken(q)' = Taken(q)
  BY <1>1, <1>6, <1>8, <1>12 DEF Taken, Consumers
<1>13. Cardinality(Taken(p)') = Cardinality(Taken(p)) + 1
  <2>1. Cardinality(Taken(p) \cup { c }) = Cardinality(Taken(p)) + 1
    BY <1>10, TakenFinite, FS_AddElement
  <2> QED BY <1>11, <2>1
<1>14. /\ DOMAIN sem = Entries(table)
       /\ \A e \in Entries(table), u \in workers : e \in Claimed(u) =>
            sem[e] = Given(u, e) - Cardinality(Taken(e))
  BY <1>2, <1>3 DEF TokensBalance, Taken
<1>15. \A e \in Entries(table), u \in workers : e \in Claimed(u) =>
         sem'[e] = Given(u, e)' - Cardinality(Taken(e)')
  <2> TAKE e \in Entries(table), u \in workers
  <2> HAVE e \in Claimed(u)
  <2>1. Given(u, e)' = Given(u, e) /\ sem[e] = Given(u, e) - Cardinality(Taken(e))
    BY <1>7, <1>14
  <2>2. Cardinality(Taken(e)) \in Nat /\ sem[e] \in Nat
    BY <1>2, TakenFinite
  <2>3. Given(u, e) \in Int
    <3>1. table[e].fanout \in Nat /\ i[u] \in Nat
      BY <1>2 DEF IsTable
    <3> QED BY <3>1 DEF Given
  <2>4. CASE e = p
    BY <1>5, <1>13, <2>1, <2>2, <2>3, <2>4
  <2>5. CASE e # p
    <3>1. Taken(e)' = Taken(e) /\ sem'[e] = sem[e]
      BY <1>5, <1>12, <2>5
    <3> QED BY <2>1, <3>1
  <2> QED BY <2>4, <2>5
<1> QED BY <1>1, <1>6, <1>15 DEF TokensBalance, Taken

\* A token that is given finds room: what the semaphore holds has been given
\* and is less than the fan-out.
LEMMA BalanceGives ==
  ASSUME WalkerInv, TokensBalance, NEW v \in workers, Give(v), NEW e, e = at[v]
  PROVE  TokensBalance'
<1>1. /\ phase \in { "spawn", "join" } /\ pc[v] = "give"
      /\ UNCHANGED << table, workers, unbound, pc, at >>
      /\ i' = [i EXCEPT ![v] = @ + 1] /\ i[v] < table[e].fanout
      /\ sem' = [sem EXCEPT ![e] = IF @ < SemLimit THEN @ + 1 ELSE @]
  BY DEF Give, Up, mainVars
<1>2. /\ pc \in [workers -> Steps] /\ e \in Claimed(v) /\ e \in Entries(table)
      /\ IsTable(table) /\ i \in [workers -> Nat] /\ sem \in [Entries(table) -> Nat]
      /\ IsUp /\ Claimed(v) \subseteq Nat
  BY <1>1, AtEntry
<1>3. SUFFICES ASSUME WellFormed(table, SemLimit)
               PROVE  TokensBalance'
  BY <1>1 DEF TokensBalance
<1>4. /\ DOMAIN sem = Entries(table)
      /\ \A d \in Entries(table), u \in workers : d \in Claimed(u) =>
           sem[d] = Given(u, d) - Cardinality(Taken(d))
  BY <1>2, <1>3 DEF TokensBalance, Taken
<1>5. \A u : Claimed(u)' = Claimed(u)
  BY <1>1, ClaimsStay
<1>6. ~Passed(v, e)
  BY <1>1, <1>2 DEF Passed
<1>7. Given(v, e) = i[v]
  BY <1>1, <1>6 DEF Given
<1>8. sem[e] < SemLimit
  <2>1. sem[e] = i[v] - Cardinality(Taken(e)) /\ Cardinality(Taken(e)) \in Nat
    BY <1>2, <1>4, <1>7, TakenFinite
  <2>2. table[e].fanout <= SemLimit /\ table[e].fanout \in Nat
    BY <1>2, <1>3 DEF WellFormed, Roomy, IsTable
  <2> QED BY <1>1, <1>2, <2>1, <2>2, WalkerAssumption
<1>9. /\ i'[v] = i[v] + 1 /\ \A u \in workers \ { v } : i'[u] = i[u]
      /\ \A d \in Entries(table) : sem'[d] = IF d = e THEN sem[d] + 1 ELSE sem[d]
  BY <1>1, <1>2, <1>8
<1>10. ASSUME NEW u \in workers, NEW d, NEW q PROVE Took(u, d, q)' <=> Took(u, d, q)
  BY <1>1, <1>9 DEF Took, Passed
<1>11. ASSUME NEW d PROVE Taken(d)' = Taken(d)
  BY <1>1, <1>5, <1>10 DEF Taken, Consumers
<1>12. ASSUME NEW u \in workers, NEW d \in Claimed(u)
       PROVE  Given(u, d)' = IF d = e THEN Given(u, d) + 1 ELSE Given(u, d)
  <2>1. Passed(u, d)' <=> Passed(u, d)
    BY <1>1 DEF Passed
  <2>2. d = e => u = v
    BY <1>2, UpFacts
  <2>3. CASE d = e
    BY <1>1, <1>6, <1>7, <1>9, <2>1, <2>2, <2>3 DEF Given
  <2>4. CASE d # e
    BY <1>1, <1>9, <2>1, <2>4 DEF Given
  <2> QED BY <2>3, <2>4
<1>13. \A d \in Entries(table), u \in workers : d \in Claimed(u) =>
         sem'[d] = Given(u, d)' - Cardinality(Taken(d)')
  <2> TAKE d \in Entries(table), u \in workers
  <2> HAVE d \in Claimed(u)
  <2>1. Given(u, d) \in Int /\ Cardinality(Taken(d)) \in Nat /\ sem[d] \in Nat
    <3>1. table[d].fanout \in Nat /\ i[u] \in Nat
      BY <1>2 DEF IsTable
    <3> QED BY <1>2, <3>1, TakenFinite DEF Given
  <2>2. Taken(d)' = Taken(d) /\ sem[d] = Given(u, d) - Cardinality(Taken(d))
    BY <1>4, <1>11
  <2>3. sem'[d] = IF d = e THEN sem[d] + 1 ELSE sem[d]
    BY <1>9
  <2>4. Given(u, d)' = IF d = e THEN Given(u, d) + 1 ELSE Given(u, d)
    BY <1>12
  <2> QED BY <2>1, <2>2, <2>3, <2>4
<1> QED BY <1>1, <1>5, <1>13 DEF TokensBalance, Taken

\* When the semaphores are initialised nothing has been given or taken.
LEMMA BalanceBegins ==
  ASSUME WalkerInv, InitSems
  PROVE  TokensBalance'
<1>1. /\ UNCHANGED << table, workers, unbound >>
      /\ sem' = [e \in Entries(table) |-> 0] /\ pc' = [v \in workers |-> "unborn"]
  BY DEF InitSems
<1>2. \A v \in workers : pc'[v] = "unborn"
  BY <1>1
<1>3. ASSUME NEW v \in workers, NEW e
      PROVE  Given(v, e)' = 0 /\ \A c : ~Took(v, c, e)'
  BY <1>2 DEF Given, Took, Passed
<1>4. ASSUME NEW e PROVE Taken(e)' = {}
  BY <1>1, <1>3 DEF Taken
<1>5. \A e \in Entries(table), v \in workers :
        sem'[e] = Given(v, e)' - Cardinality(Taken(e)')
  BY <1>1, <1>3, <1>4, FS_EmptySet
<1> QED BY <1>1, <1>5 DEF TokensBalance, Taken

\* "The counts balance": at any moment a semaphore holds what its entry has
\* given less what its consumers have taken, whatever the interleaving; no
\* token is lost at the semaphore's limit.
THEOREM TokensAlwaysBalance == Spec => []TokensBalance
<1>1. Init => TokensBalance
  <2> SUFFICES ASSUME Init, DOMAIN sem = Entries(table) PROVE TokensBalance
    BY DEF TokensBalance
  <2>1. Entries(table) = {}
    BY DEF Init
  <2> QED BY <2>1 DEF TokensBalance
<1>2. WalkerInv /\ TokensBalance /\ [Next]_vars => TokensBalance'
  <2> SUFFICES ASSUME WalkerInv, TokensBalance, [Next]_vars PROVE TokensBalance'
    OBVIOUS
  <2>1. CASE Discover
    <3>1. DOMAIN sem = {} /\ UNCHANGED << sem, table >>
      BY <2>1 DEF Discover, WalkerInv, UpInv
    <3> QED BY <3>1 DEF TokensBalance
  <2>2. CASE Audit \/ InitEntryRuntime \/ SpawnNone \/ Join \/ Tick \/ UNCHANGED vars
    <3>1. UNCHANGED << table, workers, unbound, sem, pc, at, i >>
      BY <2>2 DEF Audit, InitEntryRuntime, SpawnNone, Join, Tick, vars, mainVars
    <3>2. \A v : Claimed(v)' = Claimed(v)
      BY <3>1, ClaimsStay
    <3>3. \A v, e : /\ Given(v, e)' = Given(v, e)
                    /\ \A p : Took(v, e, p)' <=> Took(v, e, p)
      BY <3>1 DEF Given, Took, Passed
    <3>4. \A e : Taken(e)' = Taken(e)
      BY <3>1, <3>2, <3>3 DEF Taken, Consumers
    <3> QED BY <3>1, <3>2, <3>3, <3>4 DEF TokensBalance, Taken
  <2>3. CASE InitSems
    BY <2>3, BalanceBegins
  <2>4. ASSUME NEW v \in workers, Spawn(v) PROVE TokensBalance'
    <3>1. /\ phase \in { "spawn", "join" } /\ pc[v] = "unborn" /\ IsUp
          /\ UNCHANGED << table, workers, unbound, sem >>
          /\ MoveTo(v, Claimed(v)) \/ UNCHANGED << pc, at, i >>
      BY <2>4 DEF Spawn, IsUp
    <3>2. CASE MoveTo(v, Claimed(v))
      BY <3>1, <3>2, BalanceMoves
    <3>3. CASE UNCHANGED << pc, at, i >>
      BY <3>1, <3>3, BalanceStays DEF Steps
    <3> QED BY <3>1, <3>2, <3>3
  <2>5. ASSUME NEW v \in workers, NextEntry(v) PROVE TokensBalance'
    <3>1. /\ IsUp /\ pc[v] = "give" /\ UNCHANGED << table, workers, unbound, sem >>
          /\ i[v] = table[at[v]].fanout /\ MoveTo(v, { e \in Claimed(v) : e > at[v] })
      BY <2>5 DEF NextEntry, IsUp, Up, mainVars
    <3> QED BY <3>1, BalanceMoves
  <2>6. ASSUME NEW v \in workers, TakeDep(v) \/ Give(v) PROVE TokensBalance'
    BY <2>6, BalanceTakes, BalanceGives
  <2>7. ASSUME NEW v \in workers,
               \/ PassGate(v) \/ BeginKernel(v) \/ EndKernel(v) \/ LockHart(v)
               \/ UnlockHart(v) \/ CountDispatch(v) \/ Capture(v)
        PROVE  TokensBalance'
    <3>1. /\ phase \in { "spawn", "join" }
          /\ UNCHANGED << table, workers, unbound, sem, at >>
      BY <2>7 DEF PassGate, BeginKernel, EndKernel, LockHart, UnlockHart,
                  CountDispatch, Capture, Up, mainVars
    <3>2. pc \in [workers -> Steps]
      BY <3>1, UpFacts DEF IsUp
    <3>3. \/ UNCHANGED << pc, i >>
          \/ \E s \in { "lock", "kernel", "unlock", "count", "capture", "give" } :
               /\ pc' = [pc EXCEPT ![v] = s]
               /\ \/ pc[v] \in { "lock", "kernel", "unlock", "count", "capture" } /\ i' = i
                  \/ pc[v] = "deps" /\ i' = [i EXCEPT ![v] = 0]
                     /\ i[v] = Len(TakeSeq(table, at[v]))
      <4>1. CASE UnlockHart(v)
        <5>1. \/ pc' = [pc EXCEPT ![v] = "count"]
              \/ pc' = [pc EXCEPT ![v] = pc[v]]
          BY <4>1 DEF UnlockHart
        <5> QED BY <3>2, <4>1, <5>1 DEF UnlockHart, Up
      <4>2. CASE PassGate(v)
        BY <4>2 DEF PassGate, Up
      <4>3. CASE BeginKernel(v) \/ EndKernel(v) \/ LockHart(v)
        BY <4>3 DEF BeginKernel, EndKernel, LockHart, Up, mainVars
      <4>4. CASE CountDispatch(v) \/ Capture(v)
        BY <4>4 DEF CountDispatch, Capture, Up
      <4> QED BY <2>7, <4>1, <4>2, <4>3, <4>4
    <3> QED BY <3>1, <3>3, BalanceStays DEF Steps
  <2> QED BY <2>1, <2>2, <2>3, <2>4, <2>5, <2>6, <2>7 DEF Next, Main, Work
<1> QED BY <1>1, <1>2, WalkerInvariant, PTL DEF Spec

-----------------------------------------------------------------------------
(***************************************************************************)
(* No cycle of waiting.                                                    *)
(***************************************************************************)
\* If every worker at an entry is blocked, none of them waits for a mutex: one
\* that waits for the greatest hart would wait for a worker that waits for a
\* greater one.
LEMMA NoLockCycle ==
  ASSUME WalkerInv, phase \in { "spawn", "join" },
         \A v \in workers : pc[v] \notin { "unborn", "exited" } => Blocked(v)
  PROVE  \A v \in workers : pc[v] # "lock"
<1> DEFINE Waiting == { v \in workers : pc[v] = "lock" }
           H == { NextLock(v) : v \in Waiting }
<1>0. IsUp /\ OwnerInv
  BY DEF IsUp, WalkerInv
<1>1. ASSUME NEW v \in Waiting
      PROVE  /\ NextLock(v) \in LockSet(table, at[v]) \ Held(v)
             /\ NextLock(v) \in Hart0 /\ owner[NextLock(v)] # NoOne
  <2>1. Blocked(v) /\ at[v] \in Entries(table)
    BY AtEntry
  <2>2. ~ LockSet(table, at[v]) \subseteq Held(v) /\ owner[NextLock(v)] # NoOne
    BY <2>1 DEF Blocked
  <2>3. LockSet(table, at[v]) \subseteq Hart0 /\ Hart0 \subseteq Nat
    BY <1>0, <2>1, UpFacts DEF LockSet, Hart0
  <2> DEFINE S == LockSet(table, at[v]) \ Held(v)
  <2>4. S \subseteq Nat /\ S # {} /\ NextLock(v) = Least(S)
    BY <2>2, <2>3 DEF NextLock
  <2> HIDE DEF S
  <2>5. NextLock(v) \in S
    BY <2>4, NatHasLeast DEF Least
  <2> QED BY <2>2, <2>3, <2>5 DEF S
<1>2. SUFFICES ASSUME Waiting # {} PROVE FALSE
  OBVIOUS
<1>3. H # {} /\ H \subseteq Hart0
  BY <1>1, <1>2
<1>4. PICK h \in H : \A g \in H : g <= h
  <2> HIDE DEF H
  <2>1. /\ H \subseteq Int /\ H # {} /\ MaxHarts \in Int
        /\ \A g \in H : g <= MaxHarts
    BY <1>3, WalkerAssumption DEF Hart0
  <2>2. Greatest(H) \in H /\ \A g \in H : g <= Greatest(H)
    BY ONLY <2>1, GreatestIs
  <2> QED BY <2>2
<1>5. PICK v \in Waiting : h = NextLock(v)
  BY <1>4
<1> DEFINE u == owner[h]
<1>6. u \in workers /\ h \in Held(u)
  BY <1>0, <1>1, <1>5, UpFacts DEF Held
<1>7. pc[u] \in { "lock", "kernel", "unlock" }
  BY <1>0, <1>1, <1>5 DEF OwnerInv
<1>8. u \in Waiting
  BY <1>6, <1>7 DEF Blocked
<1>9. NextLock(u) \in LockSet(table, at[u]) \ Held(u) /\ NextLock(u) \in H
  BY <1>1, <1>8
<1>10. h < NextLock(u)
  <2>1. LocksOf(u)
    BY <1>6, <1>8, AtEntry
  <2> QED BY <1>6, <1>8, <1>9, <2>1 DEF LocksOf
<1>11. h \in Int /\ NextLock(u) \in Int
  BY <1>3, <1>4, <1>9 DEF Hart0
<1> HIDE DEF H, u
<1> QED BY <1>4, <1>9, <1>10, <1>11

\* The worker with the least entry cannot wait for a token: the producer is
\* past its entry and has given a token for every consumer.
LEMMA TokenIsThere ==
  ASSUME WalkerInv, TokensBalance, WellFormed(table, SemLimit), phase = "join",
         NEW v \in workers, pc[v] = "deps", i[v] < Len(TakeSeq(table, at[v])),
         \A u \in workers : pc[u] # "exited" => at[v] <= at[u],
         NEW c, c = at[v], NEW p, p = TakeSeq(table, c)[i[v] + 1]
  PROVE  sem[p] > 0
<1>1. /\ c \in Claimed(v) /\ c \in Entries(table) /\ IsTable(table) /\ IsUp
      /\ sem \in [Entries(table) -> Nat]
      /\ \A u \in workers : pc[u] # "unborn"
  BY AtEntry
<1>2. /\ IsInjective(table[c].deps)
      /\ \A q \in Preds(table, c) : q \in 0 .. c - 1
  BY <1>1 DEF WellFormed, BalancedEdges, BackwardEdges
<1>3. p \in Preds(table, c) /\ c \in Consumers(table, p) /\ c \notin Taken(p)
  BY <1>2, NotTaken
<1>4. p \in Entries(table) /\ p \in Nat /\ c \in Nat /\ p < c
  <2>1. Preds(table, c) \subseteq Entries(table)
    <3>1. /\ table[c].deps \in Seq(Entries(table))
          /\ table[c].tdep \in Entries(table) \cup { -1 }
      BY <1>1 DEF IsTable
    <3>2. \A j \in DOMAIN table[c].deps : table[c].deps[j] \in Entries(table)
      BY <3>1
    <3> QED BY <3>1, <3>2 DEF Preds, Range
  <2> QED BY <1>1, <1>2, <1>3, <2>1 DEF IsTable
<1>5. PICK u \in workers : p \in Claimed(u)
  BY <1>1, <1>4, UpFacts
<1>6. Passed(u, p)
  <2>1. at[u] \in Nat
    BY <1>1, UpFacts
  <2> QED BY <1>1, <1>4, <2>1 DEF Passed
<1>7. sem[p] = Cardinality(Consumers(table, p)) - Cardinality(Taken(p))
  <2>1. Given(u, p) = table[p].fanout
    BY <1>6 DEF Given
  <2>2. table[p].fanout = Cardinality(Consumers(table, p))
    BY <1>4 DEF WellFormed, BalancedEdges
  <2>3. sem[p] = Given(u, p) - Cardinality(Taken(p))
    BY <1>1, <1>4, <1>5 DEF TokensBalance, Taken
  <2> QED BY <2>1, <2>2, <2>3
<1>8. /\ IsFiniteSet(Consumers(table, p))
      /\ Taken(p) \subseteq Consumers(table, p) /\ Taken(p) # Consumers(table, p)
  <2>1. IsFiniteSet(Entries(table)) /\ Consumers(table, p) \subseteq Entries(table)
    BY <1>1 DEF IsTable, Consumers
  <2> QED BY <1>3, <2>1, FS_Subset DEF Taken
<1>9. Cardinality(Taken(p)) \in Nat /\ Cardinality(Consumers(table, p)) \in Nat
  BY <1>8, TakenFinite, FS_CardinalityType
<1>10. Cardinality(Taken(p)) < Cardinality(Consumers(table, p))
  <2> DEFINE C == Consumers(table, p)
             T == Taken(p)
  <2>1. Cardinality(T) <= Cardinality(C) /\ Cardinality(T) # Cardinality(C)
    <3> HIDE DEF T, C
    <3>1. IsFiniteSet(C) /\ T \subseteq C /\ T # C
      BY <1>8 DEF T, C
    <3> QED BY <3>1, FS_Subset
  <2> QED BY <1>9, <2>1
<1> QED BY <1>7, <1>9, <1>10

\* While a worker has not exited some worker can move, or time has still to
\* pass: backward edges and mutexes in ascending order leave no cycle.
THEOREM NoDeadlock == Spec => []NeverStuck
<1>1. WalkerInv /\ TokensBalance => NeverStuck
  <2> SUFFICES ASSUME WalkerInv, TokensBalance, phase = "join",
                      WellFormed(table, SemLimit), ~(now < Horizon),
                      \A v \in workers : pc[v] # "exited" => Blocked(v),
                      NEW w \in workers, pc[w] # "exited"
               PROVE  FALSE
    BY DEF NeverStuck
  <2>1. /\ IsUp /\ TypeOK /\ at \in [workers -> Nat]
        /\ \A v \in workers : pc[v] # "unborn"
    BY UpFacts DEF WalkerInv, UpInv, IsUp
  <2>2. \A v \in workers : pc[v] # "lock"
    BY NoLockCycle
  <2> DEFINE A == { at[v] : v \in { u \in workers : pc[u] # "exited" } }
  <2>3. PICK a \in A : \A b \in A : a <= b
    <3>1. A \subseteq Nat /\ A # {}
      BY <2>1
    <3> HIDE DEF A
    <3> QED BY <3>1, NatHasLeast
  <2>4. PICK v \in workers : pc[v] # "exited" /\ at[v] = a
    BY <2>3
  <2>5. \A u \in workers : pc[u] # "exited" => at[v] <= at[u]
    BY <2>3, <2>4
  <2>6. ~(table[at[v]].start > now)
    <3>1. at[v] \in Entries(table)
      BY <2>1, <2>4, AtEntry
    <3>2. table[at[v]].start <= Horizon /\ table[at[v]].start \in Nat
      BY <2>1, <3>1, WalkerAssumption DEF TypeOK, IsTable
    <3>3. now \in 0 .. Horizon
      BY <2>1 DEF TypeOK
    <3> QED BY <3>2, <3>3, WalkerAssumption
  <2>7. /\ pc[v] = "deps" /\ i[v] < Len(TakeSeq(table, at[v]))
        /\ sem[TakeSeq(table, at[v])[i[v] + 1]] = 0
    BY <2>2, <2>4, <2>6 DEF Blocked
  <2> QED BY <2>5, <2>7, TokenIsThere
<1> QED BY <1>1, WalkerInvariant, TokensAlwaysBalance, PTL

-----------------------------------------------------------------------------
(***************************************************************************)
(* The dispatches that are counted.                                        *)
(***************************************************************************)
\* Worker v has counted entry e.
HasCounted(v, e) ==
  Passed(v, e) \/ (at[v] = e /\ pc[v] \in { "capture", "give" })

\* The entries of instance n of network m that have been counted.
Counted(m, n) == { e \in KernelsOf(m, n) :
                     \E v \in DOMAIN pc : e \in Claimed(v) /\ HasCounted(v, e) }

\* completed_dispatches_<net>[instance] counts them, and no output is captured
\* before it has reached the model's number of dispatches.
CountInv ==
  /\ \A m \in Nets, n \in Instances :
       completed[<< m, n >>] = Cardinality(Counted(m, n))
  /\ \A m \in Nets :
       captured[m] # {} \/ (\E v \in DOMAIN pc : pc[v] = "capture" /\ table[at[v]].net = m)
         => 0 \in Instances /\ completed[<< m, 0 >>] >= OpCount[m]

\* There are finitely many.
LEMMA CountedFinite ==
  ASSUME WalkerInv, NEW m, NEW n
  PROVE  /\ IsFiniteSet(KernelsOf(m, n)) /\ Counted(m, n) \subseteq KernelsOf(m, n)
         /\ IsFiniteSet(Counted(m, n)) /\ Cardinality(Counted(m, n)) \in Nat
<1>1. IsFiniteSet(Entries(table))
  BY WalkerAssumption DEF WalkerInv, TypeOK, IsTable
<1>2. KernelsOf(m, n) \subseteq Entries(table) /\ Counted(m, n) \subseteq KernelsOf(m, n)
  BY DEF Counted, KernelsOf
<1>3. IsFiniteSet(KernelsOf(m, n))
  BY <1>1, <1>2, FS_Subset
<1> QED BY <1>2, <1>3, FS_Subset, FS_CardinalityType

\* A step that counts no dispatch and captures nothing.
LEMMA CountFrame ==
  ASSUME CountInv, UNCHANGED << table, workers, unbound, completed, captured >>,
         DOMAIN pc' = DOMAIN pc,
         \A v \in DOMAIN pc : \A e \in Claimed(v) :
           table[e].net \in Nets /\ table[e].disp >= 0 =>
             (HasCounted(v, e)' <=> HasCounted(v, e)),
         \A v \in DOMAIN pc : pc'[v] = "capture" => pc[v] = "capture" /\ at'[v] = at[v]
  PROVE  CountInv'
<1>1. \A v : Claimed(v)' = Claimed(v)
  BY ClaimsStay
<1>2. ASSUME NEW m \in Nets, NEW n PROVE Counted(m, n)' = Counted(m, n)
  <2>1. KernelsOf(m, n)' = KernelsOf(m, n)
    BY DEF KernelsOf
  <2>2. \A e \in KernelsOf(m, n) : table[e].net \in Nets /\ table[e].disp >= 0
    BY DEF KernelsOf
  <2> QED BY <1>1, <2>1, <2>2 DEF Counted
<1> QED BY <1>2 DEF CountInv

\* The dispatch that is counted had not been.
LEMMA CountDispatchCounts ==
  ASSUME WalkerInv, CountInv, NEW v \in workers, CountDispatch(v),
         NEW c, c = at[v], NEW m, m = table[c].net, NEW n, n = table[c].inst
  PROVE  CountInv'
<1>1. /\ phase \in { "spawn", "join" } /\ pc[v] = "count"
      /\ UNCHANGED << table, workers, unbound, at, captured >>
      /\ completed' = [completed EXCEPT ![<< m, n >>] = @ + 1]
      /\ pc' = [pc EXCEPT ![v] = IF completed'[<< m, n >>] = OpCount[m] /\ n = 0
                                   THEN "capture" ELSE "give"]
  BY DEF CountDispatch, Up, mainVars, IsLast
<1>2. /\ pc \in [workers -> Steps] /\ c \in Claimed(v) /\ c \in Entries(table)
      /\ IsTable(table) /\ IsUp /\ Claimed(v) \subseteq Nat /\ HasKernel(c)
      /\ completed \in [Nets \X Instances -> Nat] /\ TypeOK
  BY <1>1, AtEntry DEF WalkOf
<1>3. m \in Nets /\ n \in Instances
  BY <1>2 DEF HasKernel, Instances, TypeOK
<1>4. \A p \in Nets, q \in Instances :
        completed'[<< p, q >>] = IF p = m /\ q = n THEN completed[<< m, n >>] + 1
                                                   ELSE completed[<< p, q >>]
  <2> DEFINE D == Nets \X Instances
  <2>1. \A x \in D : completed'[x] = IF x = << m, n >> THEN completed[x] + 1
                                                        ELSE completed[x]
    <3>1. completed \in [D -> Nat] /\ << m, n >> \in D
      BY <1>2, <1>3
    <3> HIDE DEF D
    <3> QED BY <1>1, <3>1
  <2> QED BY <1>3, <2>1
<1>5. /\ \A u \in workers \ { v } : pc'[u] = pc[u]
      /\ pc'[v] \in { "capture", "give" }
      /\ pc'[v] = "capture" => n = 0 /\ completed'[<< m, n >>] = OpCount[m]
      /\ DOMAIN pc = workers /\ DOMAIN pc' = workers
  BY <1>1, <1>2
<1>6. \A u : Claimed(u)' = Claimed(u)
  BY <1>1, ClaimsStay
<1>7. ASSUME NEW u \in workers, NEW e \in Claimed(u)
      PROVE  HasCounted(u, e)' <=> HasCounted(u, e) \/ (u = v /\ e = c)
  <2>1. Passed(u, e)' <=> Passed(u, e)
    BY <1>1, <1>5 DEF Passed
  <2> QED BY <1>1, <1>5, <2>1 DEF HasCounted
<1>8. ASSUME NEW u \in workers, c \in Claimed(u) PROVE ~HasCounted(u, c)
  <2>1. u = v
    BY <1>2, <1>8, UpFacts
  <2> QED BY <1>1, <1>2, <2>1 DEF HasCounted, Passed
<1>9. c \in KernelsOf(m, n) /\ c \notin Counted(m, n)
  BY <1>2, <1>5, <1>8 DEF KernelsOf, Counted, HasKernel
<1>10. Counted(m, n)' = Counted(m, n) \cup { c }
  <2>1. KernelsOf(m, n)' = KernelsOf(m, n)
    BY <1>1 DEF KernelsOf
  <2> QED BY <1>2, <1>5, <1>6, <1>7, <1>9, <2>1 DEF Counted
<1>11. ASSUME NEW p, NEW q, ~(p = m /\ q = n)
       PROVE  Counted(p, q)' = Counted(p, q)
  <2>1. KernelsOf(p, q)' = KernelsOf(p, q) /\ c \notin KernelsOf(p, q)
    BY <1>1, <1>11 DEF KernelsOf
  <2> QED BY <1>5, <1>6, <1>7, <2>1 DEF Counted
<1>12. Cardinality(Counted(m, n)') = Cardinality(Counted(m, n)) + 1
  <2>1. Cardinality(Counted(m, n) \cup { c }) = Cardinality(Counted(m, n)) + 1
    BY <1>9, CountedFinite, FS_AddElement
  <2> QED BY <1>10, <2>1
<1>13. ASSUME NEW p \in Nets, NEW q \in Instances
       PROVE  completed'[<< p, q >>] = Cardinality(Counted(p, q)')
  <2>1. completed[<< p, q >>] = Cardinality(Counted(p, q))
    BY DEF CountInv
  <2>2. CASE p = m /\ q = n
    BY <1>4, <1>12, <2>1, <2>2
  <2>3. CASE ~(p = m /\ q = n)
    <3>1. Counted(p, q)' = Counted(p, q)
      BY <1>11, <2>3
    <3> QED BY <1>4, <2>1, <2>3, <3>1
  <2> QED BY <2>2, <2>3
<1>14. ASSUME NEW p \in Nets,
              \/ captured'[p] # {}
              \/ \E u \in DOMAIN pc' : pc'[u] = "capture" /\ table'[at'[u]].net = p
       PROVE  0 \in Instances /\ completed'[<< p, 0 >>] >= OpCount[p]
  <2>1. CASE captured[p] # {} \/ \E u \in workers : pc[u] = "capture" /\ table[at[u]].net = p
    <3>1. 0 \in Instances /\ completed[<< p, 0 >>] >= OpCount[p]
      BY <1>5, <2>1 DEF CountInv
    <3>2. completed[<< p, 0 >>] \in Nat /\ OpCount[p] \in Nat
      BY <1>2, <3>1, WalkerAssumption
    <3> QED BY <1>3, <1>4, <3>1, <3>2
  <2>2. CASE pc'[v] = "capture" /\ p = m
    BY <1>3, <1>5, <2>2, WalkerAssumption
  <2> QED BY <1>1, <1>5, <1>14, <2>1, <2>2
<1> QED BY <1>13, <1>14 DEF CountInv

\* The capture comes after the count that called for it.
LEMMA CaptureCounts ==
  ASSUME WalkerInv, CountInv, NEW v \in workers, Capture(v)
  PROVE  CountInv'
<1>1. /\ phase \in { "spawn", "join" } /\ pc[v] = "capture"
      /\ UNCHANGED << table, workers, unbound, at, completed >>
      /\ pc' = [pc EXCEPT ![v] = "give"]
      /\ \A m \in Nets : m # table[at[v]].net => captured'[m] = captured[m]
  <2>1. captured \in [Nets -> SUBSET Instances]
    BY AtEntry DEF Capture, Up
  <2> QED BY <2>1 DEF Capture, Up, mainVars
<1>2. pc \in [workers -> Steps]
  BY <1>1, AtEntry
<1>3. \A u : Claimed(u)' = Claimed(u)
  BY <1>1, ClaimsStay
<1>4. \A u \in DOMAIN pc : \A e : HasCounted(u, e)' <=> HasCounted(u, e)
  BY <1>1, <1>2 DEF HasCounted, Passed
<1>5. DOMAIN pc' = DOMAIN pc
  BY <1>1, <1>2
<1>6. ASSUME NEW m, NEW n PROVE Counted(m, n)' = Counted(m, n)
  <2>1. KernelsOf(m, n)' = KernelsOf(m, n)
    BY <1>1 DEF KernelsOf
  <2> QED BY <1>3, <1>4, <1>5, <2>1 DEF Counted
<1>7. ASSUME NEW m \in Nets,
             \/ captured'[m] # {}
             \/ \E u \in DOMAIN pc' : pc'[u] = "capture" /\ table'[at'[u]].net = m
      PROVE  \/ captured[m] # {}
             \/ \E u \in DOMAIN pc : pc[u] = "capture" /\ table[at[u]].net = m
  BY <1>1, <1>2, <1>7
<1> QED BY <1>1, <1>6, <1>7 DEF CountInv

\* "Numeric verification belongs to the LAST completed dispatch": an output is
\* captured only after every dispatch of instance 0 has ended, if the table
\* has as many of them as the model.
THEOREM CaptureIsLate == Spec => []CaptureAfterInstance0
<1>1. Init => CountInv
  <2> SUFFICES ASSUME Init PROVE CountInv
    OBVIOUS
  <2>1. DOMAIN pc = {}
    BY DEF Init
  <2>2. \A m, n : Counted(m, n) = {}
    BY <2>1 DEF Counted
  <2>3. \A m \in Nets, n \in Instances : completed[<< m, n >>] = 0
    BY DEF Init
  <2>4. \A m \in Nets : captured[m] = {}
    BY DEF Init
  <2> QED BY <2>1, <2>2, <2>3, <2>4, FS_EmptySet DEF CountInv
<1>2. WalkerInv /\ CountInv /\ [Next]_vars => CountInv'
  <2> SUFFICES ASSUME WalkerInv, CountInv, [Next]_vars PROVE CountInv'
    OBVIOUS
  <2>1. CASE Discover \/ InitSems
    <3>1. /\ DOMAIN pc = {} /\ \A v \in DOMAIN pc' : pc'[v] = "unborn"
          /\ UNCHANGED << table, completed, captured >>
      BY <2>1 DEF Discover, InitSems, WalkerInv, UpInv, rest
    <3>2. ASSUME NEW m, NEW n PROVE Counted(m, n) = {} /\ Counted(m, n)' = {}
      BY <3>1 DEF Counted, HasCounted, Passed
    <3> QED BY <3>1, <3>2 DEF CountInv
  <2>2. CASE Audit \/ InitEntryRuntime \/ SpawnNone \/ Join \/ Tick \/ UNCHANGED vars
    <3>1. UNCHANGED << table, workers, unbound, pc, at, completed, captured >>
      BY <2>2 DEF Audit, InitEntryRuntime, SpawnNone, Join, Tick, vars, mainVars, rest
    <3>2. \A v, e : HasCounted(v, e)' <=> HasCounted(v, e)
      BY <3>1 DEF HasCounted, Passed
    <3> QED BY <3>1, <3>2, CountFrame
  <2>3. ASSUME NEW v \in workers, Spawn(v) \/ NextEntry(v) PROVE CountInv'
    <3>1. /\ IsUp /\ pc[v] \in { "unborn", "give" }
          /\ UNCHANGED << table, workers, unbound, completed, captured >>
          /\ \/ pc[v] = "unborn" /\ MoveTo(v, Claimed(v))
             \/ pc[v] = "give" /\ MoveTo(v, { e \in Claimed(v) : e > at[v] })
             \/ UNCHANGED << pc, at >>
      BY <2>3 DEF Spawn, NextEntry, IsUp, Up, mainVars, rest
    <3>2. /\ pc \in [workers -> Steps] /\ at \in [workers -> Nat] /\ WalkOf(v)
          /\ Claimed(v) \subseteq Nat
      BY <3>1, UpFacts DEF WalkerInv, IsTable
    <3>3. CASE UNCHANGED << pc, at >>
      <4>1. \A u, e : HasCounted(u, e)' <=> HasCounted(u, e)
        BY <3>3 DEF HasCounted, Passed
      <4> QED BY <3>1, <3>3, <4>1, CountFrame
    <3>4. ASSUME NEW S \in SUBSET Claimed(v), MoveTo(v, S),
                 S = IF pc[v] = "give" THEN { e \in Claimed(v) : e > at[v] }
                                       ELSE Claimed(v)
          PROVE  CountInv'
      <4>1. /\ pc' \in [workers -> Steps]
            /\ \A u \in workers \ { v } : pc'[u] = pc[u] /\ at'[u] = at[u]
            /\ \/ S = {} /\ pc'[v] = "exited" /\ at' = at
               \/ pc'[v] = "deps" /\ at'[v] \in S /\ \A e \in S : at'[v] <= e
        BY <3>1, <3>4, Moved
      <4>2. \A e \in Claimed(v) : HasCounted(v, e)' <=> HasCounted(v, e)
        BY <3>1, <3>2, <3>4, <4>1 DEF HasCounted, Passed
      <4>3. \A u \in workers \ { v } : \A e : HasCounted(u, e)' <=> HasCounted(u, e)
        BY <4>1 DEF HasCounted, Passed
      <4> QED BY <3>1, <3>2, <4>1, <4>2, <4>3, CountFrame
    <3> QED BY <3>1, <3>3, <3>4
  <2>4. ASSUME NEW v \in workers,
               \/ TakeDep(v) \/ PassGate(v) \/ LockHart(v) \/ BeginKernel(v)
               \/ EndKernel(v) \/ UnlockHart(v) \/ Give(v)
        PROVE  CountInv'
    <3>1. /\ phase \in { "spawn", "join" }
          /\ UNCHANGED << table, workers, unbound, at, completed, captured >>
      BY <2>4 DEF TakeDep, PassGate, LockHart, BeginKernel, EndKernel, UnlockHart,
                  Give, Up, mainVars, rest
    <3>2. pc \in [workers -> Steps]
      BY <3>1, UpFacts DEF IsUp
    <3>3. \/ pc' = pc
          \/ /\ pc[v] \in { "deps", "lock", "kernel", "unlock" }
             /\ \/ \E s \in { "lock", "kernel", "unlock", "count" } :
                     pc' = [pc EXCEPT ![v] = s]
                \/ pc' = [pc EXCEPT ![v] = "give"] /\ ~HasKernel(at[v])
      <4>1. CASE UnlockHart(v)
        <5>1. \/ pc' = [pc EXCEPT ![v] = "count"]
              \/ pc' = [pc EXCEPT ![v] = pc[v]]
          BY <4>1 DEF UnlockHart
        <5> QED BY <3>2, <4>1, <5>1 DEF UnlockHart, Up
      <4>2. CASE PassGate(v)
        BY <4>2 DEF PassGate, Up
      <4>3. CASE TakeDep(v) \/ LockHart(v) \/ BeginKernel(v) \/ EndKernel(v) \/ Give(v)
        BY <4>3 DEF TakeDep, LockHart, BeginKernel, EndKernel, Give, Up, mainVars
      <4> QED BY <2>4, <4>1, <4>2, <4>3
    <3>4. ASSUME NEW u \in workers, NEW e \in Claimed(u),
                 table[e].net \in Nets /\ table[e].disp >= 0
          PROVE  HasCounted(u, e)' <=> HasCounted(u, e)
      <4>1. Passed(u, e)' <=> Passed(u, e)
        BY <3>1, <3>2, <3>3 DEF Passed
      <4>2. u = v /\ at[v] = e => HasKernel(at[v])
        BY <3>4 DEF HasKernel
      <4> QED BY <3>1, <3>2, <3>3, <4>1, <4>2 DEF HasCounted
    <3>5. /\ DOMAIN pc' = workers /\ DOMAIN pc = workers
          /\ \A u \in workers : pc'[u] = "capture" => pc[u] = "capture"
      BY <3>2, <3>3
    <3> QED BY <3>1, <3>4, <3>5, CountFrame
  <2>5. ASSUME NEW v \in workers, CountDispatch(v) \/ Capture(v) PROVE CountInv'
    BY <2>5, CountDispatchCounts, CaptureCounts
  <2> QED BY <2>1, <2>2, <2>3, <2>4, <2>5 DEF Next, Main, Work
<1>3. WalkerInv /\ CountInv => CaptureAfterInstance0
  <2> SUFFICES ASSUME WalkerInv, CountInv, NEW m \in Nets, captured[m] # {},
                      Cardinality(KernelsOf(m, 0)) = OpCount[m]
               PROVE  KernelsOf(m, 0) \subseteq ended
    BY DEF CaptureAfterInstance0
  <2>1. completed[<< m, 0 >>] = Cardinality(Counted(m, 0))
        /\ completed[<< m, 0 >>] >= OpCount[m]
    BY DEF CountInv
  <2> DEFINE K == KernelsOf(m, 0)
             C == Counted(m, 0)
  <2>2. IsFiniteSet(K) /\ C \in SUBSET K /\ Cardinality(C) \in Nat
    BY CountedFinite
  <2>3. Cardinality(C) >= Cardinality(K)
    BY <2>1
  <2>4. K = C
    <3> HIDE DEF K, C
    <3>1. Cardinality(C) <= Cardinality(K) /\ Cardinality(K) \in Nat
      BY <2>2, FS_Subset, FS_CardinalityType
    <3>2. Cardinality(K) = Cardinality(C)
      BY <2>2, <2>3, <3>1
    <3> QED BY <2>2, <3>2, FS_Subset
  <2>5. \A v \in DOMAIN pc : \A e \in Claimed(v) : HasCounted(v, e) => e \in ended
    BY DEF WalkerInv, WalkOf, HasCounted, HasEnded
  <2> QED BY <2>4, <2>5 DEF Counted
<1> QED BY <1>1, <1>2, <1>3, WalkerInvariant, PTL DEF Spec
=============================================================================
