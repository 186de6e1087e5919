----------------------------- MODULE BuildCache -----------------------------
(***************************************************************************)
(* The shared build cache of pipeline/build_cache.py: processes that ask   *)
(* for the product of a source under the digest of what it depends on,     *)
(* with one directory of products and stored compile errors, one file lock *)
(* per key, a lock wait that times out, and eviction by whoever has just   *)
(* built.  A step is one system call on the shared directory.              *)
(***************************************************************************)
EXTENDS Integers, FiniteSets, Functions

CONSTANTS
  Workers,      \* processes with one thread each
  Versions,     \* contents the source (with its headers) can have
  Bad,          \* those the compiler rejects
  LockWait,     \* wait_s of _flock
  NegTtl,       \* KERNELBLASTER_BUILD_CACHE_NEG_TTL
  Refresh,      \* age at which a hit refreshes the product's mtime (60 s)
  MinAge,       \* min_age of evict
  Cap, Keep,    \* KERNELBLASTER_BUILD_CACHE_MAX_GB and 80% of it, in entries
  EvictEvery,   \* misses between two evictions (20)
  EditAnyTime,  \* may the source change while a request is under way?
  Failures,     \* may a compiler be killed, and a worker die?
  Horizon,      \* bound of the clock
  MaxRequests   \* bound of the number of requests

NoOne == "no one"

ASSUME CacheAssumption ==
  /\ NoOne \notin Workers
  /\ Bad \subseteq Versions
  /\ LockWait \in Nat /\ NegTtl \in Nat /\ Refresh \in Nat /\ MinAge \in Nat
  /\ Cap \in Nat /\ Keep \in Nat /\ Keep <= Cap
  /\ EvictEvery \in Nat \ { 0 } /\ Horizon \in Nat /\ MaxRequests \in Nat

VARIABLES
  now,          \* time.time()
  source,       \* what the source holds
  store,        \* the directory: its files, with their content and mtime
  lock,         \* the flock of each key: its holder, or NoOne
  pc,           \* where each worker is in cached_build
  asked,        \* the version its source had when it computed the key
  since,        \* when it began to wait for the lock
  tmp,          \* the version its compiler read, and when it had finished
  answer,       \* what it returns, or has returned last
  requests,     \* how many there have been
  misses,       \* st["misses"]
  scan,         \* evict: the directory as it was scanned, ents
  scanned,      \* evict: when that began
  clock,        \* evict: its now, read when it has ended
  total,        \* evict: what is thought to be left
  victim,       \* evict: the product whose .meta is to be unlinked next
  barged        \* history: keys whose lock somebody did not wait for any longer

vars == << now, source, store, lock, pc, asked, since, tmp, answer, requests,
           misses, scan, scanned, clock, total, victim, barged >>

evicting == << scan, scanned, clock, total, victim >>

\* Without what the key digests.
Key_NoSource(v) == CHOOSE w \in Versions : TRUE

\* key_of(): the digest tells the versions apart.
Key(v) == v

Bin(v) == << "bin", Key(v) >>
Err(v) == << "err", Key(v) >>
Meta(v) == << "meta", Key(v) >>
Files  == { "bin", "err", "meta" } \X Versions

Exists(f) == f \in DOMAIN store

Put(f, v, t) ==
  store' = [g \in DOMAIN store \cup { f } |->
              IF g = f THEN [of |-> v, mtime |-> t] ELSE store[g]]

Holds(p) == lock[Key(asked[p])] = p

Init ==
  /\ now = 0
  /\ source \in Versions
  /\ store = << >>
  /\ lock = [v \in Versions |-> NoOne]
  /\ pc = [p \in Workers |-> "idle"]
  /\ asked = [p \in Workers |-> source]
  /\ since = [p \in Workers |-> 0]
  /\ tmp = [p \in Workers |-> [of |-> source, mtime |-> 0]]
  /\ answer = [p \in Workers |-> [kind |-> "none", of |-> source]]
  /\ requests = 0
  /\ misses = [p \in Workers |-> 0]
  /\ scan = [p \in Workers |-> << >>]
  /\ scanned = [p \in Workers |-> 0]
  /\ clock = [p \in Workers |-> 0]
  /\ total = [p \in Workers |-> 0]
  /\ victim = [p \in Workers |-> {}]
  /\ barged = {}

Goto(p, step) == pc' = [pc EXCEPT ![p] = step]
Answer(p, k, v) == answer' = [answer EXCEPT ![p] = [kind |-> k, of |-> v]]

\* cached_build computes the key and calls build.
Request(p) ==
  /\ pc[p] = "idle" /\ requests < MaxRequests
  /\ requests' = requests + 1
  /\ asked' = [asked EXCEPT ![p] = source]
  /\ Goto(p, "hit")
  /\ Answer(p, "none", source)
  /\ tmp' = [tmp EXCEPT ![p] = [of |-> source, mtime |-> 0]]
  /\ UNCHANGED << now, source, store, lock, since, misses, evicting, barged >>

(***************************************************************************)
(* hit(): the product exists, its mtime is refreshed, it is linked.  build *)
(* tries it, and the stored error after it, before and with the lock.      *)
(***************************************************************************)
HitCheck(p) ==
  /\ pc[p] \in { "hit", "hit2" }
  /\ Goto(p, IF Exists(Bin(asked[p])) THEN "touch"
             ELSE IF pc[p] = "hit" THEN "neg" ELSE "neg2")
  /\ UNCHANGED << now, source, store, lock, asked, since, tmp, answer, requests,
                  misses, evicting, barged >>

\* A product that has gone meanwhile is no reason to stop yet.  One without
\* its .meta is not refreshed: that is read first, in the same try.
Touch(p) ==
  LET f == Bin(asked[p])
  IN  /\ pc[p] = "touch"
      /\ IF Exists(f) /\ Exists(Meta(asked[p])) /\ now - store[f].mtime > Refresh
           THEN Put(f, store[f].of, now) ELSE UNCHANGED store
      /\ Goto(p, "link")
      /\ UNCHANGED << now, source, lock, asked, since, tmp, answer, requests,
                      misses, evicting, barged >>

\* _link: neither a link nor a copy can be made of a product that has gone.
Link(p) ==
  LET f == Bin(asked[p])
  IN  /\ pc[p] = "link"
      /\ IF Exists(f) THEN Answer(p, "product", store[f].of)
                      ELSE Answer(p, "raised", asked[p])
      /\ Goto(p, "return")
      /\ UNCHANGED << now, source, store, lock, asked, since, tmp, requests,
                      misses, evicting, barged >>

NegCheck(p) ==
  LET f == Err(asked[p])
  IN  /\ pc[p] \in { "neg", "neg2" }
      /\ IF NegTtl > 0 /\ Exists(f) /\ now - store[f].mtime <= NegTtl
           THEN Answer(p, "error", store[f].of) /\ Goto(p, "return")
           ELSE /\ Goto(p, IF pc[p] = "neg" THEN "lock" ELSE "run")
                /\ UNCHANGED answer
      /\ since' = IF pc[p] = "neg" THEN [since EXCEPT ![p] = now] ELSE since
      /\ UNCHANGED << now, source, store, lock, asked, tmp, requests, misses,
                      evicting, barged >>

\* _flock has the lock.
Enter(p, step) ==
  /\ pc[p] = "lock"
  /\ lock' = [lock EXCEPT ![Key(asked[p])] = p]
  /\ Goto(p, step)
  /\ since' = [since EXCEPT ![p] = 0]
  /\ UNCHANGED << now, source, store, asked, tmp, answer, requests, misses,
                  evicting, barged >>

\* Builds at once what was not there before the lock.
Lock_NoRecheck(p) == lock[Key(asked[p])] = NoOne /\ Enter(p, "run")

Lock(p) == lock[Key(asked[p])] = NoOne /\ Enter(p, "hit2")

\* After wait_s the worker goes on without the lock.
LockTimeout(p) ==
  /\ pc[p] = "lock"
  /\ lock[Key(asked[p])] # NoOne
  /\ now - since[p] > LockWait
  /\ barged' = barged \cup { Key(asked[p]) }
  /\ Goto(p, "hit2")
  /\ since' = [since EXCEPT ![p] = 0]
  /\ UNCHANGED << now, source, store, lock, asked, tmp, answer, requests,
                  misses, evicting >>

(***************************************************************************)
(* run(tmp), and what becomes of its result.                               *)
(***************************************************************************)

Verdict(v) == IF v \in Bad THEN "fail" ELSE "publish"

\* The compiler reads the source as it is now.
Compile(p) ==
  /\ pc[p] = "run"
  /\ tmp' = [tmp EXCEPT ![p] = [of |-> source, mtime |-> now]]
  /\ Goto(p, Verdict(source))
  /\ UNCHANGED << now, source, store, lock, asked, since, answer, requests,
                  misses, evicting, barged >>

\* It is killed, runs out of memory or time, or leaves no product.
CompileBreaks(p) ==
  /\ Failures /\ pc[p] = "run"
  /\ Answer(p, "broken", asked[p])
  /\ Goto(p, "return")
  /\ UNCHANGED << now, source, store, lock, asked, since, tmp, requests, misses,
                  evicting, barged >>

\* os.replace(tmp, dst).
Publish(p) ==
  /\ pc[p] = "publish"
  /\ Put(Bin(asked[p]), tmp[p].of, tmp[p].mtime)
  /\ Goto(p, "meta")
  /\ UNCHANGED << now, source, lock, asked, since, tmp, answer, requests,
                  misses, evicting, barged >>

\* If it cannot be written, nobody minds.
WriteMeta(p) ==
  /\ pc[p] = "meta"
  /\ \/ Put(Meta(asked[p]), tmp[p].of, now)
     \/ Failures /\ UNCHANGED store
  /\ misses' = [misses EXCEPT ![p] = (@ + 1) % EvictEvery]
  /\ Goto(p, "link")
  /\ UNCHANGED << now, source, lock, asked, since, tmp, answer, requests,
                  evicting, barged >>

StoreError(p) ==
  /\ pc[p] = "fail"
  /\ IF NegTtl > 0 THEN Put(Err(asked[p]), tmp[p].of, now) ELSE UNCHANGED store
  /\ Answer(p, "error", tmp[p].of)
  /\ Goto(p, "return")
  /\ UNCHANGED << now, source, lock, asked, since, tmp, requests, misses,
                  evicting, barged >>

\* Keeps the lock.
Released_Never(p) == lock

Released(p) == IF Holds(p) THEN [lock EXCEPT ![Key(asked[p])] = NoOne] ELSE lock

\* The lock is released; who has a product looks after the cache's size, at
\* every EvictEvery-th miss, and at every hit until the next miss.
Return(p) ==
  /\ pc[p] = "return"
  /\ lock' = Released(p)
  /\ Goto(p, IF answer[p].kind = "product" /\ misses[p] = 0 THEN "scan" ELSE "idle")
  /\ UNCHANGED << now, source, store, asked, since, tmp, answer, requests,
                  misses, evicting, barged >>

(***************************************************************************)
(* evict(): the entries are listed, then unlinked from the oldest on.      *)
(***************************************************************************)
Listed == { f \in DOMAIN store : f[1] # "meta" }

\* The files are listed one by one; what changes meanwhile is newer than scanned.
Scan(p) ==
  /\ pc[p] = "scan"
  /\ scan' = [scan EXCEPT ![p] = Restrict(store, Listed)]
  /\ scanned' = [scanned EXCEPT ![p] = now]
  /\ total' = [total EXCEPT ![p] = Cardinality(Listed)]
  /\ Goto(p, "scanned")
  /\ UNCHANGED << now, source, store, lock, asked, since, tmp, answer, requests,
                  misses, clock, victim, barged >>

\* A file that another eviction unlinks during the scan fails this one.
ScanBreaks(p) ==
  /\ pc[p] = "scan"
  /\ \E q \in Workers : q # p /\ pc[q] = "evict"
  /\ Goto(p, "idle")
  /\ UNCHANGED << now, source, store, lock, asked, since, tmp, answer, requests,
                  misses, evicting, barged >>

EvictBegins(p) ==
  /\ pc[p] = "scanned"
  /\ total[p] > Cap
  /\ clock' = [clock EXCEPT ![p] = now]
  /\ Goto(p, "evict")
  /\ UNCHANGED << now, source, store, lock, asked, since, tmp, answer, requests,
                  misses, scan, scanned, total, victim, barged >>

\* Whatever its age.
Spares_None(p, f) == FALSE

Spares(p, f) == clock[p] - scan[p][f].mtime < MinAge

\* Unlinks the file that has the name now, whatever was scanned.
EvictOne(p, f) ==
  /\ pc[p] = "evict" /\ victim[p] = {} /\ f \in DOMAIN scan[p] /\ total[p] > Keep
  /\ \A g \in DOMAIN scan[p] : scan[p][f].mtime <= scan[p][g].mtime
  /\ scan' = [scan EXCEPT ![p] = Restrict(@, DOMAIN @ \ { f })]
  /\ IF Spares(p, f)
       THEN UNCHANGED << store, total, victim >>
       ELSE /\ store' = Restrict(store, DOMAIN store \ { f })
            /\ total' = [total EXCEPT ![p] = @ - 1]
            /\ victim' = [victim EXCEPT ![p] = { f }]
  /\ UNCHANGED << now, source, lock, pc, asked, since, tmp, answer, requests,
                  misses, scanned, clock, barged >>

\* Its .meta, if it is a product that has one.
EvictMeta(p) ==
  /\ pc[p] = "evict" /\ victim[p] # {}
  /\ store' = Restrict(store, DOMAIN store \ { << "meta", f[2] >> : f \in
                  { g \in victim[p] : g[1] = "bin" } })
  /\ victim' = [victim EXCEPT ![p] = {}]
  /\ UNCHANGED << now, source, lock, pc, asked, since, tmp, answer, requests,
                  misses, scan, scanned, clock, total, barged >>

Forget(p) ==
  /\ scan' = [scan EXCEPT ![p] = << >>]
  /\ scanned' = [scanned EXCEPT ![p] = 0]
  /\ clock' = [clock EXCEPT ![p] = 0]
  /\ total' = [total EXCEPT ![p] = 0]
  /\ victim' = [victim EXCEPT ![p] = {}]

EvictEnds(p) ==
  /\ \/ pc[p] = "scanned" /\ total[p] <= Cap
     \/ pc[p] = "evict" /\ victim[p] = {} /\ (total[p] <= Keep \/ DOMAIN scan[p] = {})
  /\ Forget(p)
  /\ Goto(p, "idle")
  /\ UNCHANGED << now, source, store, lock, asked, since, tmp, answer, requests,
                  misses, barged >>

(***************************************************************************)
(* The worker's process dies: the kernel releases its lock.  Another one   *)
(* takes its place.                                                        *)
(***************************************************************************)
Die(p) ==
  /\ Failures /\ pc[p] # "idle"
  /\ lock' = [v \in Versions |-> IF lock[v] = p THEN NoOne ELSE lock[v]]
  /\ Goto(p, "idle")
  /\ Answer(p, "none", asked[p])
  /\ misses' = [misses EXCEPT ![p] = 0]
  /\ Forget(p)
  /\ UNCHANGED << now, source, store, asked, since, tmp, requests, barged >>

\* Someone changes the source, or one of its headers.
Edit(v) ==
  /\ EditAnyTime \/ \A p \in Workers : pc[p] \in { "idle", "scan", "scanned", "evict" }
  /\ source' = v /\ v # source
  /\ UNCHANGED << now, store, lock, pc, asked, since, tmp, answer, requests,
                  misses, evicting, barged >>

Tick ==
  /\ now < Horizon
  /\ now' = now + 1
  /\ UNCHANGED << source, store, lock, pc, asked, since, tmp, answer, requests,
                  misses, evicting, barged >>

Work(p) == \/ HitCheck(p) \/ Touch(p) \/ Link(p) \/ NegCheck(p)
           \/ Lock(p) \/ LockTimeout(p)
           \/ Compile(p) \/ CompileBreaks(p)
           \/ Publish(p) \/ WriteMeta(p) \/ StoreError(p)
           \/ Return(p)
           \/ Scan(p) \/ ScanBreaks(p) \/ EvictBegins(p)
           \/ EvictMeta(p) \/ EvictEnds(p)
           \/ \E f \in Files : EvictOne(p, f)

Next == \/ \E p \in Workers : Request(p) \/ Work(p) \/ Die(p)
        \/ \E v \in Versions : Edit(v)
        \/ Tick

Spec == Init /\ [][Next]_vars

(***************************************************************************)
(* A process that has a request under way is scheduled, and its compiler   *)
(* ends, by its time limit at the latest.                                  *)
(***************************************************************************)
FairSpec == Spec /\ \A p \in Workers : WF_vars(Work(p))

(***************************************************************************)
(* Properties.                                                             *)
(***************************************************************************)
Pc == { "idle", "hit", "hit2", "touch", "link", "neg", "neg2", "lock", "run",
        "publish", "meta", "fail", "return", "scan", "scanned", "evict" }
Answers == [kind : { "none", "product", "error", "broken", "raised" }, of : Versions]

IsDirectory(d) ==
  /\ d = [f \in DOMAIN d |-> d[f]]
  /\ DOMAIN d \subseteq Files /\ IsFiniteSet(DOMAIN d)
  /\ \A f \in DOMAIN d :
       d[f] \in [of : IF f[1] = "err" THEN Bad ELSE Versions \ Bad, mtime : Nat]

\* The variables keep their types: in particular the directory holds, under
\* the names the cache makes, products of what compiles and errors of what does
\* not, and nothing else.
TypeOK ==
  /\ now \in Nat /\ source \in Versions /\ IsDirectory(store)
  /\ lock \in [Versions -> Workers \cup { NoOne }]
  /\ pc \in [Workers -> Pc]
  /\ asked \in [Workers -> Versions] /\ since \in [Workers -> Nat]
  /\ tmp \in [Workers -> [of : Versions, mtime : Nat]]
  /\ answer \in [Workers -> Answers]
  /\ requests \in Nat /\ misses \in [Workers -> 0 .. EvictEvery - 1]
  /\ scan = [p \in Workers |-> scan[p]] /\ \A p \in Workers : IsDirectory(scan[p])
  /\ scanned \in [Workers -> Nat] /\ clock \in [Workers -> Nat]
  /\ total \in [Workers -> Nat] /\ victim \in [Workers -> SUBSET Files]
  /\ barged \subseteq Versions

(***************************************************************************)
(* The inductive invariant.                                                *)
(***************************************************************************)
Inside == { "hit2", "neg2", "run", "publish", "meta", "fail" }

InsideHolds ==
  \A p \in Workers : pc[p] \in Inside => Holds(p) \/ Key(asked[p]) \in barged

HolderInside ==
  \A v \in Versions, p \in Workers :
    lock[v] = p => v = Key(asked[p]) /\ pc[p] \in Inside \cup { "touch", "link", "return" }

StillMissing ==
  \A p \in Workers :
    pc[p] \in { "neg2", "run", "publish" } /\ Exists(Bin(asked[p]))
      => Key(asked[p]) \in barged

ResultIsTmp ==
  \A p \in Workers : /\ pc[p] \in { "publish", "meta" } => tmp[p].of \notin Bad
                     /\ pc[p] = "fail" => tmp[p].of \in Bad

\* What is still listed for eviction is there as it was listed, or is newer
\* than the list; and what is about to be published would be.
ScanIsStale ==
  \A p \in Workers :
    /\ scanned[p] <= now /\ clock[p] <= now
    /\ \A f \in DOMAIN scan[p] :
         /\ Exists(f) => \/ store[f].mtime = scan[p][f].mtime
                         \/ store[f].mtime >= scanned[p]
                         \/ f[2] \in barged
         /\ \A q \in Workers :
              pc[q] = "publish" /\ f = Bin(asked[q])
                => tmp[q].mtime >= scanned[p] \/ f[2] \in barged

\* As long as nobody edits the source in the middle of a request: each file is
\* of the version its key digests, a request is about the source as it is, and
\* so are the compiler's result and the answer.
Asking == Pc \ { "idle", "scan", "scanned", "evict" }

KeyTellsContent ==
  /\ \A f \in DOMAIN store : store[f].of = f[2]
  /\ \A p \in Workers :
       /\ pc[p] \in Asking => asked[p] = source
       /\ pc[p] \in { "publish", "meta", "fail" } => tmp[p].of = asked[p]
       /\ answer[p].of = asked[p]

\* A worker builds only with the lock or after its wait, what was missing is
\* missing still, and an eviction's list is stale only in what is newer.
CacheInv ==
  InsideHolds /\ HolderInside /\ StillMissing /\ ResultIsTmp /\ ScanIsStale

Building(p) == pc[p] \in { "run", "publish", "fail" }

\* No two workers build for one key at the same time, unless one of them had
\* waited for the lock in vain (build: the tests are repeated with the lock,
\* and the lock is held until the product or the error is there).
OneBuilder ==
  \A p, q \in Workers :
    p # q /\ Building(p) /\ Building(q) /\ Key(asked[p]) = Key(asked[q])
      => Key(asked[p]) \in barged

\* Nobody builds a product that is already there, again unless somebody went
\* on without the lock (build calls hit() once more with the lock).
BuildOnce ==
  \A p \in Workers :
    pc[p] \in { "run", "publish" } /\ Exists(Bin(asked[p]))
      => Key(asked[p]) \in barged

\* What a request finds under its key was made from what it asks for: a hit
\* never links the product, or returns the error, of another source (key_of).
HitIsCurrent ==
  \A p \in Workers : pc[p] = "hit" =>
    \A f \in { Bin(asked[p]), Err(asked[p]) } \cap DOMAIN store :
      store[f].of = asked[p]

Removed(f) == Exists(f) /\ f \notin DOMAIN store'

\* Eviction removes nothing that is younger than min_age, but for what was
\* refreshed or built again after it had scanned the directory, or was built
\* twice because of a wait given up (evict).
YoungSurvives ==
  [][\A f \in Files, p \in Workers :
       Removed(f) /\ EvictOne(p, f)
         => \/ now - store[f].mtime >= MinAge
            \/ store[f].mtime >= scanned[p]
            \/ f[2] \in barged]_vars

\* Every request comes back, with a product, an error or an exception, and so
\* does every eviction: nobody waits for a lock that nobody will release.
EveryRequestReturns == \A p \in Workers : pc[p] # "idle" ~> pc[p] = "idle"
=============================================================================
