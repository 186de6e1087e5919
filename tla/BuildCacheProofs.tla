-------------------------- MODULE BuildCacheProofs --------------------------
(***************************************************************************)
(* The build cache is safe for any number of workers and sources, whatever *)
(* the times are, with crashes, and with edits at any time;                *)
(* and where nobody edits a source in the middle of a request, its hits    *)
(* are current.                                                            *)
(***************************************************************************)
EXTENDS BuildCache, FiniteSetTheorems, TLAPS

USE DEF Goto, Answer

\* An answer put down for a worker is one (build returns, or raises).
LEMMA AnswerKeepsType ==
  ASSUME answer \in [Workers -> Answers], NEW p \in Workers, NEW v \in Versions,
         NEW k \in { "none", "product", "error", "broken", "raised" }, Answer(p, k, v)
  PROVE  answer' \in [Workers -> Answers]
<1>1. [kind |-> k, of |-> v] \in Answers
  BY DEF Answers
<1> QED
  BY <1>1

\* Counting modulo n (cached_build, every EvictEvery-th miss).
LEMMA CountInRange ==
  ASSUME NEW n \in Nat \ { 0 }, NEW i \in 0 .. n - 1
  PROVE  (i + 1) % n \in 0 .. n - 1
OBVIOUS

\* A file put into the directory keeps it a directory: what hit, run and the
\* storing of an error do to it.
LEMMA PutKeepsDirectory ==
  ASSUME NEW f \in Files, NEW v \in Versions, NEW t \in Nat,
         IsDirectory(store), Put(f, v, t), f[1] = "err" <=> v \in Bad
  PROVE  /\ IsDirectory(store')
         /\ DOMAIN store' = DOMAIN store \cup { f }
         /\ store'[f].mtime = t
         /\ \A g \in DOMAIN store : g # f => store'[g] = store[g]
BY FS_AddElement DEF Put, IsDirectory

\* A directory without some of its files is a directory: what evict does.
LEMMA RestrictKeepsDirectory ==
  ASSUME NEW d, NEW S, IsDirectory(d)
  PROVE  LET e == Restrict(d, DOMAIN d \ S)
         IN  /\ IsDirectory(e) /\ DOMAIN e = DOMAIN d \ S
             /\ \A g \in DOMAIN e : e[g] = d[g]
BY FS_Difference DEF Restrict, IsDirectory

\* The variables keep their types (build, evict).
LEMMA TypeStep == CacheInv /\ TypeOK /\ [Next]_vars => TypeOK'
<1> SUFFICES ASSUME CacheInv, TypeOK, [Next]_vars PROVE TypeOK'
  OBVIOUS
<1> USE CacheAssumption
<1>1. ASSUME NEW p \in Workers, Request(p) PROVE TypeOK'
  <2>1. answer' \in [Workers -> Answers]
    BY <1>1, AnswerKeepsType DEF TypeOK, Request
  <2> QED
    BY <1>1, <2>1 DEF TypeOK, Request, Pc, evicting
<1>2. ASSUME NEW p \in Workers, HitCheck(p) PROVE TypeOK'
  BY <1>2 DEF TypeOK, HitCheck, Pc, evicting
<1>3. ASSUME NEW p \in Workers, Touch(p) PROVE TypeOK'
  <2>1. CASE UNCHANGED store
    BY <1>3, <2>1 DEF TypeOK, Touch, Pc, evicting, IsDirectory
  <2>2. CASE Exists(Bin(asked[p])) /\ Put(Bin(asked[p]), store[Bin(asked[p])].of, now)
    <3>1. IsDirectory(store')
      BY <2>2, PutKeepsDirectory DEF TypeOK, Exists, Bin, Key, Files, IsDirectory
    <3> QED
      BY <1>3, <3>1 DEF TypeOK, Touch, Pc, evicting
  <2> QED
    BY <1>3, <2>1, <2>2 DEF Touch
<1>4. ASSUME NEW p \in Workers, Link(p) PROVE TypeOK'
  <2>1. Exists(Bin(asked[p])) => store[Bin(asked[p])].of \in Versions
    BY DEF TypeOK, IsDirectory, Exists, Bin, Key, Files
  <2> QED
    <3>1. answer' \in [Workers -> Answers]
      <4>1. CASE Exists(Bin(asked[p]))
        BY <1>4, <2>1, <4>1, AnswerKeepsType DEF TypeOK, Link
      <4>2. CASE ~Exists(Bin(asked[p]))
        BY <1>4, <4>2, AnswerKeepsType DEF TypeOK, Link
      <4> QED
        BY <4>1, <4>2
    <3> QED
      BY <1>4, <3>1 DEF TypeOK, Link, Pc, evicting
<1>5. ASSUME NEW p \in Workers, NegCheck(p) PROVE TypeOK'
  <2>1. Exists(Err(asked[p])) => store[Err(asked[p])].of \in Versions
    BY DEF TypeOK, IsDirectory, Exists, Err, Key, Files
  <2>2. answer' \in [Workers -> Answers]
    <3>1. CASE UNCHANGED answer
      BY <3>1 DEF TypeOK
    <3>2. CASE Exists(Err(asked[p])) /\ Answer(p, "error", store[Err(asked[p])].of)
      BY <2>1, <3>2, AnswerKeepsType DEF TypeOK
    <3> QED
      BY <1>5, <3>1, <3>2 DEF NegCheck
  <2>3. pc' \in [Workers -> Pc]
    BY <1>5 DEF TypeOK, NegCheck, Pc
  <2>4. since' \in [Workers -> Nat]
    BY <1>5 DEF TypeOK, NegCheck
  <2> QED
    BY <1>5, <2>2, <2>3, <2>4 DEF TypeOK, NegCheck, evicting
<1>6. ASSUME NEW p \in Workers, Lock(p) PROVE TypeOK'
  BY <1>6 DEF TypeOK, Lock, Enter, Pc, evicting, Key
<1>7. ASSUME NEW p \in Workers, LockTimeout(p) PROVE TypeOK'
  BY <1>7 DEF TypeOK, LockTimeout, Pc, evicting, Key
<1>8. ASSUME NEW p \in Workers, Compile(p) PROVE TypeOK'
  BY <1>8 DEF TypeOK, Compile, Verdict, Pc, evicting
<1>9. ASSUME NEW p \in Workers, CompileBreaks(p) PROVE TypeOK'
  <2>1. answer' \in [Workers -> Answers]
    BY <1>9, AnswerKeepsType DEF TypeOK, CompileBreaks
  <2> QED
    BY <1>9, <2>1 DEF TypeOK, CompileBreaks, Pc, evicting
<1>10. ASSUME NEW p \in Workers, Publish(p) PROVE TypeOK'
  <2>1. IsDirectory(store')
    BY <1>10, PutKeepsDirectory
       DEF TypeOK, CacheInv, ResultIsTmp, Publish, Bin, Key, Files
  <2> QED
    BY <1>10, <2>1 DEF TypeOK, Publish, Pc, evicting
<1>20. ASSUME NEW p \in Workers, WriteMeta(p) PROVE TypeOK'
  <2>1. UNCHANGED store => IsDirectory(store')
    BY DEF TypeOK, IsDirectory
  <2>2. Put(Meta(asked[p]), tmp[p].of, now) => IsDirectory(store')
    BY <1>20, PutKeepsDirectory
       DEF TypeOK, CacheInv, ResultIsTmp, WriteMeta, Meta, Key, Files
  <2>3. IsDirectory(store')
    BY <1>20, <2>1, <2>2 DEF WriteMeta
  <2>4. misses' \in [Workers -> 0 .. EvictEvery - 1]
    <3>1. (misses[p] + 1) % EvictEvery \in 0 .. EvictEvery - 1
      BY CountInRange DEF TypeOK
    <3> QED
      BY <1>20, <3>1 DEF TypeOK, WriteMeta
  <2> QED
    BY <1>20, <2>3, <2>4 DEF TypeOK, WriteMeta, Pc, evicting
<1>11. ASSUME NEW p \in Workers, StoreError(p) PROVE TypeOK'
  <2>1. UNCHANGED store => IsDirectory(store')
    BY DEF TypeOK, IsDirectory
  <2>2. Put(Err(asked[p]), tmp[p].of, now) => IsDirectory(store')
    BY <1>11, PutKeepsDirectory
       DEF TypeOK, CacheInv, ResultIsTmp, StoreError, Err, Key, Files
  <2>3. IsDirectory(store')
    BY <1>11, <2>1, <2>2 DEF StoreError
  <2>4. answer' \in [Workers -> Answers]
    BY <1>11, AnswerKeepsType DEF TypeOK, StoreError
  <2> QED
    BY <1>11, <2>3, <2>4 DEF TypeOK, StoreError, Pc, evicting
<1>12. ASSUME NEW p \in Workers, Return(p) PROVE TypeOK'
  BY <1>12 DEF TypeOK, Return, Released, Pc, evicting, Key
<1>13. ASSUME NEW p \in Workers, Scan(p) PROVE TypeOK'
  <2>1. IsDirectory(Restrict(store, Listed))
    BY FS_Subset DEF TypeOK, IsDirectory, Listed, Restrict
  <2>2. Cardinality(Listed) \in Nat
    BY FS_Subset, FS_CardinalityType DEF TypeOK, IsDirectory, Listed
  <2> QED
    BY <1>13, <2>1, <2>2 DEF TypeOK, Scan, Pc
<1>21. ASSUME NEW p \in Workers, ScanBreaks(p) PROVE TypeOK'
  BY <1>21 DEF TypeOK, ScanBreaks, Pc, evicting
<1>22. ASSUME NEW p \in Workers, EvictBegins(p) PROVE TypeOK'
  BY <1>22 DEF TypeOK, EvictBegins, Pc
<1>23. ASSUME NEW p \in Workers, EvictMeta(p) PROVE TypeOK'
  <2>1. IsDirectory(store')
    BY <1>23, RestrictKeepsDirectory DEF TypeOK, EvictMeta
  <2> QED
    BY <1>23, <2>1 DEF TypeOK, EvictMeta
<1> IsDirectory(<< >>)
  BY FS_EmptySet DEF IsDirectory
<1>14. ASSUME NEW p \in Workers, EvictEnds(p) PROVE TypeOK'
  BY <1>14 DEF TypeOK, EvictEnds, Forget, Pc
<1>15. ASSUME NEW p \in Workers, Die(p) PROVE TypeOK'
  <2>1. lock' \in [Versions -> Workers \cup { NoOne }]
    BY <1>15 DEF TypeOK, Die
  <2>2. pc' \in [Workers -> Pc] /\ misses' \in [Workers -> 0 .. EvictEvery - 1]
    BY <1>15 DEF TypeOK, Die, Pc
  <2>4. answer' \in [Workers -> Answers]
    BY <1>15, AnswerKeepsType DEF TypeOK, Die
  <2>3. /\ scan' = [q \in Workers |-> scan'[q]]
        /\ \A q \in Workers : IsDirectory(scan'[q])
        /\ scanned' \in [Workers -> Nat] /\ clock' \in [Workers -> Nat]
        /\ total' \in [Workers -> Nat] /\ victim' \in [Workers -> SUBSET Files]
    BY <1>15 DEF TypeOK, Die, Forget
  <2> QED
    BY <1>15, <2>1, <2>2, <2>3, <2>4 DEF TypeOK, Die
<1>16. ASSUME NEW p \in Workers, NEW f \in Files, EvictOne(p, f) PROVE TypeOK'
  <2>1. IsDirectory(store')
    <3>1. CASE UNCHANGED store
      BY <3>1 DEF TypeOK, IsDirectory
    <3>2. CASE store' = Restrict(store, DOMAIN store \ { f })
      BY <3>2, RestrictKeepsDirectory DEF TypeOK
    <3> QED
      BY <1>16, <3>1, <3>2 DEF EvictOne, Spares
  <2>2. IsDirectory(Restrict(scan[p], DOMAIN scan[p] \ { f }))
    BY RestrictKeepsDirectory DEF TypeOK
  <2>3. victim' \in [Workers -> SUBSET Files]
    <3>1. { f } \in SUBSET Files
      OBVIOUS
    <3>2. victim' = victim \/ victim' = [victim EXCEPT ![p] = { f }]
      BY <1>16 DEF EvictOne, Spares
    <3> QED
      BY <3>1, <3>2 DEF TypeOK
  <2>4. total' \in [Workers -> Nat]
    <3>1. total[p] \in Nat /\ total[p] > Keep
      BY <1>16 DEF TypeOK, EvictOne, Spares
    <3>2. total[p] - 1 \in Nat
      BY <3>1
    <3>3. total' = total \/ total' = [total EXCEPT ![p] = total[p] - 1]
      BY <1>16 DEF EvictOne, Spares
    <3> QED
      BY <3>2, <3>3 DEF TypeOK
  <2> QED
    BY <1>16, <2>1, <2>2, <2>3, <2>4 DEF TypeOK, EvictOne
<1>17. ASSUME NEW v \in Versions, Edit(v) PROVE TypeOK'
  <2>1. UNCHANGED << now, store, lock, pc, asked, since, tmp, answer, requests >>
    BY <1>17 DEF Edit
  <2>2. UNCHANGED << misses, scan, scanned, clock, total, victim, barged >>
    BY <1>17 DEF Edit, evicting
  <2> QED
    BY <1>17, <2>1, <2>2 DEF TypeOK, Edit
<1>18. CASE Tick
  <2>1. now' \in Nat
    BY <1>18 DEF TypeOK, Tick
  <2>2. UNCHANGED << source, store, lock, pc, asked, since, tmp, answer, requests >>
    BY <1>18 DEF Tick
  <2>3. UNCHANGED << misses, scan, scanned, clock, total, victim, barged >>
    BY <1>18 DEF Tick, evicting
  <2> QED
    BY <2>1, <2>2, <2>3 DEF TypeOK
<1>19. CASE UNCHANGED vars
  BY <1>19 DEF TypeOK, vars, evicting
<1> QED
  BY <1>1, <1>2, <1>3, <1>4, <1>5, <1>6, <1>7, <1>8, <1>9, <1>10, <1>11, <1>12,
     <1>13, <1>14, <1>15, <1>16, <1>17, <1>18, <1>19, <1>20, <1>21, <1>22,
     <1>23 DEF Next, Work

\* The lock is held by whoever builds, and by nobody else (_flock, build).
LEMMA LockStep ==
  TypeOK /\ InsideHolds /\ HolderInside /\ [Next]_vars
    => InsideHolds' /\ HolderInside'
<1> SUFFICES ASSUME TypeOK, InsideHolds, HolderInside, [Next]_vars
             PROVE  InsideHolds' /\ HolderInside'
  OBVIOUS
<1> USE CacheAssumption DEF TypeOK, InsideHolds, HolderInside, Inside, Holds, Key
<1>1. ASSUME NEW p \in Workers, Request(p) PROVE InsideHolds' /\ HolderInside'
  BY <1>1 DEF Request, evicting
<1>2. ASSUME NEW p \in Workers, HitCheck(p) PROVE InsideHolds' /\ HolderInside'
  BY <1>2 DEF HitCheck, evicting
<1>3. ASSUME NEW p \in Workers, Touch(p) PROVE InsideHolds' /\ HolderInside'
  BY <1>3 DEF Touch, evicting
<1>4. ASSUME NEW p \in Workers, Link(p) PROVE InsideHolds' /\ HolderInside'
  BY <1>4 DEF Link, evicting
<1>5. ASSUME NEW p \in Workers, NegCheck(p) PROVE InsideHolds' /\ HolderInside'
  <2>1. /\ UNCHANGED << asked, lock, barged >>
        /\ \A q \in Workers : q # p => pc'[q] = pc[q]
        /\ pc[p] = "neg" => pc'[p] \in { "return", "lock" }
        /\ pc[p] = "neg2" => pc'[p] \in { "return", "run" }
        /\ pc[p] \in { "neg", "neg2" }
    BY <1>5 DEF NegCheck
  <2>2. InsideHolds'
    BY <2>1
  <2>3. HolderInside'
    BY <2>1
  <2> QED
    BY <2>2, <2>3
<1>6. ASSUME NEW p \in Workers, Lock(p) PROVE InsideHolds' /\ HolderInside'
  <2>1. /\ lock[asked[p]] = NoOne /\ lock'[asked[p]] = p
        /\ \A v \in Versions : v # asked[p] => lock'[v] = lock[v]
    BY <1>6 DEF Lock, Enter
  <2>2. /\ asked' = asked /\ barged' = barged /\ pc[p] = "lock" /\ pc'[p] = "hit2"
        /\ \A q \in Workers : q # p => pc'[q] = pc[q]
    BY <1>6 DEF Lock, Enter
  <2>3. InsideHolds'
    BY <2>1, <2>2
  <2>4. HolderInside'
    <3> SUFFICES ASSUME NEW v \in Versions, NEW q \in Workers, lock'[v] = q
                 PROVE  /\ v = asked[q]
                        /\ pc'[q] \in Inside \cup { "touch", "link", "return" }
      BY <2>2
    <3>1. CASE v = asked[p]
      BY <2>1, <2>2, <3>1
    <3>2. CASE v # asked[p]
      <4>1. lock[v] = q
        BY <2>1, <3>2
      <4>2. q # p
        BY <2>2, <4>1
      <4> QED
        BY <2>2, <4>1, <4>2
    <3> QED
      BY <3>1, <3>2
  <2> QED
    BY <2>3, <2>4
<1>7. ASSUME NEW p \in Workers, LockTimeout(p) PROVE InsideHolds' /\ HolderInside'
  BY <1>7 DEF LockTimeout, evicting
<1>8. ASSUME NEW p \in Workers, Compile(p) PROVE InsideHolds' /\ HolderInside'
  BY <1>8 DEF Compile, Verdict, evicting
<1>9. ASSUME NEW p \in Workers, CompileBreaks(p) PROVE InsideHolds' /\ HolderInside'
  BY <1>9 DEF CompileBreaks, evicting
<1>10. ASSUME NEW p \in Workers, Publish(p) PROVE InsideHolds' /\ HolderInside'
  BY <1>10 DEF Publish, evicting
<1>11. ASSUME NEW p \in Workers, StoreError(p) PROVE InsideHolds' /\ HolderInside'
  BY <1>11 DEF StoreError, evicting
<1>12. ASSUME NEW p \in Workers, Return(p) PROVE InsideHolds' /\ HolderInside'
  BY <1>12 DEF Return, Released, evicting
<1>13. ASSUME NEW p \in Workers, Scan(p) PROVE InsideHolds' /\ HolderInside'
  <2>1. /\ asked' = asked /\ barged' = barged /\ lock' = lock
        /\ pc[p] = "scan" /\ pc'[p] = "scanned"
        /\ \A q \in Workers : q # p => pc'[q] = pc[q]
    BY <1>13 DEF Scan
  <2> QED
    BY <2>1
<1>14. ASSUME NEW p \in Workers, EvictEnds(p) PROVE InsideHolds' /\ HolderInside'
  <2>1. /\ asked' = asked /\ barged' = barged /\ lock' = lock
        /\ pc[p] \in { "scanned", "evict" } /\ pc'[p] = "idle"
        /\ \A q \in Workers : q # p => pc'[q] = pc[q]
    BY <1>14 DEF EvictEnds, Forget
  <2> QED
    BY <2>1
<1>15. ASSUME NEW p \in Workers, Die(p) PROVE InsideHolds' /\ HolderInside'
  <2>1. /\ asked' = asked /\ barged' = barged /\ pc'[p] = "idle"
        /\ \A q \in Workers : q # p => pc'[q] = pc[q]
        /\ \A v \in Versions : lock[v] = p => lock'[v] = NoOne
        /\ \A v \in Versions : lock[v] # p => lock'[v] = lock[v]
    BY <1>15 DEF Die, Forget
  <2>2. InsideHolds'
    BY <2>1
  <2>3. HolderInside'
    <3> SUFFICES ASSUME NEW v \in Versions, NEW q \in Workers, lock'[v] = q
                 PROVE  /\ v = asked[q]
                        /\ pc'[q] \in Inside \cup { "touch", "link", "return" }
      BY <2>1
    <3>1. lock'[v] # NoOne
      OBVIOUS
    <3>2. lock[v] # p
      BY <2>1, <3>1
    <3>3. lock[v] = q
      BY <2>1, <3>2
    <3> QED
      BY <2>1, <3>2, <3>3
  <2> QED
    BY <2>2, <2>3
<1>16. ASSUME NEW p \in Workers, NEW f \in Files, EvictOne(p, f)
      PROVE  InsideHolds' /\ HolderInside'
  BY <1>16 DEF EvictOne, Spares
<1>17. ASSUME NEW v \in Versions, Edit(v) PROVE InsideHolds' /\ HolderInside'
  BY <1>17 DEF Edit, evicting
<1>18. CASE Tick
  BY <1>18 DEF Tick, evicting
<1>19. CASE UNCHANGED vars
  BY <1>19 DEF vars, evicting
<1>20. ASSUME NEW p \in Workers, WriteMeta(p) PROVE InsideHolds' /\ HolderInside'
  BY <1>20 DEF WriteMeta, evicting
<1>21. ASSUME NEW p \in Workers, ScanBreaks(p) PROVE InsideHolds' /\ HolderInside'
  BY <1>21 DEF ScanBreaks, evicting
<1>22. ASSUME NEW p \in Workers, EvictBegins(p) PROVE InsideHolds' /\ HolderInside'
  BY <1>22 DEF EvictBegins, evicting
<1>23. ASSUME NEW p \in Workers, EvictMeta(p) PROVE InsideHolds' /\ HolderInside'
  BY <1>23 DEF EvictMeta, evicting
<1> QED
  BY <1>1, <1>2, <1>3, <1>4, <1>5, <1>6, <1>7, <1>8, <1>9, <1>10, <1>11, <1>12,
     <1>13, <1>14, <1>15, <1>16, <1>17, <1>18, <1>19, <1>20, <1>21, <1>22,
     <1>23 DEF Next, Work

\* What was looked for in vain stays missing, while the lock is held (hit).
LEMMA MissingStep ==
  TypeOK /\ InsideHolds /\ StillMissing /\ [Next]_vars => StillMissing'
<1> SUFFICES ASSUME TypeOK, InsideHolds, StillMissing, [Next]_vars PROVE StillMissing'
  OBVIOUS
<1> USE CacheAssumption
    DEF TypeOK, InsideHolds, StillMissing, Inside, Holds, Key, Exists, Bin
<1>1. ASSUME NEW p \in Workers, Request(p) PROVE StillMissing'
  BY <1>1 DEF Request, evicting
<1>2. ASSUME NEW p \in Workers, HitCheck(p) PROVE StillMissing'
  BY <1>2 DEF HitCheck, evicting
<1>3. ASSUME NEW p \in Workers, Touch(p) PROVE StillMissing'
  BY <1>3 DEF Touch, evicting, Put
<1>4. ASSUME NEW p \in Workers, Link(p) PROVE StillMissing'
  BY <1>4 DEF Link, evicting
<1>5. ASSUME NEW p \in Workers, NegCheck(p) PROVE StillMissing'
  BY <1>5 DEF NegCheck, evicting
<1>6. ASSUME NEW p \in Workers, Lock(p) PROVE StillMissing'
  BY <1>6 DEF Lock, Enter, evicting
<1>7. ASSUME NEW p \in Workers, LockTimeout(p) PROVE StillMissing'
  BY <1>7 DEF LockTimeout, evicting
<1>8. ASSUME NEW p \in Workers, Compile(p) PROVE StillMissing'
  BY <1>8 DEF Compile, Verdict, evicting
<1>9. ASSUME NEW p \in Workers, CompileBreaks(p) PROVE StillMissing'
  BY <1>9 DEF CompileBreaks, evicting
<1>10. ASSUME NEW p \in Workers, Publish(p) PROVE StillMissing'
  BY <1>10 DEF Publish, evicting, Put
<1>11. ASSUME NEW p \in Workers, StoreError(p) PROVE StillMissing'
  BY <1>11 DEF StoreError, evicting, Put, Err
<1>12. ASSUME NEW p \in Workers, Return(p) PROVE StillMissing'
  BY <1>12 DEF Return, Released, evicting
<1>13. ASSUME NEW p \in Workers, Scan(p) PROVE StillMissing'
  BY <1>13 DEF Scan, Restrict, Listed, evicting
<1>14. ASSUME NEW p \in Workers, EvictEnds(p) PROVE StillMissing'
  BY <1>14 DEF EvictEnds, Forget, evicting
<1>15. ASSUME NEW p \in Workers, Die(p) PROVE StillMissing'
  BY <1>15 DEF Die, Forget, evicting
<1>16. ASSUME NEW p \in Workers, NEW f \in Files, EvictOne(p, f) PROVE StillMissing'
  BY <1>16 DEF EvictOne, Spares, Restrict
<1>17. ASSUME NEW v \in Versions, Edit(v) PROVE StillMissing'
  BY <1>17 DEF Edit, evicting
<1>18. CASE Tick
  BY <1>18 DEF Tick, evicting
<1>19. CASE UNCHANGED vars
  BY <1>19 DEF vars, evicting
<1>20. ASSUME NEW p \in Workers, WriteMeta(p) PROVE StillMissing'
  BY <1>20 DEF WriteMeta, evicting, Put, Meta
<1>21. ASSUME NEW p \in Workers, ScanBreaks(p) PROVE StillMissing'
  BY <1>21 DEF ScanBreaks, evicting
<1>22. ASSUME NEW p \in Workers, EvictBegins(p) PROVE StillMissing'
  BY <1>22 DEF EvictBegins, evicting
<1>23. ASSUME NEW p \in Workers, EvictMeta(p) PROVE StillMissing'
  BY <1>23 DEF EvictMeta, evicting, Restrict
<1> QED
  BY <1>1, <1>2, <1>3, <1>4, <1>5, <1>6, <1>7, <1>8, <1>9, <1>10, <1>11, <1>12,
     <1>13, <1>14, <1>15, <1>16, <1>17, <1>18, <1>19, <1>20, <1>21, <1>22,
     <1>23 DEF Next, Work

\* The compiler's result says what is done with its file (build).
LEMMA ResultStep == TypeOK /\ ResultIsTmp /\ [Next]_vars => ResultIsTmp'
<1> SUFFICES ASSUME TypeOK, ResultIsTmp, [Next]_vars PROVE ResultIsTmp'
  OBVIOUS
<1> USE DEF TypeOK, ResultIsTmp
<1>1. ASSUME NEW p \in Workers, Request(p) PROVE ResultIsTmp'
  BY <1>1 DEF Request, evicting
<1>2. ASSUME NEW p \in Workers, HitCheck(p) PROVE ResultIsTmp'
  BY <1>2 DEF HitCheck, evicting
<1>3. ASSUME NEW p \in Workers, Touch(p) PROVE ResultIsTmp'
  BY <1>3 DEF Touch, evicting
<1>4. ASSUME NEW p \in Workers, Link(p) PROVE ResultIsTmp'
  BY <1>4 DEF Link, evicting
<1>5. ASSUME NEW p \in Workers, NegCheck(p) PROVE ResultIsTmp'
  BY <1>5 DEF NegCheck, evicting
<1>6. ASSUME NEW p \in Workers, Lock(p) PROVE ResultIsTmp'
  BY <1>6 DEF Lock, Enter, evicting
<1>7. ASSUME NEW p \in Workers, LockTimeout(p) PROVE ResultIsTmp'
  BY <1>7 DEF LockTimeout, evicting
<1>8. ASSUME NEW p \in Workers, Compile(p) PROVE ResultIsTmp'
  BY <1>8 DEF Compile, Verdict, evicting
<1>9. ASSUME NEW p \in Workers, CompileBreaks(p) PROVE ResultIsTmp'
  BY <1>9 DEF CompileBreaks, evicting
<1>10. ASSUME NEW p \in Workers, Publish(p) PROVE ResultIsTmp'
  BY <1>10 DEF Publish, evicting
<1>11. ASSUME NEW p \in Workers, StoreError(p) PROVE ResultIsTmp'
  BY <1>11 DEF StoreError, evicting
<1>12. ASSUME NEW p \in Workers, Return(p) PROVE ResultIsTmp'
  BY <1>12 DEF Return, Released, evicting
<1>13. ASSUME NEW p \in Workers, Scan(p) PROVE ResultIsTmp'
  BY <1>13 DEF Scan, Restrict, Listed, evicting
<1>14. ASSUME NEW p \in Workers, EvictEnds(p) PROVE ResultIsTmp'
  BY <1>14 DEF EvictEnds, Forget, evicting
<1>15. ASSUME NEW p \in Workers, Die(p) PROVE ResultIsTmp'
  BY <1>15 DEF Die, Forget, evicting
<1>16. ASSUME NEW p \in Workers, NEW f \in Files, EvictOne(p, f) PROVE ResultIsTmp'
  BY <1>16 DEF EvictOne, Spares
<1>17. ASSUME NEW v \in Versions, Edit(v) PROVE ResultIsTmp'
  BY <1>17 DEF Edit, evicting
<1>18. CASE Tick
  BY <1>18 DEF Tick, evicting
<1>19. CASE UNCHANGED vars
  BY <1>19 DEF vars, evicting
<1>20. ASSUME NEW p \in Workers, WriteMeta(p) PROVE ResultIsTmp'
  BY <1>20 DEF WriteMeta, evicting
<1>21. ASSUME NEW p \in Workers, ScanBreaks(p) PROVE ResultIsTmp'
  BY <1>21 DEF ScanBreaks, evicting
<1>22. ASSUME NEW p \in Workers, EvictBegins(p) PROVE ResultIsTmp'
  BY <1>22 DEF EvictBegins, evicting
<1>23. ASSUME NEW p \in Workers, EvictMeta(p) PROVE ResultIsTmp'
  BY <1>23 DEF EvictMeta, evicting
<1> QED
  BY <1>1, <1>2, <1>3, <1>4, <1>5, <1>6, <1>7, <1>8, <1>9, <1>10, <1>11, <1>12,
     <1>13, <1>14, <1>15, <1>16, <1>17, <1>18, <1>19, <1>20, <1>21, <1>22,
     <1>23 DEF Next, Work

\* An eviction's list is stale only in what is newer than the list (evict).
LEMMA ScanStep == TypeOK /\ StillMissing /\ ScanIsStale /\ [Next]_vars => ScanIsStale'
<1> SUFFICES ASSUME TypeOK, StillMissing, ScanIsStale, [Next]_vars PROVE ScanIsStale'
  OBVIOUS
<1> USE CacheAssumption DEF TypeOK, StillMissing, ScanIsStale, Key, Exists, Bin
<1>1. ASSUME NEW p \in Workers, Request(p) PROVE ScanIsStale'
  BY <1>1 DEF Request, evicting
<1>2. ASSUME NEW p \in Workers, HitCheck(p) PROVE ScanIsStale'
  BY <1>2 DEF HitCheck, evicting
<1>3. ASSUME NEW p \in Workers, Touch(p) PROVE ScanIsStale'
  BY <1>3 DEF Touch, evicting, Put
<1>4. ASSUME NEW p \in Workers, Link(p) PROVE ScanIsStale'
  BY <1>4 DEF Link, evicting
<1>5. ASSUME NEW p \in Workers, NegCheck(p) PROVE ScanIsStale'
  BY <1>5 DEF NegCheck, evicting
<1>6. ASSUME NEW p \in Workers, Lock(p) PROVE ScanIsStale'
  BY <1>6 DEF Lock, Enter, evicting
<1>7. ASSUME NEW p \in Workers, LockTimeout(p) PROVE ScanIsStale'
  BY <1>7 DEF LockTimeout, evicting
<1>8. ASSUME NEW p \in Workers, Compile(p) PROVE ScanIsStale'
  BY <1>8 DEF Compile, Verdict, evicting
<1>9. ASSUME NEW p \in Workers, CompileBreaks(p) PROVE ScanIsStale'
  BY <1>9 DEF CompileBreaks, evicting
<1>10. ASSUME NEW p \in Workers, Publish(p) PROVE ScanIsStale'
  BY <1>10 DEF Publish, evicting, Put
<1>11. ASSUME NEW p \in Workers, StoreError(p) PROVE ScanIsStale'
  BY <1>11 DEF StoreError, evicting, Put, Err
<1>12. ASSUME NEW p \in Workers, Return(p) PROVE ScanIsStale'
  BY <1>12 DEF Return, Released, evicting
<1>13. ASSUME NEW p \in Workers, Scan(p) PROVE ScanIsStale'
  BY <1>13 DEF Scan, Restrict, Listed, evicting
<1>14. ASSUME NEW p \in Workers, EvictEnds(p) PROVE ScanIsStale'
  <2>1. /\ asked' = asked /\ store' = store /\ now' = now
        /\ barged' = barged /\ tmp' = tmp
        /\ pc'[p] = "idle" /\ \A q \in Workers : q # p => pc'[q] = pc[q]
        /\ DOMAIN scan'[p] = {} /\ scanned'[p] = 0 /\ clock'[p] = 0
        /\ \A q \in Workers : q # p => /\ scan'[q] = scan[q] /\ scanned'[q] = scanned[q]
                                      /\ clock'[q] = clock[q]
    BY <1>14 DEF EvictEnds, Forget
  <2>2. \A q \in Workers : scanned'[q] <= now' /\ clock'[q] <= now'
    <3>1. now \in Nat /\ \A q \in Workers : scanned[q] <= now /\ clock[q] <= now
      OBVIOUS
    <3> QED
      BY ONLY <2>1, <3>1
  <2>3. \A q \in Workers : \A f \in DOMAIN scan'[q] :
          q # p /\ scan'[q] = scan[q] /\ f \in DOMAIN scan[q] /\ scanned'[q] = scanned[q]
    BY <2>1
  <2>4. \A q, r \in Workers : \A f \in DOMAIN scan'[q] :
          pc'[r] = "publish" /\ f = Bin(asked[r])
            => tmp[r].mtime >= scanned'[q] \/ f[2] \in barged
    BY ONLY <2>1, <2>3, ScanIsStale DEF ScanIsStale
  <2>5. \A q \in Workers : \A f \in DOMAIN scan'[q] :
          Exists(f) => \/ store[f].mtime = scan'[q][f].mtime
                       \/ store[f].mtime >= scanned'[q]
                       \/ f[2] \in barged
    BY <2>3
  <2> QED
    BY <2>1, <2>2, <2>4, <2>5
<1>15. ASSUME NEW p \in Workers, Die(p) PROVE ScanIsStale'
  <2>1. /\ asked' = asked /\ store' = store /\ now' = now
        /\ barged' = barged /\ tmp' = tmp
        /\ pc'[p] = "idle" /\ \A q \in Workers : q # p => pc'[q] = pc[q]
        /\ DOMAIN scan'[p] = {} /\ scanned'[p] = 0 /\ clock'[p] = 0
        /\ \A q \in Workers : q # p => /\ scan'[q] = scan[q] /\ scanned'[q] = scanned[q]
                                      /\ clock'[q] = clock[q]
    BY <1>15 DEF Die, Forget
  <2>2. \A q \in Workers : scanned'[q] <= now' /\ clock'[q] <= now'
    <3>1. now \in Nat /\ \A q \in Workers : scanned[q] <= now /\ clock[q] <= now
      OBVIOUS
    <3> QED
      BY ONLY <2>1, <3>1
  <2>3. \A q \in Workers : \A f \in DOMAIN scan'[q] :
          q # p /\ scan'[q] = scan[q] /\ f \in DOMAIN scan[q] /\ scanned'[q] = scanned[q]
    BY <2>1
  <2>4. \A q, r \in Workers : \A f \in DOMAIN scan'[q] :
          pc'[r] = "publish" /\ f = Bin(asked[r])
            => tmp[r].mtime >= scanned'[q] \/ f[2] \in barged
    BY ONLY <2>1, <2>3, ScanIsStale DEF ScanIsStale
  <2>5. \A q \in Workers : \A f \in DOMAIN scan'[q] :
          Exists(f) => \/ store[f].mtime = scan'[q][f].mtime
                       \/ store[f].mtime >= scanned'[q]
                       \/ f[2] \in barged
    BY <2>3
  <2> QED
    BY <2>1, <2>2, <2>4, <2>5
<1>16. ASSUME NEW p \in Workers, NEW f \in Files, EvictOne(p, f) PROVE ScanIsStale'
  BY <1>16 DEF EvictOne, Spares, Restrict
<1>17. ASSUME NEW v \in Versions, Edit(v) PROVE ScanIsStale'
  BY <1>17 DEF Edit, evicting
<1>18. CASE Tick
  BY <1>18 DEF Tick, evicting
<1>19. CASE UNCHANGED vars
  BY <1>19 DEF vars, evicting
<1>20. ASSUME NEW p \in Workers, WriteMeta(p) PROVE ScanIsStale'
  BY <1>20 DEF WriteMeta, evicting, Put, Meta
<1>21. ASSUME NEW p \in Workers, ScanBreaks(p) PROVE ScanIsStale'
  BY <1>21 DEF ScanBreaks, evicting
<1>22. ASSUME NEW p \in Workers, EvictBegins(p) PROVE ScanIsStale'
  BY <1>22 DEF EvictBegins, evicting
<1>23. ASSUME NEW p \in Workers, EvictMeta(p) PROVE ScanIsStale'
  BY <1>23 DEF EvictMeta, evicting, Restrict
<1> QED
  BY <1>1, <1>2, <1>3, <1>4, <1>5, <1>6, <1>7, <1>8, <1>9, <1>10, <1>11, <1>12,
     <1>13, <1>14, <1>15, <1>16, <1>17, <1>18, <1>19, <1>20, <1>21, <1>22,
     <1>23 DEF Next, Work

\* CacheInv is inductive (build, evict).
LEMMA CacheInductive ==
  /\ Init => TypeOK /\ CacheInv
  /\ TypeOK /\ CacheInv /\ [Next]_vars => TypeOK' /\ CacheInv'
<1>1. IsDirectory(<< >>)
  BY FS_EmptySet DEF IsDirectory
<1>2. Init => TypeOK
  BY <1>1, CacheAssumption DEF Init, TypeOK, Pc, Answers
<1>3. Init => CacheInv
  BY CacheAssumption
     DEF Init, CacheInv, InsideHolds, HolderInside, StillMissing, ResultIsTmp,
         ScanIsStale, Inside
<1> QED
  BY <1>2, <1>3, TypeStep, LockStep, MissingStep, ResultStep, ScanStep DEF CacheInv

\* The inductive invariant holds in every reachable state, for any workers,
\* sources and times (cached_build, build, evict).
THEOREM CacheInvariant == Spec => [](TypeOK /\ CacheInv)
BY CacheInductive, PTL DEF Spec

\* Products of what compiles, errors of what does not, and nothing else, are
\* in the directory, whoever dies and whatever is edited (build).
THEOREM TypeCorrect == Spec => []TypeOK
BY CacheInvariant, PTL

\* No two workers build for one key at the same time, unless a wait for its
\* lock was given up (_flock, build).
THEOREM OneBuilderAtATime == Spec => []OneBuilder
<1>1. TypeOK /\ CacheInv => OneBuilder
  BY DEF TypeOK, CacheInv, InsideHolds, Inside, OneBuilder, Building, Holds, Key
<1> QED
  BY <1>1, CacheInvariant, PTL

\* Nobody builds what is there, unless a wait was given up (build).
THEOREM BuiltOnce == Spec => []BuildOnce
<1>1. CacheInv => BuildOnce
  BY DEF CacheInv, StillMissing, BuildOnce
<1> QED
  BY <1>1, CacheInvariant, PTL

\* What eviction removes is older than min_age, or was refreshed or built after
\* the scan, or was built twice (evict).
THEOREM EvictionSparesTheYoung == Spec => YoungSurvives
<1> DEFINE Spared ==
      \A f \in Files, p \in Workers :
        Removed(f) /\ EvictOne(p, f)
          => \/ now - store[f].mtime >= MinAge
             \/ store[f].mtime >= scanned[p]
             \/ f[2] \in barged
<1>1. TypeOK /\ CacheInv /\ [Next]_vars => [Spared]_vars
  <2> SUFFICES ASSUME TypeOK, CacheInv,
                      NEW f \in Files, NEW p \in Workers, Removed(f), EvictOne(p, f)
               PROVE  \/ now - store[f].mtime >= MinAge
                      \/ store[f].mtime >= scanned[p]
                      \/ f[2] \in barged
    OBVIOUS
  <2>1. f \in DOMAIN scan[p] /\ Exists(f) /\ store' # store
    BY DEF EvictOne, Spares, Removed, Exists
  <2>2. clock[p] - scan[p][f].mtime >= MinAge
    BY <2>1, CacheAssumption DEF EvictOne, Spares, TypeOK, IsDirectory
  <2>3. clock[p] <= now
    BY DEF CacheInv, ScanIsStale
  <2>4. \/ store[f].mtime = scan[p][f].mtime
        \/ store[f].mtime >= scanned[p]
        \/ f[2] \in barged
    BY <2>1 DEF CacheInv, ScanIsStale
  <2>5. /\ store[f].mtime \in Nat /\ scan[p][f].mtime \in Nat
        /\ now \in Nat /\ scanned[p] \in Nat /\ clock[p] \in Nat
    BY <2>1 DEF TypeOK, IsDirectory, Exists
  <2> QED
    BY <2>2, <2>3, <2>4, <2>5, CacheAssumption
<1> QED
  BY <1>1, CacheInvariant, PTL DEF Spec, YoungSurvives

(***************************************************************************)
(* What is in the cache is what its key says, if the source is left alone  *)
(* while a request is under way.                                           *)
(***************************************************************************)

\* A file put into the directory under the key of its version (run's product,
\* its .meta, a stored error, a refreshed product).
LEMMA PutTellsContent ==
  ASSUME NEW f, NEW v, NEW t, Put(f, v, t), v = f[2],
         \A g \in DOMAIN store : store[g].of = g[2]
  PROVE  \A g \in DOMAIN store' : store'[g].of = g[2]
<1> DEFINE new(g) == IF g = f THEN [of |-> v, mtime |-> t] ELSE store[g]
<1>1. /\ DOMAIN store' = DOMAIN store \cup { f }
      /\ \A g \in DOMAIN store \cup { f } : store'[g] = new(g)
  BY DEF Put
<1>2. \A g \in DOMAIN store \cup { f } : new(g).of = g[2]
  OBVIOUS
<1> QED
  BY <1>1, <1>2

\* Each file stays of its key's version, and each request about the source,
\* unless it is edited during a request (key_of, cached_build, build).
LEMMA KeyStep ==
  ASSUME EditAnyTime = FALSE
  PROVE  TypeOK /\ KeyTellsContent /\ [Next]_vars => KeyTellsContent'
<1> SUFFICES ASSUME TypeOK, KeyTellsContent, [Next]_vars PROVE KeyTellsContent'
  OBVIOUS
<1> DEFINE Told == \A f \in DOMAIN store : store[f].of = f[2]
<1> DEFINE Current ==
      \A p \in Workers :
        /\ pc[p] \in Asking => asked[p] = source
        /\ pc[p] \in { "publish", "meta", "fail" } => tmp[p].of = asked[p]
        /\ answer[p].of = asked[p]
<1>a. KeyTellsContent <=> Told /\ Current
  BY DEF KeyTellsContent
<1>b. KeyTellsContent' <=> Told' /\ Current'
  BY <1>a DEF KeyTellsContent
<1>c. Told /\ Current
  BY <1>a
<1>d. pc \in [Workers -> Pc] /\ asked \in [Workers -> Versions]
      /\ tmp \in [Workers -> [of : Versions, mtime : Nat]]
      /\ answer \in [Workers -> Answers] /\ source \in Versions
  BY DEF TypeOK
<1>e. UNCHANGED store => Told'
  BY <1>c
<1>f. ASSUME NEW S, store' = Restrict(store, DOMAIN store \ S) PROVE Told'
  BY <1>c, <1>f DEF Restrict
<1> USE DEF Asking, Pc
<1>1. ASSUME NEW p \in Workers, Request(p) PROVE KeyTellsContent'
  <2>1. Current'
    BY <1>1, <1>c, <1>d DEF Request
  <2> QED
    BY <1>1, <1>b, <1>e, <2>1 DEF Request
<1>2. ASSUME NEW p \in Workers, HitCheck(p) PROVE KeyTellsContent'
  <2>1. Current'
    BY <1>2, <1>c, <1>d DEF HitCheck
  <2> QED
    BY <1>2, <1>b, <1>e, <2>1 DEF HitCheck
<1>3. ASSUME NEW p \in Workers, Touch(p) PROVE KeyTellsContent'
  <2>1. Current'
    BY <1>3, <1>c, <1>d DEF Touch
  <2>2. CASE Exists(Bin(asked[p])) /\ Put(Bin(asked[p]), store[Bin(asked[p])].of, now)
    <3>1. store[Bin(asked[p])].of = Bin(asked[p])[2]
      BY <2>2, <1>c DEF Exists
    <3> QED
      BY <2>1, <2>2, <3>1, <1>b, <1>c, PutTellsContent
  <2>3. CASE UNCHANGED store
    BY <2>1, <2>3, <1>b, <1>e
  <2> QED
    BY <1>3, <2>2, <2>3 DEF Touch
<1>4. ASSUME NEW p \in Workers, Link(p) PROVE KeyTellsContent'
  <2>1. Exists(Bin(asked[p])) => store[Bin(asked[p])].of = asked[p]
    BY <1>c DEF Exists, Bin, Key
  <2>2. answer' = [answer EXCEPT ![p] = answer'[p]] /\ answer'[p].of = asked[p]
    BY <1>4, <1>d, <2>1 DEF Link
  <2>3. Current'
    BY <1>4, <1>c, <1>d, <2>2 DEF Link
  <2> QED
    BY <1>4, <1>b, <1>e, <2>3 DEF Link
<1>5. ASSUME NEW p \in Workers, NegCheck(p) PROVE KeyTellsContent'
  <2>1. Exists(Err(asked[p])) => store[Err(asked[p])].of = asked[p]
    BY <1>c DEF Exists, Err, Key
  <2>2. answer' = [answer EXCEPT ![p] = answer'[p]] /\ answer'[p].of = asked[p]
    BY <1>5, <1>c, <1>d, <2>1 DEF NegCheck
  <2>3. /\ pc' = [pc EXCEPT ![p] = pc'[p]] /\ pc'[p] \in { "return", "lock", "run" }
        /\ pc[p] \in { "neg", "neg2" }
    BY <1>5, <1>d DEF NegCheck
  <2>4. UNCHANGED << asked, source, tmp, store >>
    BY <1>5 DEF NegCheck
  <2>5. Current'
    BY <1>c, <1>d, <2>2, <2>3, <2>4
  <2> QED
    BY <1>b, <1>e, <2>4, <2>5
<1>6. ASSUME NEW p \in Workers, Lock(p) PROVE KeyTellsContent'
  <2>1. Current'
    BY <1>6, <1>c, <1>d DEF Lock, Enter
  <2> QED
    BY <1>6, <1>b, <1>e, <2>1 DEF Lock, Enter
<1>7. ASSUME NEW p \in Workers, LockTimeout(p) PROVE KeyTellsContent'
  <2>1. Current'
    BY <1>7, <1>c, <1>d DEF LockTimeout
  <2> QED
    BY <1>7, <1>b, <1>e, <2>1 DEF LockTimeout
<1>8. ASSUME NEW p \in Workers, Compile(p) PROVE KeyTellsContent'
  <2>1. asked[p] = source
    BY <1>8, <1>c DEF Compile
  <2>2. Current'
    BY <1>8, <1>c, <1>d, <2>1 DEF Compile, Verdict
  <2> QED
    BY <1>8, <1>b, <1>e, <2>2 DEF Compile
<1>9. ASSUME NEW p \in Workers, CompileBreaks(p) PROVE KeyTellsContent'
  <2>1. Current'
    BY <1>9, <1>c, <1>d DEF CompileBreaks
  <2> QED
    BY <1>9, <1>b, <1>e, <2>1 DEF CompileBreaks
<1>10. ASSUME NEW p \in Workers, Publish(p) PROVE KeyTellsContent'
  <2>1. Current'
    BY <1>10, <1>c, <1>d DEF Publish
  <2>2. tmp[p].of = Bin(asked[p])[2]
    BY <1>10, <1>c DEF Publish, Bin, Key
  <2> QED
    BY <1>10, <2>1, <2>2, <1>b, <1>c, PutTellsContent DEF Publish
<1>11. ASSUME NEW p \in Workers, WriteMeta(p) PROVE KeyTellsContent'
  <2>1. Current'
    BY <1>11, <1>c, <1>d DEF WriteMeta
  <2>2. tmp[p].of = Meta(asked[p])[2]
    BY <1>11, <1>c DEF WriteMeta, Meta, Key
  <2>3. CASE Put(Meta(asked[p]), tmp[p].of, now)
    BY <2>3, <2>1, <2>2, <1>b, <1>c, PutTellsContent
  <2>4. CASE UNCHANGED store
    BY <2>1, <2>4, <1>b, <1>e
  <2> QED
    BY <1>11, <2>3, <2>4 DEF WriteMeta
<1>12. ASSUME NEW p \in Workers, StoreError(p) PROVE KeyTellsContent'
  <2>1. tmp[p].of = asked[p]
    BY <1>12, <1>c DEF StoreError
  <2>2. Current'
    BY <1>12, <1>c, <1>d, <2>1 DEF StoreError
  <2>3. CASE Put(Err(asked[p]), tmp[p].of, now)
    <3>1. tmp[p].of = Err(asked[p])[2]
      BY <2>1 DEF Err, Key
    <3> QED
      BY <2>3, <2>2, <3>1, <1>b, <1>c, PutTellsContent
  <2>4. CASE UNCHANGED store
    BY <2>2, <2>4, <1>b, <1>e
  <2> QED
    BY <1>12, <2>3, <2>4 DEF StoreError
<1>13. ASSUME NEW p \in Workers, Return(p) PROVE KeyTellsContent'
  <2>1. Current'
    BY <1>13, <1>c, <1>d DEF Return
  <2> QED
    BY <1>13, <1>b, <1>e, <2>1 DEF Return
<1>14. ASSUME NEW p \in Workers, Scan(p) PROVE KeyTellsContent'
  <2>1. Current'
    BY <1>14, <1>c, <1>d DEF Scan
  <2> QED
    BY <1>14, <1>b, <1>e, <2>1 DEF Scan
<1>15. ASSUME NEW p \in Workers, ScanBreaks(p) PROVE KeyTellsContent'
  <2>1. Current'
    BY <1>15, <1>c, <1>d DEF ScanBreaks
  <2> QED
    BY <1>15, <1>b, <1>e, <2>1 DEF ScanBreaks
<1>16. ASSUME NEW p \in Workers, EvictBegins(p) PROVE KeyTellsContent'
  <2>1. Current'
    BY <1>16, <1>c, <1>d DEF EvictBegins
  <2> QED
    BY <1>16, <1>b, <1>e, <2>1 DEF EvictBegins
<1>17. ASSUME NEW p \in Workers, NEW f \in Files, EvictOne(p, f) PROVE KeyTellsContent'
  <2>1. UNCHANGED << pc, asked, source, tmp, answer >>
    BY <1>17 DEF EvictOne
  <2>2. Current'
    BY <1>c, <2>1
  <2>3. UNCHANGED store \/ store' = Restrict(store, DOMAIN store \ { f })
    BY <1>17 DEF EvictOne
  <2> QED
    BY <1>b, <1>e, <1>f, <2>2, <2>3
<1>18. ASSUME NEW p \in Workers, EvictMeta(p) PROVE KeyTellsContent'
  <2>1. UNCHANGED << pc, asked, source, tmp, answer >>
    BY <1>18 DEF EvictMeta
  <2>2. Current'
    BY <1>c, <2>1
  <2> QED
    BY <1>18, <1>b, <1>f, <2>2 DEF EvictMeta
<1>19. ASSUME NEW p \in Workers, EvictEnds(p) PROVE KeyTellsContent'
  <2>1. Current'
    BY <1>19, <1>c, <1>d DEF EvictEnds
  <2> QED
    BY <1>19, <1>b, <1>e, <2>1 DEF EvictEnds
<1>20. ASSUME NEW p \in Workers, Die(p) PROVE KeyTellsContent'
  <2>1. Current'
    BY <1>20, <1>c, <1>d DEF Die
  <2> QED
    BY <1>20, <1>b, <1>e, <2>1 DEF Die
<1>21. ASSUME NEW v \in Versions, Edit(v) PROVE KeyTellsContent'
  <2>1. \A p \in Workers : pc[p] \notin Asking
    BY <1>21 DEF Edit
  <2>2. Current'
    BY <1>21, <1>c, <2>1 DEF Edit
  <2> QED
    BY <1>21, <1>b, <1>e, <2>2 DEF Edit
<1>22. CASE Tick
  BY <1>22, <1>b, <1>c DEF Tick
<1>23. CASE UNCHANGED vars
  BY <1>23, <1>b, <1>c DEF vars
<1> QED
  BY <1>1, <1>2, <1>3, <1>4, <1>5, <1>6, <1>7, <1>8, <1>9, <1>10, <1>11, <1>12,
     <1>13, <1>14, <1>15, <1>16, <1>17, <1>18, <1>19, <1>20, <1>21, <1>22,
     <1>23 DEF Next, Work

\* As long as the source is left alone during a request, what the cache holds
\* and what a worker brings back are of the version that was asked for, with
\* crashes, evictions and waits given up (key_of, cached_build).
THEOREM CacheTellsContent ==
  ASSUME EditAnyTime = FALSE
  PROVE  Spec => []KeyTellsContent
<1>1. Init => KeyTellsContent
  BY DEF Init, KeyTellsContent, Asking, Pc
<1>2. TypeOK /\ KeyTellsContent /\ [Next]_vars => KeyTellsContent'
  BY KeyStep
<1> QED
  BY <1>1, <1>2, TypeCorrect, PTL DEF Spec

\* No hit is of another version than the one asked for (key_of, hit), as long
\* as the source is left alone during a request.
THEOREM HitsAreCurrent ==
  ASSUME EditAnyTime = FALSE
  PROVE  Spec => []HitIsCurrent
<1>1. KeyTellsContent => HitIsCurrent
  BY DEF KeyTellsContent, HitIsCurrent, Bin, Err, Key
<1> QED
  BY <1>1, CacheTellsContent, PTL
=============================================================================
